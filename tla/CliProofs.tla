------------------------------ MODULE CliProofs ------------------------------
(***************************************************************************)
(* The commands of cli.py drive the repository only in ways that module    *)
(* Repository allows (Drives), so that whatever is proved of it holds of   *)
(* them.  On top of that: what a command holds, what it says, and what it  *)
(* changes.                                                                *)
(*                                                                         *)
(* PlaceInv ties the place a command has reached to the state of its       *)
(* repository, and what it will say to what it has written; the other      *)
(* parts add the entry that was shown (SeenInv), the change being written  *)
(* (DoesInv) and the change that was reported (ToldInv).                   *)
(***************************************************************************)
EXTENDS Cli, RepositoryProofs

CliTypeOK ==
  /\ cmd \in [Procs -> Commands \cup {"none"}]
  /\ at \in [Procs -> Places]
  /\ told \in [Procs -> Results]
  /\ changed \in [Procs -> BOOLEAN]
  /\ seen \in [Procs -> [id : Ids, data : Records] \cup {Nothing}]

\* The command that writes is the one whose method is running.
Writer(p) ==
  /\ pc[p] = "creating" => cmd[p] = "init"
  /\ pc[p] = "saving" => cmd[p] \in {"add", "update", "delete"}
  /\ pc[p] = "rekeying" => cmd[p] = "passwd"

PlaceOf(p) ==
  /\ at[p] \in {"ended", "password", "printing", "copying"} => pc[p] = "idle"
  /\ at[p] = "opening" => pc[p] = IF cmd[p] = "init" THEN "checked" ELSE "loading"
  /\ at[p] \in {"body", "prompt"} => pc[p] = "open"
  /\ at[p] = "leaving" => pc[p] \in {"open", "closing"} \cup Writing
  /\ at[p] = "copying" => cmd[p] = "copy"
  /\ pc[p] \in Writing => told[p] = "none"
  /\ Writer(p)
  /\ changed[p] = TRUE =>
       at[p] \in {"leaving", "printing"} /\ told[p] # "refused" /\ cmd[p] \in Changes
  /\ st[p] = "applied" => changed[p] = TRUE
  /\ at[p] = "leaving" /\ told[p] = "ok" /\ cmd[p] \in Changes =>
       pc[p] = "closing" /\ changed[p] = TRUE
  /\ at[p] = "printing" /\ cmd[p] \in Changes => changed[p] = TRUE

PlaceInv == \A p \in Procs : PlaceOf(p)

CliInv == LockInv /\ CliTypeOK /\ PlaceInv

\* The entry shown at a prompt is one of the session's.
SeenInv ==
  \A p \in Procs : at[p] = "prompt" /\ cmd[p] \in {"update", "delete"} => seen[p] \in ToSet(entries[p])

\* What is being written is what the command was asked to do to the file.
DoesInv == \A p \in Procs : st[p] = "pending" => Does(p, file.plaintext, arg[p].plaintext)

\* A change that will be reported as done is the file's content, for good.
ToldInv ==
  \A p \in Procs : at[p] = "leaving" /\ told[p] = "ok" /\ cmd[p] \in Changes =>
    file = unlocked[p] /\ (DirSyncWorks => durFile = file)

-----------------------------------------------------------------------------
\* The commands drive the repository

Acts(p) == UserStep(p) \/ ProgramStep(p) \/ write_raises(p) \/ Kill(p)
CliActs(p) == CliProgramStep(p) \/ CliUserStep(p) \/ cli_raises(p) \/ die(p)

\* What a command does is a step of its process in the repository, or leaves
\* the repository alone.
LEMMA ActsAs ==
  ASSUME TypeOK, NEW p \in Procs, CliActs(p)
  PROVE  Acts(p) \/ UNCHANGED vars
<1> DEFINE Goal == Acts(p) \/ UNCHANGED vars
<1> HIDE DEF Goal
<1>1. ASSUME CliProgramStep(p) PROVE Goal
  <2>1. ASSUME init_writes(p) \/ init_locked(p) \/ open_loads(p) \/ open_rejected(p)
               \/ cli_replaces(p) \/ cli_returns(p)
        PROVE  ProgramStep(p)
    BY <2>1 DEF ProgramStep, init_writes, init_locked, open_loads, open_rejected, cli_replaces,
                cli_returns
  <2>2. ASSUME not_found(p) PROVE UserStep(p)
    BY <2>2 DEF UserStep, not_found
  <2>3. ASSUME leave(p) PROVE UserStep(p) \/ ProgramStep(p)
    BY <2>3 DEF UserStep, ProgramStep, leave, close
  <2>4. ASSUME found_to_show(p) \/ found_to_change(p) \/ prints(p) PROVE UNCHANGED vars
    BY <2>4 DEF found_to_show, found_to_change, prints
  <2> QED
    BY <1>1, <2>1, <2>2, <2>3, <2>4 DEF CliProgramStep, Goal, Acts
<1>2. ASSUME CliUserStep(p) PROVE Goal
  <2>1. ASSUME \/ \E c \in Commands : start(p, c) \/ start_fails(p, c)
               \/ init_exists(p) \/ open_locked(p)
               \/ password_fails(p) \/ prompt_fails(p) \/ copy_ends(p)
        PROVE  UNCHANGED vars
    BY <2>1 DEF start, start_fails, init_exists, open_locked, password_fails, prompt_fails, copy_ends
  <2>2. ASSUME init_checks(p) \/ open_repository(p) \/ add(p) \/ passwd(p) PROVE UserStep(p)
    BY <2>2 DEF UserStep, init_checks, open_repository, add, passwd
  <2>3. entries[p] \in Seq([id : Ids, data : Records])
    BY DEF TypeOK, Entries
  <2>4. \A i \in DOMAIN entries[p] : entries[p][i].id \in Ids
    <3>1. \A i \in 1 .. Len(entries[p]) : entries[p][i] \in [id : Ids, data : Records]
      BY <2>3, ElementOfSeq
    <3> QED
      BY <2>3, <3>1
  <2>5. ASSUME update(p) PROVE UserStep(p)
    <3>1. PICK fs \in SUBSET Fields, r \in Records : update_entry(p, seen[p].id, fs, r)
      BY <2>5 DEF update
    <3>2. seen[p].id \in Ids
      BY <2>4, <3>1 DEF update_entry
    <3> QED
      BY <3>1, <3>2 DEF UserStep
  <2>6. ASSUME delete(p) PROVE UserStep(p)
    <3>1. delete_entry(p, seen[p].id)
      BY <2>6 DEF delete
    <3>2. seen[p].id \in Ids
      BY <2>4, <3>1 DEF delete_entry
    <3> QED
      BY <3>1, <3>2 DEF UserStep
  <2> QED
    BY <1>2, <2>1, <2>2, <2>5, <2>6 DEF CliUserStep, Goal, Acts
<1>3. ASSUME cli_raises(p) PROVE Goal
  BY <1>3 DEF cli_raises, Goal, Acts
<1>4. ASSUME die(p) PROVE Goal
  BY <1>4 DEF die, Goal, Acts
<1> QED
  BY <1>1, <1>2, <1>3, <1>4 DEF CliActs, Goal

\* So every step of the commands is a step of the repository or stutters.
LEMMA RepositoryStep == TypeOK /\ [CliNext]_cliVars => [Next]_vars
<1> SUFFICES ASSUME TypeOK, [CliNext]_cliVars PROVE [Next]_vars
  OBVIOUS
<1>1. ASSUME NEW p \in Procs, CliActs(p) PROVE [Next]_vars
  BY <1>1, ActsAs DEF Next, Acts
<1>2. CASE directory_synced /\ UNCHANGED cli
  BY <1>2 DEF Next
<1>3. CASE cli_power_loss
  BY <1>3 DEF Next, cli_power_loss
<1>4. CASE UNCHANGED cliVars
  BY <1>4 DEF cliVars
<1> QED
  BY <1>1, <1>2, <1>3, <1>4 DEF CliNext, CliActs

\* The types and the lock, now for the commands.
LEMMA CliLockInvariant == CliSpec => []LockInv
<1>1. CliInit => LockInv
  BY LockInit DEF CliInit
<1>2. LockInv /\ [CliNext]_cliVars => LockInv'
  BY RepositoryStep, LockStep DEF LockInv
<1> QED
  BY <1>1, <1>2, PTL DEF CliSpec

\* The commands of cli.py use the repository as module Repository says its
\* callers do: the theorems about it hold of them.
THEOREM Drives == CliSpec => Spec
<1>1. CliInit => Init
  BY DEF CliInit
<1>2. LockInv /\ [CliNext]_cliVars => [Next]_vars
  BY RepositoryStep DEF LockInv
<1> QED
  BY <1>1, <1>2, CliLockInvariant, PTL DEF CliSpec, Spec

-----------------------------------------------------------------------------
\* Where a command is and what it has done

\* The commands' variables keep their types in a step of Step.
LEMMA StepType ==
  ASSUME CliTypeOK, NEW p \in Procs, NEW from, NEW to \in Places, NEW result \in Results,
         Step(p, from, to, result)
  PROVE  /\ CliTypeOK' /\ at[p] = from /\ at'[p] = to /\ told'[p] = result
         /\ to = "ended" => cmd'[p] = "none" /\ changed'[p] = FALSE
         /\ to # "ended" => UNCHANGED <<cmd, changed, seen>>
         /\ \A q \in Procs \ {p} : /\ at'[q] = at[q] /\ told'[q] = told[q] /\ cmd'[q] = cmd[q]
                                   /\ changed'[q] = changed[q] /\ seen'[q] = seen[q]
BY DEF CliTypeOK, Step, Move, Commands

\* What the repository's operations do to the caller and to nobody else.
LEMMA Calls ==
  ASSUME LockInv, NEW p \in Procs
  PROVE  /\ create_check(p) => pc[p] = "idle" /\ pc' = [pc EXCEPT ![p] = "checked"] /\ st' = st
         /\ create_locked(p) => pc' = [pc EXCEPT ![p] = "idle"] /\ st' = st
         /\ open_lock(p) => pc' = [pc EXCEPT ![p] = "loading"] /\ st' = st
         /\ \A pw \in Passwords :
              /\ create_write(p, pw) =>
                   /\ pc[p] = "checked" /\ pc' = [pc EXCEPT ![p] = "creating"]
                   /\ st' = [st EXCEPT ![p] = "pending"]
              /\ open_load(p, pw) => pc[p] = "loading" /\ pc' = [pc EXCEPT ![p] = "open"] /\ st' = st
              /\ open_fails(p, pw) => pc' = [pc EXCEPT ![p] = "idle"] /\ st' = st
              /\ change_master_password(p, pw) =>
                   \/ pc' = [pc EXCEPT ![p] = "rekeying"] /\ st' = [st EXCEPT ![p] = "pending"]
                   \/ pc' = [pc EXCEPT ![p] = "closing"] /\ st' = st
         /\ \A es : persist(p, es) =>
              \/ pc' = [pc EXCEPT ![p] = "saving"] /\ st' = [st EXCEPT ![p] = "pending"]
              \/ pc' = [pc EXCEPT ![p] = "closing"] /\ st' = st
         /\ \A id \in Ids : entry_not_found(p, id) =>
              pc' = [pc EXCEPT ![p] = "closing"] /\ st' = st
         /\ write_replaces(p) => /\ pc' = pc /\ pc[p] \in Writing /\ st[p] = "pending"
                                 /\ st' = [st EXCEPT ![p] = "applied"]
         /\ write_returns(p) => /\ pc[p] \in Writing /\ pc' = [pc EXCEPT ![p] = "closing"]
                                /\ st[p] = "applied" /\ st' = [st EXCEPT ![p] = "idle"]
         /\ write_raises(p) => /\ pc[p] \in Writing
                               /\ pc' = [pc EXCEPT ![p] = IF pc[p] = "creating" THEN "idle"
                                                          ELSE "closing"]
                               /\ st' = [st EXCEPT ![p] = "idle"]
         /\ close(p) => /\ pc[p] \in {"open", "closing"} /\ pc' = [pc EXCEPT ![p] = "idle"]
                        /\ st' = st
         /\ Kill(p) => pc' = [pc EXCEPT ![p] = "idle"] /\ st' = [st EXCEPT ![p] = "idle"]
<1> USE CliAssumption DEF LockInv, TypeOK, AtRest, Goto, store, EndSession, Writing, PCs
<1>1. /\ create_check(p) => pc[p] = "idle" /\ pc' = [pc EXCEPT ![p] = "checked"] /\ st' = st
      /\ create_locked(p) => pc' = [pc EXCEPT ![p] = "idle"] /\ st' = st
      /\ open_lock(p) => pc' = [pc EXCEPT ![p] = "loading"] /\ st' = st
  BY DEF create_check, create_locked, open_lock
<1>2. ASSUME NEW pw \in Passwords
      PROVE  /\ create_write(p, pw) =>
                   /\ pc[p] = "checked" /\ pc' = [pc EXCEPT ![p] = "creating"]
                   /\ st' = [st EXCEPT ![p] = "pending"]
             /\ open_load(p, pw) => pc[p] = "loading" /\ pc' = [pc EXCEPT ![p] = "open"] /\ st' = st
             /\ open_fails(p, pw) => pc' = [pc EXCEPT ![p] = "idle"] /\ st' = st
             /\ change_master_password(p, pw) =>
                   \/ pc' = [pc EXCEPT ![p] = "rekeying"] /\ st' = [st EXCEPT ![p] = "pending"]
                   \/ pc' = [pc EXCEPT ![p] = "closing"] /\ st' = st
  BY DEF create_write, open_load, open_fails, change_master_password, Store!Begin
<1>3. ASSUME NEW es, persist(p, es)
      PROVE  \/ pc' = [pc EXCEPT ![p] = "saving"] /\ st' = [st EXCEPT ![p] = "pending"]
             \/ pc' = [pc EXCEPT ![p] = "closing"] /\ st' = st
  BY <1>3 DEF persist, Store!Begin
<1>4. ASSUME NEW id \in Ids, entry_not_found(p, id)
      PROVE  pc' = [pc EXCEPT ![p] = "closing"] /\ st' = st
  BY <1>4 DEF entry_not_found
<1>5. write_replaces(p) => /\ pc' = pc /\ pc[p] \in Writing /\ st[p] = "pending"
                           /\ st' = [st EXCEPT ![p] = "applied"]
  BY DEF write_replaces, Store!Apply
<1>6. write_returns(p) => /\ pc[p] \in Writing /\ pc' = [pc EXCEPT ![p] = "closing"]
                          /\ st[p] = "applied" /\ st' = [st EXCEPT ![p] = "idle"]
  BY DEF write_returns, Store!Finish, Store!End
<1>7. write_raises(p) => /\ pc[p] \in Writing
                         /\ pc' = [pc EXCEPT ![p] = IF pc[p] = "creating" THEN "idle" ELSE "closing"]
                         /\ st' = [st EXCEPT ![p] = "idle"]
  BY DEF write_raises, Store!Abandon, Store!End
<1>8. close(p) => /\ pc[p] \in {"open", "closing"} /\ pc' = [pc EXCEPT ![p] = "idle"]
                  /\ st' = st
  BY DEF close
<1>9. Kill(p) => pc' = [pc EXCEPT ![p] = "idle"] /\ st' = [st EXCEPT ![p] = "idle"]
  BY DEF Kill, Store!Abandon, Store!End
<1> QED
  BY <1>1, <1>2, <1>3, <1>4, <1>5, <1>6, <1>7, <1>8, <1>9

\* A step of p's command leaves every other where it is.
LEMMA OthersStay ==
  ASSUME PlaceInv, NEW p \in Procs,
         \A q \in Procs \ {p} : /\ at'[q] = at[q] /\ told'[q] = told[q] /\ cmd'[q] = cmd[q]
                                /\ changed'[q] = changed[q] /\ pc'[q] = pc[q] /\ st'[q] = st[q],
         PlaceOf(p)'
  PROVE  PlaceInv'
<1> SUFFICES ASSUME NEW q \in Procs, q # p PROVE PlaceOf(q)'
  BY DEF PlaceInv
<1> QED
  BY DEF PlaceInv, PlaceOf, Writer

\* Every step of every command keeps it in its place.
LEMMA CliStep == CliInv /\ [CliNext]_cliVars => CliInv'
<1> SUFFICES ASSUME CliInv, [CliNext]_cliVars PROVE CliTypeOK' /\ PlaceInv'
  BY RepositoryStep, LockStep DEF CliInv, LockInv
<1>0. /\ LockInv /\ CliTypeOK /\ PlaceInv /\ pc \in [Procs -> PCs]
      /\ st \in [Procs -> {"idle", "pending", "applied"}]
      /\ \A p \in Procs : pc[p] \in Writing <=> st[p] # "idle"
  BY DEF CliInv, LockInv, TypeOK
<1>s. ASSUME NEW p \in Procs, NEW from \in Places, NEW to \in Places, NEW result \in Results,
             Step(p, from, to, result),
             \A q \in Procs \ {p} : pc'[q] = pc[q] /\ st'[q] = st[q]
      PROVE  CliTypeOK' /\ (PlaceOf(p)' => PlaceInv')
  <2>1. /\ CliTypeOK'
        /\ \A q \in Procs \ {p} : /\ at'[q] = at[q] /\ told'[q] = told[q] /\ cmd'[q] = cmd[q]
                                  /\ changed'[q] = changed[q]
    BY <1>0, <1>s, StepType, ZenonT(60)
  <2>2. PlaceOf(p)' => PlaceInv'
    BY <1>0, <1>s, <2>1, OthersStay
  <2> QED
    BY <2>1, <2>2
<1> USE DEF Writing
<1>1. ASSUME NEW p \in Procs, init_writes(p) PROVE CliTypeOK' /\ PlaceInv'
  <2>1. Step(p, "opening", "leaving", "none")
    BY <1>1 DEF init_writes
  <2>2. /\ pc[p] = "checked" /\ pc' = [pc EXCEPT ![p] = "creating"]
        /\ st' = [st EXCEPT ![p] = "pending"]
    BY <1>0, <1>1, Calls DEF init_writes
  <2>3. \A q \in Procs \ {p} : pc'[q] = pc[q] /\ st'[q] = st[q]
    BY <1>0, <2>2
  <2>4. "opening" \in Places /\ "leaving" \in Places /\ "none" \in Results
    BY DEF Places, Results
  <2>5. PlaceOf(p)'
    <3>1. /\ PlaceOf(p) /\ at[p] = "opening" /\ at'[p] = "leaving" /\ told'[p] = "none"
          /\ UNCHANGED <<cmd, changed>>
      BY <1>0, <2>1 DEF Step, Move, CliTypeOK, PlaceInv
    <3> QED
      BY <1>0, <2>1, <2>2, <3>1 DEF PlaceOf, Writer
  <2> QED
    BY <1>s, <2>1, <2>3, <2>4, <2>5
<1>2. ASSUME NEW p \in Procs, init_locked(p) PROVE CliTypeOK' /\ PlaceInv'
  <2>1. Step(p, "opening", "ended", "refused")
    BY <1>2 DEF init_locked
  <2>2. pc' = [pc EXCEPT ![p] = "idle"] /\ st' = st
    BY <1>0, <1>2, Calls DEF init_locked
  <2>3. \A q \in Procs \ {p} : pc'[q] = pc[q] /\ st'[q] = st[q]
    BY <1>0, <2>2
  <2>4. "opening" \in Places /\ "ended" \in Places /\ "refused" \in Results
    BY DEF Places, Results
  <2>5. PlaceOf(p)'
    <3>1. /\ PlaceOf(p) /\ at[p] = "opening" /\ at'[p] = "ended" /\ told'[p] = "refused"
          /\ cmd'[p] = "none" /\ changed'[p] = FALSE
      BY <1>0, <2>1 DEF Step, Move, CliTypeOK, PlaceInv
    <3> QED
      BY <1>0, <2>1, <2>2, <3>1 DEF PlaceOf, Writer
  <2> QED
    BY <1>s, <2>1, <2>3, <2>4, <2>5
<1>3. ASSUME NEW p \in Procs, open_loads(p) PROVE CliTypeOK' /\ PlaceInv'
  <2>1. PICK to \in {"prompt", "body"} : Step(p, "opening", to, "none")
    BY <1>3 DEF open_loads
  <2>2. pc[p] = "loading" /\ pc' = [pc EXCEPT ![p] = "open"] /\ st' = st
    BY <1>0, <1>3, Calls DEF open_loads
  <2>3. \A q \in Procs \ {p} : pc'[q] = pc[q] /\ st'[q] = st[q]
    BY <1>0, <2>2
  <2>4. "opening" \in Places /\ to \in Places /\ "none" \in Results
    BY <1>0 DEF Places, Results
  <2>5. PlaceOf(p)'
    <3>1. /\ PlaceOf(p) /\ at[p] = "opening" /\ at'[p] = to /\ told'[p] = "none"
          /\ UNCHANGED <<cmd, changed>>
      BY <1>0, <2>1 DEF Step, Move, CliTypeOK, PlaceInv
    <3> QED
      BY <1>0, <2>1, <2>2, <3>1 DEF PlaceOf, Writer
  <2> QED
    BY <1>s, <2>1, <2>3, <2>4, <2>5
<1>4. ASSUME NEW p \in Procs, open_rejected(p) PROVE CliTypeOK' /\ PlaceInv'
  <2>1. Step(p, "opening", "ended", "refused")
    BY <1>4 DEF open_rejected
  <2>2. pc' = [pc EXCEPT ![p] = "idle"] /\ st' = st
    BY <1>0, <1>4, Calls DEF open_rejected
  <2>3. \A q \in Procs \ {p} : pc'[q] = pc[q] /\ st'[q] = st[q]
    BY <1>0, <2>2
  <2>4. "opening" \in Places /\ "ended" \in Places /\ "refused" \in Results
    BY DEF Places, Results
  <2>5. PlaceOf(p)'
    <3>1. /\ PlaceOf(p) /\ at[p] = "opening" /\ at'[p] = "ended" /\ told'[p] = "refused"
          /\ cmd'[p] = "none" /\ changed'[p] = FALSE
      BY <1>0, <2>1 DEF Step, Move, CliTypeOK, PlaceInv
    <3> QED
      BY <1>0, <2>1, <2>2, <3>1 DEF PlaceOf, Writer
  <2> QED
    BY <1>s, <2>1, <2>3, <2>4, <2>5
<1>5. ASSUME NEW p \in Procs, found_to_show(p) PROVE CliTypeOK' /\ PlaceInv'
  <2>1. Step(p, "body", "leaving", "ok")
    BY <1>5 DEF found_to_show
  <2>2. pc' = pc /\ st' = st /\ cmd[p] \in {"list", "get", "copy"}
    BY <1>0, <1>5, Calls DEF found_to_show, vars, store
  <2>3. \A q \in Procs \ {p} : pc'[q] = pc[q] /\ st'[q] = st[q]
    BY <1>0, <2>2
  <2>4. "body" \in Places /\ "leaving" \in Places /\ "ok" \in Results
    BY DEF Places, Results
  <2>5. PlaceOf(p)'
    <3>1. /\ PlaceOf(p) /\ at[p] = "body" /\ at'[p] = "leaving" /\ told'[p] = "ok"
          /\ UNCHANGED <<cmd, changed>>
      BY <1>0, <2>1 DEF Step, Move, CliTypeOK, PlaceInv
    <3> QED
      BY <1>0, <2>1, <2>2, <3>1 DEF PlaceOf, Writer, Changes
  <2> QED
    BY <1>s, <2>1, <2>3, <2>4, <2>5
<1>6. ASSUME NEW p \in Procs, found_to_change(p) PROVE CliTypeOK' /\ PlaceInv'
  <2>1. /\ Move(p, "body", "prompt", "none") /\ pc' = pc /\ st' = st
        /\ UNCHANGED <<cmd, changed>>
    BY <1>6 DEF found_to_change, vars, store
  <2>2. PlaceOf(p)'
    BY <1>0, <2>1 DEF Move, CliTypeOK, PlaceInv, PlaceOf, Writer
  <2>3. PlaceInv'
    BY <1>0, <2>1, <2>2, OthersStay DEF Move, CliTypeOK, Places, Results
  <2>4. PICK e \in ToSet(entries[p]) : seen' = [seen EXCEPT ![p] = e]
    BY <1>6 DEF found_to_change
  <2>5. e \in [id : Ids, data : Records]
    <3>1. entries[p] \in Seq([id : Ids, data : Records])
      BY <1>0 DEF LockInv, TypeOK, Entries
    <3>2. \A i \in 1 .. Len(entries[p]) : entries[p][i] \in [id : Ids, data : Records]
      BY <3>1, ElementOfSeq
    <3> QED
      BY <2>4, <3>1, <3>2 DEF ToSet
  <2>6. CliTypeOK'
    BY <1>0, <2>1, <2>4, <2>5 DEF Move, CliTypeOK, Places, Results
  <2> QED
    BY <2>3, <2>6
<1>7. ASSUME NEW p \in Procs, not_found(p) PROVE CliTypeOK' /\ PlaceInv'
  <2>1. Step(p, "body", "leaving", "refused")
    BY <1>7 DEF not_found
  <2>2. pc' = [pc EXCEPT ![p] = "closing"] /\ st' = st
    BY <1>0, <1>7, Calls DEF not_found
  <2>3. \A q \in Procs \ {p} : pc'[q] = pc[q] /\ st'[q] = st[q]
    BY <1>0, <2>2
  <2>4. "body" \in Places /\ "leaving" \in Places /\ "refused" \in Results
    BY DEF Places, Results
  <2>5. PlaceOf(p)'
    <3>1. /\ PlaceOf(p) /\ at[p] = "body" /\ at'[p] = "leaving" /\ told'[p] = "refused"
          /\ UNCHANGED <<cmd, changed>>
      BY <1>0, <2>1 DEF Step, Move, CliTypeOK, PlaceInv
    <3> QED
      BY <1>0, <2>1, <2>2, <3>1 DEF PlaceOf, Writer
  <2> QED
    BY <1>s, <2>1, <2>3, <2>4, <2>5
<1>8. ASSUME NEW p \in Procs, cli_replaces(p) PROVE CliTypeOK' /\ PlaceInv'
  <2>1. /\ pc' = pc /\ pc[p] \in Writing /\ st[p] = "pending" /\ st' = [st EXCEPT ![p] = "applied"]
        /\ changed' = [changed EXCEPT ![p] = TRUE] /\ UNCHANGED <<cmd, at, told, seen>>
    BY <1>0, <1>8, Calls DEF cli_replaces
  <2>2. CliTypeOK'
    BY <1>0, <2>1 DEF CliTypeOK
  <2>3. at[p] = "leaving"
    BY <1>0, <2>1 DEF CliTypeOK, PlaceInv, PlaceOf, Places
  <2>4. PlaceOf(p)'
    BY <1>0, <2>1, <2>3 DEF CliTypeOK, PlaceInv, PlaceOf, Writer, Changes
  <2> QED
    BY <1>0, <2>1, <2>2, <2>4, OthersStay DEF CliTypeOK
<1>9. ASSUME NEW p \in Procs, cli_returns(p) PROVE CliTypeOK' /\ PlaceInv'
  <2>1. Step(p, "leaving", "leaving", "ok")
    BY <1>9 DEF cli_returns
  <2>2. /\ pc[p] \in Writing /\ pc' = [pc EXCEPT ![p] = "closing"]
        /\ st[p] = "applied" /\ st' = [st EXCEPT ![p] = "idle"]
    BY <1>0, <1>9, Calls DEF cli_returns
  <2>3. \A q \in Procs \ {p} : pc'[q] = pc[q] /\ st'[q] = st[q]
    BY <1>0, <2>2
  <2>4. "leaving" \in Places /\ "leaving" \in Places /\ "ok" \in Results
    BY DEF Places, Results
  <2>5. PlaceOf(p)'
    <3>1. /\ PlaceOf(p) /\ at[p] = "leaving" /\ at'[p] = "leaving" /\ told'[p] = "ok"
          /\ UNCHANGED <<cmd, changed>>
      BY <1>0, <2>1 DEF Step, Move, CliTypeOK, PlaceInv
    <3> QED
      BY <1>0, <2>1, <2>2, <3>1 DEF PlaceOf, Writer
  <2> QED
    BY <1>s, <2>1, <2>3, <2>4, <2>5
<1>10. ASSUME NEW p \in Procs, cli_raises(p) PROVE CliTypeOK' /\ PlaceInv'
  <2>1. PICK to \in {"ended", "leaving"} :
          Step(p, "leaving", to, "raised") /\ (to = "ended" <=> pc[p] = "creating")
    BY <1>10 DEF cli_raises
  <2>2. /\ pc[p] \in Writing /\ st' = [st EXCEPT ![p] = "idle"]
        /\ pc' = [pc EXCEPT ![p] = IF pc[p] = "creating" THEN "idle" ELSE "closing"]
    BY <1>0, <1>10, Calls DEF cli_raises
  <2>3. \A q \in Procs \ {p} : pc'[q] = pc[q] /\ st'[q] = st[q]
    BY <1>0, <2>2
  <2>4. "leaving" \in Places /\ to \in Places /\ "raised" \in Results
    BY <1>0 DEF Places, Results
  <2>5. PlaceOf(p)'
    <3>1. /\ PlaceOf(p) /\ at[p] = "leaving" /\ at'[p] = to /\ told'[p] = "raised"
          /\ IF to = "ended" THEN cmd'[p] = "none" /\ changed'[p] = FALSE
                          ELSE UNCHANGED <<cmd, changed>>
      BY <1>0, <2>1 DEF Step, Move, CliTypeOK, PlaceInv
    <3> QED
      BY <1>0, <2>1, <2>2, <3>1 DEF PlaceOf, Writer
  <2> QED
    BY <1>s, <2>1, <2>3, <2>4, <2>5
<1>11. ASSUME NEW p \in Procs, leave(p) PROVE CliTypeOK' /\ PlaceInv'
  <2>1. PICK to \in {"ended", "copying", "printing"} :
          /\ Step(p, "leaving", to, told[p])
          /\ to = "copying" => cmd[p] = "copy"
          /\ to = "printing" => told[p] = "ok"
    BY <1>11 DEF leave, AfterBlock
  <2>2. pc[p] \in {"open", "closing"} /\ pc' = [pc EXCEPT ![p] = "idle"] /\ st' = st
    BY <1>0, <1>11, Calls DEF leave
  <2>3. \A q \in Procs \ {p} : pc'[q] = pc[q] /\ st'[q] = st[q]
    BY <1>0, <2>2
  <2>4. "leaving" \in Places /\ to \in Places /\ told[p] \in Results
    BY <1>0 DEF Places, Results, CliTypeOK
  <2>5. PlaceOf(p)'
    <3>1. /\ PlaceOf(p) /\ at[p] = "leaving" /\ at'[p] = to /\ told'[p] = told[p]
          /\ IF to = "ended" THEN cmd'[p] = "none" /\ changed'[p] = FALSE
                          ELSE UNCHANGED <<cmd, changed>>
      BY <1>0, <2>1 DEF Step, Move, CliTypeOK, PlaceInv
    <3> QED
      BY <1>0, <2>1, <2>2, <3>1 DEF PlaceOf, Writer, Changes
  <2> QED
    BY <1>s, <2>1, <2>3, <2>4, <2>5
<1>12. ASSUME NEW p \in Procs, NEW c \in Commands, start(p, c) PROVE CliTypeOK' /\ PlaceInv'
  <2>1. /\ Move(p, "ended", "password", "none") /\ cmd' = [cmd EXCEPT ![p] = c]
        /\ UNCHANGED <<pc, st, seen, changed>>
    BY <1>12 DEF start, vars, store
  <2>2. CliTypeOK'
    BY <1>0, <2>1 DEF Move, CliTypeOK, Places, Results
  <2>3. PlaceOf(p)'
    BY <1>0, <2>1 DEF Move, CliTypeOK, PlaceInv, PlaceOf, Writer
  <2> QED
    BY <1>0, <2>1, <2>2, <2>3, OthersStay DEF Move, CliTypeOK, Places, Results
<1>13. ASSUME NEW p \in Procs, 
              \/ \E c \in Commands : start_fails(p, c)
              \/ init_exists(p) \/ open_locked(p) \/ password_fails(p) \/ copy_ends(p) \/ prints(p)
        PROVE CliTypeOK' /\ PlaceInv'
  <2>1. PICK from \in {"ended", "password", "copying", "printing"},
             result \in {"ok", "refused", "raised"} : Step(p, from, "ended", result)
    BY <1>13 DEF start_fails, init_exists, open_locked, password_fails, copy_ends, prints
  <2>2. UNCHANGED <<pc, st>>
    BY <1>13 DEF start_fails, init_exists, open_locked, password_fails, copy_ends, prints, vars, store
  <2>3. \A q \in Procs \ {p} : pc'[q] = pc[q] /\ st'[q] = st[q]
    BY <1>0, <2>2
  <2>4. from \in Places /\ "ended" \in Places /\ result \in Results
    BY <1>0 DEF Places, Results
  <2>5. PlaceOf(p)'
    <3>1. /\ PlaceOf(p) /\ at[p] = from /\ at'[p] = "ended" /\ told'[p] = result
          /\ cmd'[p] = "none" /\ changed'[p] = FALSE
      BY <1>0, <2>1 DEF Step, Move, CliTypeOK, PlaceInv
    <3> QED
      BY <1>0, <2>1, <2>2, <3>1 DEF PlaceOf, Writer
  <2> QED
    BY <1>s, <2>1, <2>3, <2>4, <2>5
<1>14. ASSUME NEW p \in Procs, init_checks(p) PROVE CliTypeOK' /\ PlaceInv'
  <2>1. Step(p, "password", "opening", "none")
    BY <1>14 DEF init_checks
  <2>2. cmd[p] = "init" /\ pc' = [pc EXCEPT ![p] = "checked"] /\ st' = st
    BY <1>0, <1>14, Calls DEF init_checks
  <2>3. \A q \in Procs \ {p} : pc'[q] = pc[q] /\ st'[q] = st[q]
    BY <1>0, <2>2
  <2>4. "password" \in Places /\ "opening" \in Places /\ "none" \in Results
    BY DEF Places, Results
  <2>5. PlaceOf(p)'
    <3>1. /\ PlaceOf(p) /\ at[p] = "password" /\ at'[p] = "opening" /\ told'[p] = "none"
          /\ UNCHANGED <<cmd, changed>>
      BY <1>0, <2>1 DEF Step, Move, CliTypeOK, PlaceInv
    <3> QED
      BY <1>0, <2>1, <2>2, <3>1 DEF PlaceOf, Writer
  <2> QED
    BY <1>s, <2>1, <2>3, <2>4, <2>5
<1>15. ASSUME NEW p \in Procs, open_repository(p) PROVE CliTypeOK' /\ PlaceInv'
  <2>1. Step(p, "password", "opening", "none")
    BY <1>15 DEF open_repository
  <2>2. cmd[p] # "init" /\ pc' = [pc EXCEPT ![p] = "loading"] /\ st' = st
    BY <1>0, <1>15, Calls DEF open_repository
  <2>3. \A q \in Procs \ {p} : pc'[q] = pc[q] /\ st'[q] = st[q]
    BY <1>0, <2>2
  <2>4. "password" \in Places /\ "opening" \in Places /\ "none" \in Results
    BY DEF Places, Results
  <2>5. PlaceOf(p)'
    <3>1. /\ PlaceOf(p) /\ at[p] = "password" /\ at'[p] = "opening" /\ told'[p] = "none"
          /\ UNCHANGED <<cmd, changed>>
      BY <1>0, <2>1 DEF Step, Move, CliTypeOK, PlaceInv
    <3> QED
      BY <1>0, <2>1, <2>2, <3>1 DEF PlaceOf, Writer
  <2> QED
    BY <1>s, <2>1, <2>3, <2>4, <2>5
<1>16. ASSUME NEW p \in Procs, prompt_fails(p) PROVE CliTypeOK' /\ PlaceInv'
  <2>1. PICK result \in {"refused", "raised"} : Step(p, "prompt", "leaving", result)
    BY <1>16 DEF prompt_fails
  <2>2. UNCHANGED <<pc, st>>
    BY <1>0, <1>16, Calls DEF prompt_fails, vars, store
  <2>3. \A q \in Procs \ {p} : pc'[q] = pc[q] /\ st'[q] = st[q]
    BY <1>0, <2>2
  <2>4. "prompt" \in Places /\ "leaving" \in Places /\ result \in Results
    BY <1>0 DEF Places, Results
  <2>5. PlaceOf(p)'
    <3>1. /\ PlaceOf(p) /\ at[p] = "prompt" /\ at'[p] = "leaving" /\ told'[p] = result
          /\ UNCHANGED <<cmd, changed>>
      BY <1>0, <2>1 DEF Step, Move, CliTypeOK, PlaceInv
    <3> QED
      BY <1>0, <2>1, <2>2, <3>1 DEF PlaceOf, Writer
  <2> QED
    BY <1>s, <2>1, <2>3, <2>4, <2>5
<1>17. ASSUME NEW p \in Procs, add(p) \/ update(p) \/ delete(p) \/ passwd(p)
       PROVE  CliTypeOK' /\ PlaceInv'
  <2>0. Called(p)
    BY <1>17 DEF add, update, delete, passwd
  <2>1. PICK result \in {"none", "raised"} :
          Step(p, "prompt", "leaving", result) /\ (result = "none" <=> pc'[p] \in Writing)
    BY <2>0 DEF Called
  <2>2. \/ /\ \E es : persist(p, es)
           /\ cmd[p] \in {"add", "update", "delete"}
        \/ /\ \E pw \in Passwords : change_master_password(p, pw)
           /\ cmd[p] = "passwd"
    <3>1. add(p) => (\E es : persist(p, es)) /\ cmd[p] = "add"
      BY DEF add, AtPrompt, add_entry
    <3>2. update(p) => (\E es : persist(p, es)) /\ cmd[p] = "update"
      BY DEF update, AtPrompt, update_entry
    <3>3. delete(p) => (\E es : persist(p, es)) /\ cmd[p] = "delete"
      BY DEF delete, AtPrompt, delete_entry
    <3> QED
      BY <1>17, <3>1, <3>2, <3>3 DEF passwd, AtPrompt
  <2>3. \/ /\ st' = [st EXCEPT ![p] = "pending"]
           /\ \/ pc' = [pc EXCEPT ![p] = "saving"] /\ cmd[p] \in {"add", "update", "delete"}
              \/ pc' = [pc EXCEPT ![p] = "rekeying"] /\ cmd[p] = "passwd"
        \/ pc' = [pc EXCEPT ![p] = "closing"] /\ st' = st
    BY <1>0, <2>2, Calls
  <2>4. \A q \in Procs \ {p} : pc'[q] = pc[q] /\ st'[q] = st[q]
    BY <1>0, <2>3
  <2>5. "prompt" \in Places /\ "leaving" \in Places /\ result \in Results
    BY DEF Places, Results
  <2>6. PlaceOf(p)'
    <3>1. /\ PlaceOf(p) /\ at[p] = "prompt" /\ at'[p] = "leaving" /\ told'[p] = result
          /\ UNCHANGED <<cmd, changed>>
      BY <1>0, <2>1 DEF Step, Move, CliTypeOK, PlaceInv
    <3> QED
      BY <1>0, <2>1, <2>3, <3>1 DEF PlaceOf, Writer
  <2> QED
    BY <1>s, <2>1, <2>4, <2>5, <2>6
<1>18. ASSUME NEW p \in Procs, die(p) PROVE CliTypeOK' /\ PlaceInv'
  <2>1. Step(p, at[p], "ended", "none")
    BY <1>18 DEF die
  <2>2. /\ pc'[p] = "idle" /\ st'[p] # "applied"
        /\ \A q \in Procs \ {p} : pc'[q] = pc[q] /\ st'[q] = st[q]
    BY <1>0, <1>18, Calls DEF die, vars, store
  <2>3. at[p] \in Places /\ "ended" \in Places /\ "none" \in Results
    BY <1>0 DEF Places, Results, CliTypeOK
  <2>4. PlaceOf(p)'
    <3>1. /\ at'[p] = "ended" /\ told'[p] = "none" /\ cmd'[p] = "none" /\ changed'[p] = FALSE
      BY <1>0, <2>1 DEF Step, Move, CliTypeOK
    <3> QED
      BY <2>2, <3>1 DEF PlaceOf, Writer
  <2> QED
    BY <1>s, <2>1, <2>2, <2>3, <2>4
<1>19. CASE UNCHANGED <<cli, pc, st>>
  BY <1>0, <1>19 DEF cli, CliTypeOK, PlaceInv, PlaceOf, Writer
<1>20. CASE cli_power_loss
  <2>1. CliTypeOK'
    BY <1>20 DEF cli_power_loss, CliTypeOK, Places, Results
  <2>2. \A p \in Procs : pc'[p] = "idle" /\ st'[p] = "idle"
    BY <1>20 DEF cli_power_loss, PowerLoss, Store!PowerLoss
  <2> QED
    BY <1>20, <2>1, <2>2 DEF cli_power_loss, PlaceInv, PlaceOf, Writer
<1> HIDE DEF Writing
<1> QED
  BY <1>1, <1>2, <1>3, <1>4, <1>5, <1>6, <1>7, <1>8, <1>9, <1>10, <1>11, <1>12, <1>13, <1>14,
     <1>15, <1>16, <1>17, <1>18, <1>19, <1>20
     DEF CliNext, CliProgramStep, CliUserStep, cliVars, vars, store, directory_synced, Store!Persist

\* Where the commands are, always.
LEMMA CliInvariant == CliSpec => []CliInv
<1>1. CliInit => CliInv
  <2> SUFFICES ASSUME CliInit PROVE CliInv
    OBVIOUS
  <2>1. LockInv
    BY LockInit DEF CliInit
  <2> QED
    BY <2>1 DEF CliInv, CliInit, Init, Store!StoreInit, CliTypeOK, PlaceInv, PlaceOf, Writer,
                Places, Results, Writing
<1> QED
  BY <1>1, CliStep, PTL DEF CliSpec

\* Where there is no flock nobody has the lock.
FreeInv == ~HasFlock => lock = Nothing

\* Without flock no step takes the lock.
LEMMA FreeStep == TypeOK /\ FreeInv /\ [Next]_vars => FreeInv'
<1> SUFFICES ASSUME TypeOK, lock = Nothing, ~HasFlock, [Next]_vars PROVE lock' = Nothing
  BY RepositoryAssumption DEF FreeInv
<1> QED
  BY RepositoryAssumption, Steps
     DEF create_check, create_locked, open_lock, open_load, open_fails, close, entry_not_found,
         create_write, persist, change_master_password, write_replaces, write_returns, write_raises,
         Kill, directory_synced, PowerLoss, vars, EndSession, acquire, release

\* On every platform and every path, a command has a repository and the lock
\* only between the call that opens the vault and the end of its with-block.
THEOREM HeldCorrect == CliSpec => []HeldOnlyInside
<1>1. CliInit => FreeInv
  BY DEF CliInit, Init, FreeInv
<1>2. CliInv /\ FreeInv /\ [CliNext]_cliVars => FreeInv'
  BY RepositoryStep, FreeStep DEF CliInv, LockInv
<1>3. CliInv /\ FreeInv => HeldOnlyInside
  BY RepositoryAssumption
     DEF CliInv, LockInv, LockIsSession, InSession, PCs, FreeInv, PlaceInv, PlaceOf, HeldOnlyInside
<1> QED
  BY <1>1, <1>2, <1>3, CliInvariant, PTL DEF CliSpec

\* How a command ends: past its with-block, past its message or the wait of
\* copy, refused before the vault was open, or on an exception.
LEMMA EndsHow ==
  ASSUME CliTypeOK, [CliNext]_cliVars, NEW p \in Procs, Ends(p)
  PROVE  \/ at[p] = "leaving" /\ told'[p] = told[p] /\ told[p] # "ok"
         \/ at[p] = "printing" /\ told'[p] = "ok"
         \/ at[p] = "copying"
         \/ at[p] \in {"password", "opening"} /\ told'[p] = "refused"
         \/ told'[p] \in {"none", "raised"}
<1>0. at \in [Procs -> Places] /\ told \in [Procs -> Results] /\ at[p] # "ended" /\ at'[p] = "ended"
  BY DEF CliTypeOK, Ends
<1> DEFINE Goal == \/ at[p] = "leaving" /\ told'[p] = told[p] /\ told[p] # "ok"
                   \/ at[p] = "printing" /\ told'[p] = "ok"
                   \/ at[p] = "copying"
                   \/ at[p] \in {"password", "opening"} /\ told'[p] = "refused"
                   \/ told'[p] \in {"none", "raised"}
<1> HIDE DEF Goal
<1>1. ASSUME NEW q \in Procs, NEW from, NEW to, NEW result, Move(q, from, to, result)
      PROVE  q = p /\ at[p] = from /\ to = "ended" /\ told'[p] = result
  BY <1>0, <1>1 DEF Move
<1>2. ASSUME at' = at PROVE FALSE
  BY <1>0, <1>2
<1>3. ASSUME NEW q \in Procs, CliProgramStep(q) PROVE Goal
  <2>1. CASE init_locked(q) \/ open_rejected(q)
    <3>1. Move(q, "opening", "ended", "refused")
      BY <2>1 DEF init_locked, open_rejected, Step
    <3> QED
      BY <1>1, <3>1 DEF Goal
  <2>2. CASE leave(q)
    <3>1. Move(q, "leaving", AfterBlock(q), told[q])
      BY <2>2 DEF leave, Step
    <3>2. q = p /\ at[p] = "leaving" /\ told'[p] = told[q] /\ AfterBlock(q) = "ended"
      BY <1>1, <3>1
    <3> QED
      BY <3>2 DEF Goal, AfterBlock
  <2>3. CASE cli_replaces(q)
    BY <1>2, <2>3 DEF cli_replaces
  <2>4. CASE \/ init_writes(q) \/ found_to_show(q) \/ not_found(q) \/ cli_returns(q)
             \/ found_to_change(q) \/ open_loads(q)
    <3>1. PICK to \in {"leaving", "prompt", "body"} : \E from, result : Move(q, from, to, result)
      <4>1. CASE open_loads(q)
        <5>1. Move(q, "opening", "prompt", "none") \/ Move(q, "opening", "body", "none")
          BY <4>1 DEF open_loads, Step
        <5> QED
          BY <5>1
      <4> QED
        BY <2>4, <4>1 DEF init_writes, found_to_show, not_found, cli_returns, found_to_change, Step
    <3> QED
      BY <1>1, <3>1
  <2>5. CASE prints(q)
    <3>1. Move(q, "printing", "ended", "ok")
      BY <2>5 DEF prints, Step
    <3> QED
      BY <1>1, <3>1 DEF Goal
  <2> QED
    BY <1>3, <2>1, <2>2, <2>3, <2>4, <2>5 DEF CliProgramStep
<1>4. ASSUME NEW q \in Procs, CliUserStep(q) PROVE Goal
  <2>1. CASE (\E c \in Commands : start_fails(q, c)) \/ init_exists(q) \/ open_locked(q) \/ password_fails(q)
    <3>1. PICK from \in {"ended", "password"}, result \in {"refused", "raised"} :
            Move(q, from, "ended", result)
      BY <2>1 DEF start_fails, init_exists, open_locked, password_fails, Step
    <3>2. at[p] = from /\ told'[p] = result
      BY <1>1, <3>1
    <3> QED
      BY <1>0, <3>1, <3>2 DEF Goal
  <2>2. CASE copy_ends(q)
    <3>1. PICK result : Move(q, "copying", "ended", result)
      BY <2>2 DEF copy_ends, Step
    <3> QED
      BY <1>1, <3>1 DEF Goal
  <2>3. CASE \/ \E c \in Commands : start(q, c)
             \/ init_checks(q) \/ open_repository(q) \/ prompt_fails(q)
    <3>1. PICK to \in {"password", "opening", "leaving"} : \E from, result : Move(q, from, to, result)
      BY <2>3 DEF start, init_checks, open_repository, prompt_fails, Step
    <3> QED
      BY <1>1, <3>1
  <2>4. CASE add(q) \/ update(q) \/ delete(q) \/ passwd(q)
    <3>1. PICK result : Move(q, "prompt", "leaving", result)
      <4>1. Called(q)
        BY <2>4 DEF add, update, delete, passwd
      <4> QED
        BY <4>1 DEF Called, Step
    <3> QED
      BY <1>1, <3>1
  <2> QED
    BY <1>4, <2>1, <2>2, <2>3, <2>4 DEF CliUserStep
<1>5. ASSUME NEW q \in Procs, cli_raises(q) PROVE Goal
  <2>1. PICK to : Move(q, "leaving", to, "raised")
    BY <1>5 DEF cli_raises, Step
  <2> QED
    BY <1>1, <2>1 DEF Goal
<1>6. ASSUME NEW q \in Procs, die(q) PROVE Goal
  <2>1. Move(q, at[q], "ended", "none")
    BY <1>6 DEF die, Step
  <2> QED
    BY <1>1, <2>1 DEF Goal
<1>7. ASSUME cli_power_loss PROVE Goal
  BY <1>7 DEF cli_power_loss, Goal
<1>8. ASSUME UNCHANGED cli PROVE Goal
  BY <1>2, <1>8 DEF cli
<1>9. Goal
  <2>1. CASE CliNext
    BY <1>3, <1>4, <1>5, <1>6, <1>7, <1>8, <2>1 DEF CliNext
  <2> QED
    BY <1>8, <2>1 DEF cliVars
<1> QED
  BY <1>9 DEF Goal

\* A command that says "Error:" or "Aborted." has not replaced the vault file.
THEOREM RefusedCorrect == CliSpec => RefusedChangesNothing
<1> DEFINE Unchanged == \A p \in Procs : Ends(p) /\ told'[p] = "refused" => ~changed[p]
<1>1. CliInv /\ [CliNext]_cliVars => [Unchanged]_cliVars
  <2> SUFFICES ASSUME CliInv, [CliNext]_cliVars, NEW p \in Procs, Ends(p), told'[p] = "refused"
               PROVE  ~changed[p]
    OBVIOUS
  <2>1. changed[p] \in BOOLEAN /\ CliTypeOK /\ PlaceOf(p)
    BY DEF CliInv, CliTypeOK, PlaceInv
  <2>2. changed[p] = TRUE => at[p] \in {"leaving", "printing"} /\ told[p] # "refused"
    BY <2>1 DEF PlaceOf
  <2>3. at[p] # "printing" /\ (at[p] = "leaving" => told[p] = "refused")
    BY <2>1, EndsHow
  <2> QED
    BY <2>1, <2>2, <2>3
<1> QED
  BY <1>1, CliInvariant, PTL DEF CliSpec, RefusedChangesNothing

-----------------------------------------------------------------------------
\* A step as another process sees it

KeptInside(p) ==
  /\ pc'[p] = pc[p] /\ st'[p] = st[p] /\ arg'[p] = arg[p]
  /\ unlocked'[p] = unlocked[p] /\ entries'[p] = entries[p]

KeptOutside(p) == at'[p] = at[p] /\ told'[p] = told[p] /\ cmd'[p] = cmd[p] /\ seen'[p] = seen[p]

\* What q does in the repository leaves p's session and p's write alone, and the
\* file too unless it is the os.replace of q's write.
LEMMA Apart ==
  ASSUME TypeOK, NEW p \in Procs, NEW q \in Procs, p # q, Acts(q)
  PROVE  KeptInside(p) /\ durFile' = durFile /\ (file' = file \/ write_replaces(q))
<1>t. /\ pc \in [Procs -> PCs] /\ st \in [Procs -> {"idle", "pending", "applied"}]
      /\ arg \in [Procs -> Boxes \cup {Nothing}] /\ unlocked \in [Procs -> Boxes \cup {Nothing}]
      /\ entries \in [Procs -> Entries]
  BY DEF TypeOK
<1> DEFINE Goal == KeptInside(p) /\ durFile' = durFile /\ (file' = file \/ write_replaces(q))
<1>1. ASSUME \/ create_check(q) \/ create_locked(q) \/ open_lock(q) \/ close(q)
             \/ \E pw \in Passwords : create_write(q, pw) \/ open_load(q, pw) \/ open_fails(q, pw)
             \/ \E id \in Ids : entry_not_found(q, id)
      PROVE  Goal
  BY <1>t, <1>1
     DEF create_check, create_locked, open_lock, close, create_write, open_load, open_fails,
         entry_not_found, Goto, EndSession, store, Store!Begin, KeptInside
<1>2. ASSUME NEW es, persist(q, es) PROVE Goal
  BY <1>t, <1>2 DEF persist, store, Store!Begin, KeptInside
<1>3. ASSUME NEW pw \in Passwords, change_master_password(q, pw) PROVE Goal
  BY <1>t, <1>3 DEF change_master_password, store, Store!Begin, KeptInside
<1>4. ASSUME write_replaces(q) PROVE Goal
  BY <1>t, <1>4 DEF write_replaces, Store!Apply, KeptInside
<1>5. ASSUME write_returns(q) \/ write_raises(q) \/ Kill(q) PROVE Goal
  BY <1>t, <1>5
     DEF write_returns, write_raises, Kill, Goto, EndSession, store, Store!Finish, Store!Abandon,
         Store!End, KeptInside
<1>6. Mutation(q) => \E es : persist(q, es)
  BY MutationPersists
<1> HIDE DEF Goal
<1>7. Goal
  BY <1>1, <1>2, <1>3, <1>4, <1>5, <1>6 DEF Acts, UserStep, ProgramStep, Mutation
<1> QED
  BY <1>7 DEF Goal

\* What q's command does leaves p's where it is.
LEMMA OutsideApart ==
  ASSUME CliTypeOK, NEW p \in Procs, NEW q \in Procs, p # q, CliActs(q)
  PROVE  KeptOutside(p)
<1>t. /\ at \in [Procs -> Places] /\ told \in [Procs -> Results]
      /\ cmd \in [Procs -> Commands \cup {"none"}]
      /\ seen \in [Procs -> [id : Ids, data : Records] \cup {Nothing}]
  BY DEF CliTypeOK
<1>1. ASSUME NEW from, NEW to, NEW result, Step(q, from, to, result) PROVE KeptOutside(p)
  BY <1>t, <1>1 DEF Step, Move, KeptOutside
<1>2. ASSUME found_to_change(q) \/ cli_replaces(q) \/ \E c \in Commands : start(q, c)
      PROVE  KeptOutside(p)
  BY <1>t, <1>2 DEF found_to_change, cli_replaces, start, Move, KeptOutside
<1>3. ASSUME CliProgramStep(q) PROVE KeptOutside(p)
  BY <1>1, <1>2, <1>3
     DEF CliProgramStep, init_writes, init_locked, open_loads, open_rejected, found_to_show,
         not_found, cli_returns, leave, prints
<1>4. ASSUME CliUserStep(q) PROVE KeptOutside(p)
  BY <1>1, <1>2, <1>4
     DEF CliUserStep, start_fails, init_checks, init_exists, open_repository, open_locked,
         password_fails, prompt_fails, copy_ends, add, update, delete, passwd, Called
<1> QED
  BY <1>1, <1>3, <1>4 DEF CliActs, cli_raises, die

\* A step as p sees it: somebody else's, one that ends p's command or takes it
\* on towards the open vault, or one of the steps of its with-block.
LEMMA FromWithin ==
  ASSUME TypeOK, CliTypeOK, [CliNext]_cliVars, NEW p \in Procs
  PROVE  \/ KeptInside(p) /\ KeptOutside(p)
         \/ at'[p] \in {"ended", "password", "opening", "printing", "copying"}
         \/ init_writes(p) \/ open_loads(p) \/ found_to_show(p) \/ found_to_change(p) \/ not_found(p)
         \/ prompt_fails(p) \/ add(p) \/ update(p) \/ delete(p) \/ passwd(p)
         \/ cli_replaces(p) \/ cli_returns(p) \/ cli_raises(p)
<1> DEFINE Goal ==
      \/ KeptInside(p) /\ KeptOutside(p)
      \/ at'[p] \in {"ended", "password", "opening", "printing", "copying"}
      \/ init_writes(p) \/ open_loads(p) \/ found_to_show(p) \/ found_to_change(p) \/ not_found(p)
      \/ prompt_fails(p) \/ add(p) \/ update(p) \/ delete(p) \/ passwd(p)
      \/ cli_replaces(p) \/ cli_returns(p) \/ cli_raises(p)
<1> HIDE DEF Goal
<1>1. ASSUME NEW q \in Procs, q # p, CliActs(q) PROVE Goal
  <2>1. KeptOutside(p)
    BY <1>1, OutsideApart
  <2>2. KeptInside(p)
    BY <1>1, ActsAs, Apart DEF vars, store, KeptInside
  <2> QED
    BY <2>1, <2>2 DEF Goal
<1>2. ASSUME CliActs(p) PROVE Goal
  <2>1. ASSUME NEW from, NEW to \in {"ended", "password", "opening", "printing", "copying"}, NEW result,
               Move(p, from, to, result)
        PROVE  Goal
    BY <2>1 DEF Move, Goal, CliTypeOK
  <2>2. ASSUME init_locked(p) \/ open_rejected(p) \/ init_checks(p) \/ open_repository(p) PROVE Goal
    BY <2>1, <2>2 DEF init_locked, open_rejected, init_checks, open_repository, Step
  <2>3. ASSUME leave(p) \/ prints(p) PROVE Goal
    <3>1. AfterBlock(p) \in {"ended", "printing", "copying"}
      BY DEF AfterBlock
    <3> QED
      BY <2>1, <2>3, <3>1 DEF leave, prints, Step
  <2>4. ASSUME NEW c \in Commands, start(p, c) \/ start_fails(p, c) PROVE Goal
    BY <2>1, <2>4 DEF start, start_fails, Step
  <2>5. ASSUME init_exists(p) \/ open_locked(p) \/ password_fails(p) \/ copy_ends(p) \/ die(p) PROVE Goal
    BY <2>1, <2>5 DEF init_exists, open_locked, password_fails, copy_ends, die, Step
  <2>6. ASSUME CliProgramStep(p) PROVE Goal
    BY <2>2, <2>3, <2>6 DEF CliProgramStep, Goal
  <2>7. ASSUME CliUserStep(p) PROVE Goal
    BY <2>2, <2>4, <2>5, <2>7 DEF CliUserStep, Goal
  <2>8. ASSUME cli_raises(p) PROVE Goal
    BY <2>8 DEF Goal
  <2> QED
    BY <1>2, <2>5, <2>6, <2>7, <2>8 DEF CliActs
<1>3. ASSUME directory_synced, UNCHANGED cli PROVE Goal
  BY <1>3 DEF directory_synced, Store!Persist, cli, KeptInside, KeptOutside, Goal
<1>4. ASSUME cli_power_loss PROVE Goal
  BY <1>4 DEF cli_power_loss, Goal
<1>5. ASSUME UNCHANGED cliVars PROVE Goal
  BY <1>5 DEF cliVars, cli, vars, store, KeptInside, KeptOutside, Goal
<1>6. Goal
  <2>1. ASSUME NEW q \in Procs, CliActs(q) PROVE Goal
    BY <1>1, <1>2, <2>1
  <2> QED
    BY <1>3, <1>4, <1>5, <2>1 DEF CliNext, CliActs
<1> QED
  BY <1>6 DEF Goal

\* While p has a session under flock, nobody else replaces the file; a power
\* failure ends the session.
LEMMA FileStays ==
  ASSUME HasFlock, LockInv, [Next]_vars, NEW p \in Procs,
         pc[p] \in InSession, pc'[p] # "idle", ~write_replaces(p)
  PROVE  file' = file /\ (durFile' = durFile \/ durFile' = file)
<1>t. TypeOK
  BY DEF LockInv
<1>1. ASSUME NEW q \in Procs, q # p, Acts(q) PROVE file' = file /\ durFile' = durFile
  <2>1. ~write_replaces(q)
    BY <1>1 DEF LockInv, LockIsSession, TypeOK, write_replaces, Store!Apply, Writing, InSession, PCs
  <2> QED
    BY <1>1, <1>t, <2>1, Apart
<1>2. ASSUME Acts(p) PROVE file' = file /\ durFile' = durFile
  <2>1. Mutation(p) => \E es : persist(p, es)
    BY <1>t, MutationPersists
  <2>2. ASSUME NEW es, persist(p, es) PROVE file' = file /\ durFile' = durFile
    BY <2>2 DEF persist, store, Store!Begin
  <2> QED
    BY <1>2, <2>1, <2>2
       DEF Acts, UserStep, ProgramStep, Mutation, create_check, create_locked, open_lock, close,
           create_write, open_load, open_fails, entry_not_found, change_master_password,
           write_returns, write_raises, Kill, store, Store!Begin, Store!Finish, Store!Abandon, Store!End
<1>3. ASSUME PowerLoss PROVE FALSE
  BY <1>3 DEF PowerLoss
<1>4. CASE directory_synced
  BY <1>4 DEF directory_synced, Store!Persist
<1>5. CASE UNCHANGED vars
  BY <1>5 DEF vars, store
<1> QED
  BY <1>1, <1>2, <1>3, <1>4, <1>5 DEF Next, Acts

-----------------------------------------------------------------------------
\* What a command reports

\* A change that is to be reported as done was just made and synced, or stands
\* because its session keeps everybody else from the file.
LEMMA ToldStep ==
  HasFlock /\ CliInv /\ CliInv' /\ WriteInv /\ SyncInv /\ ToldInv /\ [CliNext]_cliVars => ToldInv'
<1> SUFFICES ASSUME HasFlock, CliInv, CliInv', WriteInv, SyncInv, ToldInv, [CliNext]_cliVars,
                    NEW p \in Procs, at'[p] = "leaving", told'[p] = "ok", cmd'[p] \in Changes
             PROVE  file' = unlocked'[p] /\ (DirSyncWorks => durFile' = file')
  BY DEF ToldInv
<1>0. TypeOK /\ CliTypeOK /\ LockInv /\ PlaceOf(p) /\ PlaceOf(p)' /\ [Next]_vars
  BY RepositoryStep DEF CliInv, LockInv, PlaceInv
<1>1. CASE KeptInside(p) /\ KeptOutside(p)
  <2>1. at[p] = "leaving" /\ told[p] = "ok" /\ cmd[p] \in Changes
    BY <1>1 DEF KeptOutside
  <2>2. /\ pc[p] = "closing" /\ file = unlocked[p] /\ (DirSyncWorks => durFile = file)
    BY <1>0, <2>1 DEF PlaceOf, ToldInv
  <2>3. pc'[p] = "closing" /\ unlocked'[p] = unlocked[p]
    BY <1>1, <2>2 DEF KeptInside
  <2>4. ~write_replaces(p)
    BY <1>0, <2>2 DEF write_replaces, Store!Apply, TypeOK, Writing
  <2>5. file' = file /\ (durFile' = durFile \/ durFile' = file)
    BY <1>0, <2>2, <2>3, <2>4, FileStays DEF InSession, PCs
  <2> QED
    BY <2>2, <2>3, <2>5
<1>2. CASE cli_returns(p)
  <2>1. write_returns(p)
    BY <1>2 DEF cli_returns
  <2>2. st[p] = "applied" /\ arg[p] = file /\ file' = file /\ durFile' = durFile
    BY <2>1 DEF write_returns, Store!Finish, Store!End, WriteInv
  <2>3. DirSyncWorks => durFile = file
    BY <2>1, <2>2 DEF write_returns, Store!Finish, SyncInv
  <2>4. unlocked'[p] = file
    BY <1>0, <2>1, <2>2 DEF write_returns, Goto, Writing, WriteInv, TypeOK
  <2> QED
    BY <2>2, <2>3, <2>4
<1>3. ASSUME NEW from, NEW to, NEW result, Move(p, from, to, result) PROVE to = "leaving" /\ result = "ok"
  BY <1>0, <1>3 DEF Move, CliTypeOK
<1>4. ASSUME \/ init_writes(p) \/ open_loads(p) \/ found_to_change(p) \/ not_found(p)
             \/ prompt_fails(p) \/ cli_raises(p)
      PROVE  FALSE
  <2>1. PICK result \in {"none", "refused", "raised"} : \E from, to : Move(p, from, to, result)
    BY <1>4 DEF init_writes, open_loads, found_to_change, not_found, prompt_fails, cli_raises, Step
  <2> QED
    BY <1>3, <2>1
<1>5. ASSUME add(p) \/ update(p) \/ delete(p) \/ passwd(p) PROVE FALSE
  <2>1. Called(p)
    BY <1>5 DEF add, update, delete, passwd
  <2>2. Move(p, "prompt", "leaving", "none") \/ Move(p, "prompt", "leaving", "raised")
    BY <2>1 DEF Called, Step
  <2> QED
    BY <1>3, <2>2
<1>6. ASSUME found_to_show(p) PROVE FALSE
  <2>1. cmd[p] \in {"list", "get", "copy"} /\ cmd' = cmd
    BY <1>6 DEF found_to_show, Step
  <2> QED
    BY <2>1 DEF Changes
<1>7. ASSUME cli_replaces(p) PROVE FALSE
  <2>1. st'[p] = "applied"
    BY <1>0, <1>7 DEF cli_replaces, write_replaces, Store!Apply, TypeOK
  <2>2. pc'[p] = "closing" /\ (pc'[p] \in Writing <=> st'[p] # "idle")
    BY <1>0 DEF PlaceOf, CliInv, LockInv, TypeOK
  <2> QED
    BY <2>1, <2>2 DEF Writing
<1> QED
  BY <1>0, <1>1, <1>2, <1>4, <1>5, <1>6, <1>7, FromWithin

\* With flock all that is known of the repository holds of the commands: they
\* close it after an error.
LEMMA CliSessions == HasFlock => (CliSpec => [](CliInv /\ SessionInv /\ SyncInv))
<1> SUFFICES ASSUME HasFlock PROVE CliSpec => [](CliInv /\ SessionInv /\ SyncInv)
  OBVIOUS
<1>1. Careful
  BY CliAssumption DEF Careful
<1>2. LockInv /\ LockInv' /\ SessionInv /\ [Next]_vars => SessionInv'
  BY <1>1, SessionStep
<1>3. LockInv /\ SyncInv /\ [Next]_vars => SyncInv'
  BY SyncStep
<1> QED
  BY <1>2, <1>3, SessionInit, LockInvariant, Drives, CliInvariant, PTL DEF Spec

\* A command that goes on to print has left its with-block to say "ok".
LEMMA PrintsHow ==
  ASSUME CliTypeOK, [CliNext]_cliVars, NEW p \in Procs, at[p] = "leaving", at'[p] = "printing"
  PROVE  told[p] = "ok"
<1>0. at \in [Procs -> Places]
  BY DEF CliTypeOK
<1>1. ASSUME NEW q \in Procs, NEW from, NEW to, NEW result, Move(q, from, to, result)
      PROVE  q = p /\ to = "printing"
  BY <1>0, <1>1 DEF Move
<1>2. ASSUME at' = at PROVE FALSE
  BY <1>2
<1>3. ASSUME NEW q \in Procs, leave(q) PROVE told[p] = "ok"
  <2>1. Move(q, "leaving", AfterBlock(q), told[q])
    BY <1>3 DEF leave, Step
  <2>2. q = p /\ AfterBlock(q) = "printing"
    BY <1>1, <2>1
  <2> QED
    BY <2>2 DEF AfterBlock
<1>4. ASSUME NEW q \in Procs, CliProgramStep(q), ~leave(q) PROVE FALSE
  <2>1. CASE cli_replaces(q)
    BY <1>2, <2>1 DEF cli_replaces
  <2>2. CASE open_loads(q)
    <3>1. Move(q, "opening", "prompt", "none") \/ Move(q, "opening", "body", "none")
      BY <2>2 DEF open_loads, Step
    <3> QED
      BY <1>1, <3>1
  <2>3. CASE ~cli_replaces(q) /\ ~open_loads(q)
    <3>1. PICK to \in {"ended", "leaving", "prompt"} : \E from, result : Move(q, from, to, result)
      BY <1>4, <2>3
         DEF CliProgramStep, init_writes, init_locked, open_rejected, found_to_show,
             found_to_change, not_found, cli_returns, prints, Step
    <3> QED
      BY <1>1, <3>1
  <2> QED
    BY <2>1, <2>2, <2>3
<1>5. ASSUME NEW q \in Procs, CliUserStep(q) PROVE FALSE
  <2>1. CASE add(q) \/ update(q) \/ delete(q) \/ passwd(q)
    <3>1. Called(q)
      BY <2>1 DEF add, update, delete, passwd
    <3>2. PICK result : Move(q, "prompt", "leaving", result)
      BY <3>1 DEF Called, Step
    <3> QED
      BY <1>1, <3>2
  <2>2. CASE ~(add(q) \/ update(q) \/ delete(q) \/ passwd(q))
    <3>1. PICK to \in {"ended", "password", "opening", "leaving"} :
            \E from, result : Move(q, from, to, result)
      BY <1>5, <2>2
         DEF CliUserStep, start, start_fails, init_checks, init_exists, open_repository,
             open_locked, password_fails, prompt_fails, copy_ends, Step
    <3> QED
      BY <1>1, <3>1
  <2> QED
    BY <2>1, <2>2
<1>6. ASSUME NEW q \in Procs, cli_raises(q) \/ die(q) PROVE FALSE
  <2>1. PICK to \in {"ended", "leaving"} : \E from, result : Move(q, from, to, result)
    BY <1>6 DEF cli_raises, die, Step
  <2> QED
    BY <1>1, <2>1
<1>7. ASSUME cli_power_loss PROVE FALSE
  BY <1>7 DEF cli_power_loss
<1>8. ASSUME UNCHANGED cli PROVE FALSE
  BY <1>2, <1>8 DEF cli
<1> QED
  BY <1>3, <1>4, <1>5, <1>6, <1>7, <1>8 DEF CliNext, cliVars

\* Where there is flock, a command that will report a change gives the lock back
\* when the file is what it wrote and will survive a power failure; and what
\* reports a change has made one.
THEOREM SuccessCorrect == HasFlock => (CliSpec => SuccessIsDurable)
<1> SUFFICES ASSUME HasFlock PROVE CliSpec => SuccessIsDurable
  OBVIOUS
<1> DEFINE Durable == \A p \in Procs : cmd[p] \in Changes =>
                        /\ at[p] = "leaving" /\ at'[p] = "printing" =>
                             changed[p] /\ file = unlocked[p] /\ (DirSyncWorks => durFile = file)
                        /\ Ends(p) /\ told'[p] = "ok" => changed[p]
<1>1. CliInit => ToldInv
  BY DEF CliInit, ToldInv
<1>2. CliInv /\ CliInv' /\ SessionInv /\ SyncInv /\ ToldInv /\ [CliNext]_cliVars => ToldInv'
  BY ToldStep DEF SessionInv
<1>3. CliInv /\ ToldInv /\ [CliNext]_cliVars => [Durable]_cliVars
  <2> SUFFICES ASSUME CliInv, ToldInv, [CliNext]_cliVars, NEW p \in Procs, cmd[p] \in Changes
               PROVE  /\ at[p] = "leaving" /\ at'[p] = "printing" =>
                           changed[p] /\ file = unlocked[p] /\ (DirSyncWorks => durFile = file)
                      /\ Ends(p) /\ told'[p] = "ok" => changed[p]
    OBVIOUS
  <2>0. CliTypeOK /\ PlaceOf(p)
    BY DEF CliInv, PlaceInv
  <2>1. ASSUME at[p] = "leaving", at'[p] = "printing"
        PROVE  changed[p] /\ file = unlocked[p] /\ (DirSyncWorks => durFile = file)
    <3>1. told[p] = "ok"
      BY <2>0, <2>1, PrintsHow
    <3>2. changed[p] = TRUE
      BY <2>0, <2>1, <3>1 DEF PlaceOf
    <3> QED
      BY <2>1, <3>1, <3>2 DEF ToldInv
  <2>2. ASSUME Ends(p), told'[p] = "ok" PROVE changed[p]
    <3>1. at[p] # "copying"
      BY <2>0 DEF PlaceOf, Changes
    <3>2. at[p] = "printing"
      BY <2>0, <2>2, <3>1, EndsHow
    <3>3. changed[p] = TRUE
      BY <2>0, <3>2 DEF PlaceOf
    <3> QED
      BY <3>3
  <2> QED
    BY <2>1, <2>2
<1> QED
  BY <1>1, <1>2, <1>3, CliSessions, PTL DEF CliSpec, SuccessIsDurable

-----------------------------------------------------------------------------
\* What a command changes

\* The entry a prompt is about stays one of the session's for as long as the
\* prompt is open.
LEMMA SeenStep == CliInv /\ SeenInv /\ [CliNext]_cliVars => SeenInv'
<1> SUFFICES ASSUME CliInv, SeenInv, [CliNext]_cliVars,
                    NEW p \in Procs, at'[p] = "prompt", cmd'[p] \in {"update", "delete"}
             PROVE  seen'[p] \in ToSet(entries'[p])
  BY DEF SeenInv
<1>0. TypeOK /\ CliTypeOK
  BY DEF CliInv, LockInv
<1>1. CASE KeptInside(p) /\ KeptOutside(p)
  BY <1>1 DEF KeptInside, KeptOutside, SeenInv
<1>2. CASE found_to_change(p)
  BY <1>0, <1>2 DEF found_to_change, vars, CliTypeOK
<1>3. ASSUME NEW from, NEW to, NEW result, Move(p, from, to, result) PROVE to = "prompt"
  BY <1>0, <1>3 DEF Move, CliTypeOK
<1>4. ASSUME \/ init_writes(p) \/ found_to_show(p) \/ not_found(p) \/ prompt_fails(p) \/ cli_returns(p)
      PROVE  FALSE
  <2>1. PICK from, result : Move(p, from, "leaving", result)
    BY <1>4 DEF init_writes, found_to_show, not_found, prompt_fails, cli_returns, Step
  <2> QED
    BY <1>3, <2>1
<1>5. ASSUME add(p) \/ update(p) \/ delete(p) \/ passwd(p) PROVE FALSE
  <2>1. Called(p)
    BY <1>5 DEF add, update, delete, passwd
  <2>2. PICK result : Move(p, "prompt", "leaving", result)
    BY <2>1 DEF Called, Step
  <2> QED
    BY <1>3, <2>2
<1>6. ASSUME cli_raises(p) PROVE FALSE
  <2>1. Move(p, "leaving", "ended", "raised") \/ Move(p, "leaving", "leaving", "raised")
    BY <1>6 DEF cli_raises, Step
  <2> QED
    BY <1>3, <2>1
<1>7. ASSUME open_loads(p) PROVE FALSE
  <2>1. CASE cmd[p] \in {"add", "passwd"}
    BY <1>7, <2>1 DEF open_loads, Step
  <2>2. CASE cmd[p] \notin {"add", "passwd"}
    <3>1. Move(p, "opening", "body", "none")
      BY <1>7, <2>2 DEF open_loads, Step
    <3> QED
      BY <1>3, <3>1
  <2> QED
    BY <2>1, <2>2
<1>8. CASE cli_replaces(p)
  BY <1>0, <1>8 DEF cli_replaces, write_replaces, SeenInv
<1> QED
  BY <1>0, <1>1, <1>2, <1>4, <1>5, <1>6, <1>7, <1>8, FromWithin

\* update on a list: everything but the data of the entries with one id stays.
LEMMA UpdateDoes ==
  ASSUME NEW old \in Entries, NEW i \in DOMAIN old, NEW d,
         NEW p, cmd[p] = "update", seen[p] \in ToSet(old), old[i].id = seen[p].id
  PROVE  Does(p, old, [old EXCEPT ![i].data = d])
<1>1. old \in Seq([id : Ids, data : Records]) /\ DOMAIN old = 1 .. Len(old)
  BY DEF Entries
<1>2. \A j \in DOMAIN old : old[j] \in [id : Ids, data : Records]
  BY <1>1, ElementOfSeq
<1> DEFINE new == [old EXCEPT ![i].data = d]
<1>3. DOMAIN new = DOMAIN old /\ \A j \in DOMAIN old : j # i => new[j] = old[j]
  BY <1>1
<1>4. new[i].id = old[i].id
  BY <1>1, <1>2
<1> HIDE DEF new
<1>5. \A j \in DOMAIN old : new[j].id = old[j].id /\ (old[j].id # seen[p].id => new[j] = old[j])
  BY <1>3, <1>4
<1>6. Does(p, old, new)
  BY <1>3, <1>5 DEF Does
<1> QED
  BY <1>6 DEF new

\* delete on a list whose ids are distinct: the entry that was shown goes.
LEMMA DeleteDoes ==
  ASSUME NEW old \in Entries, Distinct(old), NEW i \in DOMAIN old,
         NEW p, cmd[p] = "delete", seen[p] \in ToSet(old), old[i].id = seen[p].id
  PROVE  Does(p, old, RemoveAt(old, i))
<1>1. /\ old \in Seq([id : Ids, data : Records]) /\ DOMAIN old = 1 .. Len(old) /\ Len(old) \in Nat
      /\ i \in 1 .. Len(old)
  BY DEF Entries
<1>2. old[i] = seen[p]
  BY <1>1 DEF Distinct, ToSet
<1> DEFINE new == RemoveAt(old, i)
<1>3. /\ new \in Seq([id : Ids, data : Records]) /\ Len(new) = Len(old) - 1
      /\ \A j \in 1 .. Len(old) - 1 : new[j] = IF j < i THEN old[j] ELSE old[j + 1]
  BY <1>1, RemoveAtProperties
<1> HIDE DEF new
<1>4. DOMAIN new = 1 .. Len(old) - 1
  BY <1>3
<1>5. ASSUME NEW j \in DOMAIN new PROVE new[j].id # seen[p].id
  <2>1. j \in 1 .. Len(old) - 1
    BY <1>4
  <2>2. PICK k \in 1 .. Len(old) : k # i /\ new[j] = old[k]
    BY <1>1, <1>3, <2>1
  <2> QED
    BY <1>1, <2>2 DEF Distinct
<1>6. seen[p].id \notin IdsOf(new)
  BY <1>5 DEF IdsOf
<1>7. \E j \in DOMAIN old : old[j] = seen[p] /\ new = RemoveAt(old, j)
  BY <1>2 DEF new
<1>8. Does(p, old, new)
  BY <1>6, <1>7 DEF Does
<1> QED
  BY <1>8 DEF new

\* add on a list: one entry more, under an unused id.
LEMMA AddDoes ==
  ASSUME NEW old \in Entries, NEW e \in [id : Ids, data : Records], e.id \notin IdsOf(old),
         NEW p, cmd[p] = "add"
  PROVE  Does(p, old, Append(old, e))
<1>1. old \in Seq([id : Ids, data : Records])
  BY DEF Entries
<1>2. Append(old, e) \in Seq([id : Ids, data : Records]) /\ Append(old, e)[Len(old) + 1] = e
      /\ Len(Append(old, e)) = Len(old) + 1
  BY <1>1
<1>3. e \in ToSet(Append(old, e))
  BY <1>1, <1>2 DEF ToSet
<1> QED
  BY <1>3 DEF Does

\* A change begins on a session that is current, so on the file as it is; and
\* nobody else replaces the file before it does.
LEMMA DoesStep ==
  HasFlock /\ CliInv /\ CliInv' /\ SessionInv /\ IdsInv /\ SeenInv /\ DoesInv /\ [CliNext]_cliVars
    => DoesInv'
<1> SUFFICES ASSUME HasFlock, CliInv, CliInv', SessionInv, IdsInv, SeenInv, DoesInv,
                    [CliNext]_cliVars, NEW p \in Procs, st'[p] = "pending"
             PROVE  Does(p, file.plaintext, arg[p].plaintext)'
  BY DEF DoesInv
<1>0. TypeOK /\ CliTypeOK /\ LockInv /\ PlaceOf(p) /\ PlaceOf(p)' /\ [Next]_vars
  BY RepositoryStep DEF CliInv, LockInv, PlaceInv
<1>p. pc'[p] \in Writing /\ (pc[p] \in Writing <=> st[p] # "idle")
  BY <1>0 DEF CliInv, LockInv, TypeOK
<1>f. ASSUME NEW old, NEW new, Does(p, old, new), cmd'[p] = cmd[p], seen'[p] = seen[p],
             file'.plaintext = old, arg'[p].plaintext = new
      PROVE  Does(p, file.plaintext, arg[p].plaintext)'
  BY <1>f DEF Does
<1>1. CASE KeptInside(p) /\ KeptOutside(p)
  <2>1. st[p] = "pending" /\ pc[p] \in Writing /\ ~write_replaces(p)
    BY <1>0, <1>1, <1>p DEF KeptInside, write_replaces, Store!Apply, TypeOK
  <2>2. file' = file
    BY <1>0, <1>p, <2>1, FileStays DEF Writing, InSession, PCs
  <2>3. Does(p, file.plaintext, arg[p].plaintext)
    BY <2>1 DEF DoesInv
  <2> QED
    BY <1>1, <1>f, <2>2, <2>3 DEF KeptInside, KeptOutside
<1>2. ASSUME at'[p] \in {"ended", "password", "opening", "printing", "copying"} PROVE FALSE
  BY <1>0, <1>2, <1>p DEF PlaceOf, Writing
<1>3. CASE init_writes(p)
  <2>1. PICK pw \in Passwords : create_write(p, pw)
    BY <1>3 DEF init_writes
  <2>2. /\ pc[p] = "checked" /\ arg'[p] = NewBox(pw, <<>>)
    BY <1>0, <2>1 DEF create_write, Goto, Store!Begin, TypeOK
  <2>3. at[p] = "opening" /\ cmd' = cmd
    BY <1>3 DEF init_writes, Step, Move
  <2>4. cmd'[p] = "init"
    BY <1>0, <2>2, <2>3 DEF PlaceOf
  <2>5. arg'[p].plaintext = <<>>
    BY <2>2 DEF NewBox
  <2> QED
    BY <2>4, <2>5 DEF Does
<1>4. ASSUME open_loads(p) \/ not_found(p) \/ cli_replaces(p) \/ cli_returns(p) \/ cli_raises(p)
      PROVE  FALSE
  <2>0. pc \in [Procs -> PCs] /\ st \in [Procs -> {"idle", "pending", "applied"}]
    BY <1>0 DEF TypeOK
  <2>1. CASE open_loads(p) \/ not_found(p)
    BY <1>0, <1>p, <2>0, <2>1, Calls DEF open_loads, not_found, Writing
  <2>2. CASE cli_replaces(p) \/ cli_returns(p) \/ cli_raises(p)
    BY <1>0, <2>0, <2>2, Calls DEF cli_replaces, cli_returns, cli_raises
  <2> QED
    BY <1>4, <2>1, <2>2
<1>5. ASSUME found_to_show(p) \/ found_to_change(p) \/ prompt_fails(p) PROVE FALSE
  <2>1. at[p] \in {"body", "prompt"} /\ UNCHANGED vars
    BY <1>5 DEF found_to_show, found_to_change, prompt_fails, Step, Move
  <2> QED
    BY <1>0, <1>p, <2>1 DEF PlaceOf, vars, Writing
<1>6. ASSUME add(p) \/ update(p) \/ delete(p) \/ passwd(p)
      PROVE  /\ pc[p] = "open" /\ st[p] = "idle" /\ at[p] = "prompt"
             /\ cmd'[p] = cmd[p] /\ seen'[p] = seen[p]
             /\ file \in Boxes /\ unlocked[p] = file
             /\ CanSave(file) => entries[p] = file.plaintext /\ entries[p] \in Entries
  <2>1. Called(p)
    BY <1>6 DEF add, update, delete, passwd
  <2>2. at[p] = "prompt" /\ UNCHANGED <<cmd, seen>>
    BY <2>1 DEF Called, Step, Move
  <2>3. pc[p] = "open" /\ st[p] = "idle"
    BY <1>0, <1>p, <2>2 DEF PlaceOf, Writing
  <2>4. unlocked[p] = file /\ (entries[p] = file.plaintext \/ ~CanSave(file))
    BY <2>3 DEF SessionInv, SessionIsCurrent
  <2> QED
    BY <1>0, <2>2, <2>3, <2>4 DEF TypeOK
<1>7. ASSUME NEW es, persist(p, es), pc[p] = "open", st[p] = "idle", file \in Boxes, unlocked[p] = file
      PROVE  CanSave(file) /\ file' = file /\ arg'[p].plaintext = es
  <2>1. CASE ~CanSave(file)
    BY <1>7, <2>1 DEF persist, store
  <2>2. CASE CanSave(file)
    <3>1. file' = file /\ arg'[p] = SaveBox(file, es)
      BY <1>0, <1>7, <2>2 DEF persist, Store!Begin, TypeOK
    <3>2. SaveBox(file, es).plaintext = es
      BY <1>7 DEF SaveBox, Boxes
    <3> QED
      BY <2>2, <3>1, <3>2
  <2> QED
    BY <2>1, <2>2
<1>8. CASE add(p)
  <2>1. PICK r \in Records, id \in Ids \ IdsOf(entries[p]) :
          persist(p, Append(entries[p], [id |-> id, data |-> r]))
    BY <1>8 DEF add, add_entry
  <2> DEFINE e == [id |-> id, data |-> r]
  <2>2. CanSave(file) /\ file' = file /\ arg'[p].plaintext = Append(entries[p], e)
    BY <1>6, <1>7, <1>8, <2>1
  <2>3. cmd[p] = "add" /\ e \in [id : Ids, data : Records] /\ e.id \notin IdsOf(entries[p])
    BY <1>8, <2>1 DEF add, AtPrompt
  <2>4. Does(p, entries[p], Append(entries[p], e))
    BY <1>6, <1>8, <2>2, <2>3, AddDoes
  <2> QED
    BY <1>6, <1>8, <1>f, <2>2, <2>4
<1>9. CASE update(p)
  <2>1. PICK i, d : /\ i \in DOMAIN entries[p] /\ entries[p][i].id = seen[p].id
                    /\ persist(p, [entries[p] EXCEPT ![i].data = d])
    BY <1>9 DEF update, update_entry
  <2>2. CanSave(file) /\ file' = file /\ arg'[p].plaintext = [entries[p] EXCEPT ![i].data = d]
    BY <1>6, <1>7, <1>9, <2>1
  <2>3. cmd[p] = "update" /\ seen[p] \in ToSet(entries[p])
    BY <1>9 DEF update, AtPrompt, SeenInv
  <2>4. Does(p, entries[p], [entries[p] EXCEPT ![i].data = d])
    BY <1>6, <1>9, <2>1, <2>2, <2>3, UpdateDoes
  <2> QED
    BY <1>6, <1>9, <1>f, <2>2, <2>4
<1>10. CASE delete(p)
  <2>1. PICK i \in DOMAIN entries[p] :
          entries[p][i].id = seen[p].id /\ persist(p, RemoveAt(entries[p], i))
    BY <1>10 DEF delete, delete_entry
  <2>2. CanSave(file) /\ file' = file /\ arg'[p].plaintext = RemoveAt(entries[p], i)
    BY <1>6, <1>7, <1>10, <2>1
  <2>3. cmd[p] = "delete" /\ seen[p] \in ToSet(entries[p]) /\ Distinct(entries[p])
    BY <1>10 DEF delete, AtPrompt, SeenInv, IdsInv
  <2>4. Does(p, entries[p], RemoveAt(entries[p], i))
    BY <1>6, <1>10, <2>1, <2>2, <2>3, DeleteDoes
  <2> QED
    BY <1>6, <1>10, <1>f, <2>2, <2>4
<1>11. CASE passwd(p)
  <2>1. PICK pw \in Passwords : change_master_password(p, pw)
    BY <1>11 DEF passwd
  <2>2. file \in Boxes /\ unlocked[p] = file /\ st[p] = "idle" /\ cmd'[p] = cmd[p] /\ seen'[p] = seen[p]
    BY <1>6, <1>11
  <2>3. CanSave(file)
    BY <2>1, <2>2 DEF change_master_password, store
  <2>4. file' = file /\ arg'[p] = RekeyBox(file, pw)
    BY <1>0, <2>1, <2>2, <2>3 DEF change_master_password, Store!Begin, TypeOK
  <2>5. RekeyBox(file, pw).plaintext = file.plaintext
    BY <2>2 DEF RekeyBox, Boxes
  <2>6. cmd[p] = "passwd"
    BY <1>11 DEF passwd, AtPrompt
  <2> QED
    BY <2>2, <2>4, <2>5, <2>6 DEF Does
<1> QED
  BY <1>0, <1>1, <1>2, <1>3, <1>4, <1>5, <1>8, <1>9, <1>10, <1>11, FromWithin

\* Where there is flock, a command changes what it was asked to change and
\* nothing else, in the file as it is when the file is replaced: the entry shown
\* at a prompt is the one updated or deleted, and nobody's change is undone.
THEOREM ChangesCorrect == HasFlock => (CliSpec => ChangesOnlyItsOwn)
<1> SUFFICES ASSUME HasFlock PROVE CliSpec => ChangesOnlyItsOwn
  OBVIOUS
<1> DEFINE Own == \A p \in Procs : Replaces(p) => Does(p, file.plaintext, file'.plaintext)
<1>1. CliInit => SeenInv /\ DoesInv
  BY DEF CliInit, Init, Store!StoreInit, SeenInv, DoesInv
<1>2. CliInv /\ SeenInv /\ [CliNext]_cliVars => SeenInv'
  BY SeenStep
<1>3. CliInv /\ CliInv' /\ SessionInv /\ IdsInv /\ SeenInv /\ DoesInv /\ [CliNext]_cliVars => DoesInv'
  BY DoesStep
<1>4. CliInv /\ DoesInv /\ [CliNext]_cliVars => [Own]_cliVars
  <2> SUFFICES ASSUME CliInv, DoesInv, [CliNext]_cliVars, NEW p \in Procs, Replaces(p)
               PROVE  Does(p, file.plaintext, file'.plaintext)
    OBVIOUS
  <2>1. write_replaces(p)
    BY RepositoryStep, ReplacingStep DEF CliInv, LockInv
  <2> QED
    BY <2>1 DEF write_replaces, Store!Apply, DoesInv
<1> QED
  BY <1>1, <1>2, <1>3, <1>4, CliSessions, Drives, IdsInvariant, PTL DEF CliSpec, ChangesOnlyItsOwn

\* Where there is flock and one process at a time creates a vault, the commands
\* of cli.py together implement VaultSpec: every change of the file is one of
\* its operations on the current content.
THEOREM CommandsRefinement == HasFlock /\ OneCreator => (CliSpec => ImplementsVaultSpec)
<1> SUFFICES ASSUME HasFlock, OneCreator PROVE CliSpec => ImplementsVaultSpec
  OBVIOUS
<1>1. Careful
  BY CliAssumption DEF Careful
<1>2. Spec => ImplementsVaultSpec
  BY <1>1, VaultRefinement
<1> QED
  BY <1>2, Drives, PTL

\* For the commands, however many of them run init at the same time: an init may
\* replace a vault that it did not see, and nothing else is ever lost.
THEOREM CommandsOnlyCreate == HasFlock => (CliSpec => OnlyCreateReplaces)
<1> SUFFICES ASSUME HasFlock PROVE CliSpec => OnlyCreateReplaces
  OBVIOUS
<1>1. Careful
  BY CliAssumption DEF Careful
<1>2. Spec => OnlyCreateReplaces
  BY <1>1, OnlyCreateCorrect
<1> QED
  BY <1>2, Drives, PTL
==============================================================================
