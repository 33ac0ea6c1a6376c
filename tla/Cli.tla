-------------------------------- MODULE Cli --------------------------------
(***************************************************************************)
(* The commands of cli.py, each a process over Repository: what is checked *)
(* and asked before the vault is opened, what is asked while it is open,   *)
(* which errors are caught, and what the user is told.  Every step is one  *)
(* of the repository's or leaves the repository alone.                     *)
(*                                                                         *)
(* A prompt and the call that follows it are one step; a password and an   *)
(* id are drawn where they are used.  `generate' touches no vault (see     *)
(* PasswordGen); the wait of `copy' is the subject of Clipboard.           *)
(***************************************************************************)
EXTENDS Repository

CONSTANT Menu   \* Menu[p]: the names of the commands that p runs

ASSUME CliAssumption ==
  /\ LongLived = {}   \* every command closes its repository
  /\ \A p \in Procs : "init" \in Menu[p] => p \in Creators

VARIABLES
  cmd,      \* cmd[p]: the name of the command p runs, or "none"
  at,       \* at[p]: where it is, see Places
  told,     \* told[p]: how it ended, or will once the vault is closed
  seen,     \* seen[p]: the entry that update or delete has found
  changed   \* changed[p]: history: has it replaced the vault file?

cli == <<cmd, at, told, seen, changed>>
cliVars == <<vars, cli>>

Searches == {"get", "copy", "update", "delete"}
Changes == {"init", "add", "update", "delete", "passwd"}
Commands == Searches \cup Changes \cup {"list"}

\* ended     no command runs
\* password  at the prompt for the master password, the vault not opened yet
\* opening   VaultRepository.create or open has been called
\* body      in the with-block
\* prompt    in the with-block, at a prompt (or past it, where an option said so)
\* leaving   the command's work is done or has failed; told says how
\* printing  the with-block is over, the result is not printed yet
\* copying   copy waits, its with-block is over
Places == {"ended", "password", "opening", "body", "prompt", "leaving", "printing", "copying"}

\* none      nothing, yet or because the process was killed
\* ok        what the command has done
\* refused   that it was not done: "Error:" by _fail, "Aborted." by delete
\* raised    any other exception: a traceback, or Ctrl-C's "Aborted!"
Results == {"none", "ok", "refused", "raised"}

CliInit ==
  /\ Init
  /\ cmd = [p \in Procs |-> "none"]
  /\ at = [p \in Procs |-> "ended"]
  /\ told = [p \in Procs |-> "none"]
  /\ seen = [p \in Procs |-> Nothing]
  /\ changed = [p \in Procs |-> FALSE]

-----------------------------------------------------------------------------
\* From the command line to the open vault

Move(p, from, to, result) ==
  /\ at[p] = from
  /\ at' = [at EXCEPT ![p] = to]
  /\ told' = [told EXCEPT ![p] = result]

\* The same for a step that shows and changes nothing; at the end of the
\* command everything but its result is forgotten.
Step(p, from, to, result) ==
  /\ Move(p, from, to, result)
  /\ IF to = "ended"
     THEN /\ cmd' = [cmd EXCEPT ![p] = "none"]
          /\ seen' = [seen EXCEPT ![p] = Nothing]
          /\ changed' = [changed EXCEPT ![p] = FALSE]
     ELSE UNCHANGED <<cmd, seen, changed>>

\* init wants no file at the path, every other command wants one.
start(p, c) ==
  /\ c \in Menu[p]
  /\ (c = "init") = (file = Nothing)
  /\ Move(p, "ended", "password", "none")
  /\ cmd' = [cmd EXCEPT ![p] = c]
  /\ UNCHANGED <<vars, seen, changed>>

start_fails(p, c) ==
  /\ c \in Menu[p]
  /\ (c = "init") # (file = Nothing)
  /\ Step(p, "ended", "ended", "refused")
  /\ UNCHANGED vars

\* Ctrl-C at the prompt; init also rejects a password that is empty, not
\* confirmed or weak.
password_fails(p) ==
  /\ \/ Step(p, "password", "ended", "raised")
     \/ cmd[p] = "init" /\ Step(p, "password", "ended", "refused")
  /\ UNCHANGED vars

\* The password has been typed, and VaultRepository.create looks for the
\* file once more.
init_checks(p) ==
  /\ cmd[p] = "init"
  /\ Step(p, "password", "opening", "none")
  /\ create_check(p)

\* FileExistsError is no VaultError.
init_exists(p) ==
  /\ cmd[p] = "init" /\ file # Nothing
  /\ Step(p, "password", "ended", "raised")
  /\ UNCHANGED vars

init_writes(p) ==
  /\ Step(p, "opening", "leaving", "none")
  /\ \E pw \in Passwords : create_write(p, pw)

\* Mutant: flock without LOCK_NB, so that create waits for the lock.
initWaits(p) == at[p] = "opening" /\ pc[p] = "checked" /\ lock # Nothing /\ UNCHANGED cliVars

init_locked(p) == Step(p, "opening", "ended", "refused") /\ create_locked(p)

\* The password has been typed, and VaultRepository.open takes the lock.
open_repository(p) ==
  /\ cmd[p] # "init"
  /\ Step(p, "password", "opening", "none")
  /\ open_lock(p)

\* VaultLockedError
open_locked(p) ==
  /\ cmd[p] # "init" /\ HasFlock /\ lock # Nothing
  /\ Step(p, "password", "ended", "refused")
  /\ UNCHANGED vars

open_loads(p) ==
  /\ Step(p, "opening", IF cmd[p] \in {"add", "passwd"} THEN "prompt" ELSE "body", "none")
  /\ \E pw \in Passwords : open_load(p, pw)

\* VaultAuthenticationError.
open_rejected(p) ==
  /\ Step(p, "opening", "ended", "refused")
  /\ \E pw \in Passwords : open_fails(p, pw)

-----------------------------------------------------------------------------
\* The with-blocks

\* list has the entries, get and copy have found theirs; what they print of
\* them is left out.
found_to_show(p) ==
  /\ cmd[p] = "list" \/ (cmd[p] \in {"get", "copy"} /\ entries[p] # <<>>)
  /\ Step(p, "body", "leaving", "ok")
  /\ UNCHANGED vars

\* update and delete have found theirs; delete shows it in its prompt.
found_to_change(p) ==
  /\ cmd[p] \in {"update", "delete"}
  /\ Move(p, "body", "prompt", "none")
  /\ \E e \in ToSet(entries[p]) : seen' = [seen EXCEPT ![p] = e]
  /\ UNCHANGED <<vars, cmd, changed>>

\* EntryNotFoundError
not_found(p) ==
  /\ cmd[p] \in Searches
  /\ Step(p, "body", "leaving", "refused")
  /\ \E id \in Ids : entry_not_found(p, id)

\* An empty or unconfirmed password, an impossible policy, a weak master
\* password; a delete that is not confirmed; Ctrl-C.
prompt_fails(p) ==
  /\ \/ Step(p, "prompt", "leaving", "refused")
     \/ Step(p, "prompt", "leaving", "raised")
  /\ UNCHANGED vars

AtPrompt(p, name) == at[p] = "prompt" /\ cmd[p] = name

\* The answer is in and the repository has been called: it is writing, or the
\* counter is exhausted, a ValueError that no command catches.
Called(p) == Step(p, "prompt", "leaving", IF pc'[p] \in Writing THEN "none" ELSE "raised")

add(p) == AtPrompt(p, "add") /\ (\E r \in Records : add_entry(p, r)) /\ Called(p)
update(p) ==
  /\ AtPrompt(p, "update")
  /\ \E fs \in SUBSET Fields, r \in Records : update_entry(p, seen[p].id, fs, r)
  /\ Called(p)

\* Mutant: the entry deleted need not be the one that was shown.
deleteAny(p) == AtPrompt(p, "delete") /\ (\E id \in Ids : delete_entry(p, id)) /\ Called(p)

delete(p) == AtPrompt(p, "delete") /\ delete_entry(p, seen[p].id) /\ Called(p)
passwd(p) ==
  AtPrompt(p, "passwd") /\ (\E pw \in Passwords : change_master_password(p, pw)) /\ Called(p)

cli_replaces(p) ==
  /\ write_replaces(p)
  /\ changed' = [changed EXCEPT ![p] = TRUE]
  /\ UNCHANGED <<cmd, at, told, seen>>

cli_returns(p) == Step(p, "leaving", "leaving", "ok") /\ write_returns(p)

\* Mutant: an OSError is reported like a VaultError.
raisesRefused(p) ==
  Step(p, "leaving", IF pc[p] = "creating" THEN "ended" ELSE "leaving", "refused") /\ write_raises(p)

\* OSError or KeyboardInterrupt, which no command catches; a create that
\* raised has no repository to close.
cli_raises(p) ==
  Step(p, "leaving", IF pc[p] = "creating" THEN "ended" ELSE "leaving", "raised") /\ write_raises(p)

\* What follows the with-block: an exception has nothing to follow, and _fail
\* and delete's "Aborted." have printed inside it.
AfterBlock(p) ==
  IF told[p] # "ok" THEN "ended" ELSE IF cmd[p] = "copy" THEN "copying" ELSE "printing"

\* Mutant: copy waits inside its with-block.
leaveCopyOpen(p) ==
  /\ told[p] # "none"
  /\ IF cmd[p] = "copy" /\ told[p] = "ok"
     THEN Step(p, "leaving", "copying", "ok") /\ UNCHANGED vars
     ELSE Step(p, "leaving", AfterBlock(p), told[p]) /\ close(p)

\* The with-block closes the repository, whatever ended it.
leave(p) ==
  /\ told[p] # "none"
  /\ Step(p, "leaving", AfterBlock(p), told[p])
  /\ close(p)

\* The lock is free again by the time the command says what it has done.
prints(p) == Step(p, "printing", "ended", "ok") /\ UNCHANGED vars

\* copy_and_autoclear has returned, raised ClipboardUnavailableError or let a
\* KeyboardInterrupt through.
copy_ends(p) ==
  /\ \E result \in {"ok", "refused", "raised"} : Step(p, "copying", "ended", result)
  /\ UNCHANGED vars

\* The process is killed; Ctrl-C where nothing else is said has this effect.
die(p) ==
  /\ at[p] # "ended"
  /\ Step(p, at[p], "ended", "none")
  /\ IF pc[p] = "idle" THEN UNCHANGED vars ELSE Kill(p)

cli_power_loss ==
  /\ PowerLoss
  /\ at' = [p \in Procs |-> "ended"]
  /\ told' = [p \in Procs |-> "none"]
  /\ cmd' = [p \in Procs |-> "none"]
  /\ seen' = [p \in Procs |-> Nothing]
  /\ changed' = [p \in Procs |-> FALSE]

CliProgramStep(p) ==
  \/ init_writes(p) \/ init_locked(p) \/ open_loads(p) \/ open_rejected(p)
  \/ found_to_show(p) \/ found_to_change(p) \/ not_found(p)
  \/ cli_replaces(p) \/ cli_returns(p) \/ leave(p) \/ prints(p)

CliUserStep(p) ==
  \/ \E c \in Commands : start(p, c) \/ start_fails(p, c)
  \/ init_checks(p) \/ init_exists(p) \/ open_repository(p) \/ open_locked(p)
  \/ password_fails(p) \/ prompt_fails(p) \/ copy_ends(p)
  \/ add(p) \/ update(p) \/ delete(p) \/ passwd(p)

CliNext ==
  \/ \E p \in Procs : CliProgramStep(p) \/ CliUserStep(p) \/ cli_raises(p) \/ die(p)
  \/ directory_synced /\ UNCHANGED cli
  \/ cli_power_loss

CliSpec == CliInit /\ [][CliNext]_cliVars

\* As in Repository: nothing is assumed of the user, of errors or of kills.
CliFairSpec ==
  /\ CliSpec
  /\ WF_cliVars(directory_synced /\ UNCHANGED cli)
  /\ \A p \in Procs : WF_cliVars(CliProgramStep(p))

-----------------------------------------------------------------------------
\* Properties

(***************************************************************************)
(* A process has a repository, and the lock, exactly while its command is  *)
(* between the call that opens the vault and the end of the with-block: no *)
(* message, decline, Ctrl-C or exception leaves it open, and no command    *)
(* that waits for the clipboard or for the vault's master password keeps   *)
(* others out.  (One that waits for a new password or an answer does.)     *)
(***************************************************************************)
HeldOnlyInside ==
  \A p \in Procs :
    /\ at[p] \in {"ended", "password", "printing", "copying"} => pc[p] = "idle" /\ lock # p
    /\ at[p] \in {"body", "prompt"} => pc[p] = "open"

\* The command of p ends in this step.
Ends(p) == at[p] # "ended" /\ at'[p] = "ended"

(***************************************************************************)
(* A command that goes on to print "Created", "Added", "Updated",          *)
(* "Deleted" or "changed" gives the lock back when the file is what it     *)
(* wrote, in the cache and on the medium, and none prints it that has not  *)
(* replaced the file.  (Between the two another command may replace the    *)
(* file again: the lock is free before the message is printed.)            *)
(***************************************************************************)
SuccessIsDurable ==
  [][\A p \in Procs : cmd[p] \in Changes =>
       /\ at[p] = "leaving" /\ at'[p] = "printing" =>
            changed[p] /\ file = unlocked[p] /\ (DirSyncWorks => durFile = file)
       /\ Ends(p) /\ told'[p] = "ok" => changed[p]]_cliVars

(***************************************************************************)
(* A command that says "Error:" or "Aborted." has not changed the vault.   *)
(* (After a traceback it may have: os.replace may have happened.)          *)
(***************************************************************************)
RefusedChangesNothing ==
  [][\A p \in Procs : Ends(p) /\ told'[p] = "refused" => ~changed[p]]_cliVars

\* The command of p makes the list new out of the list old.
Does(p, old, new) ==
  CASE cmd[p] = "init" -> new = <<>>
    [] cmd[p] = "add" -> \E e \in ToSet(new) : e.id \notin IdsOf(old) /\ new = Append(old, e)
    [] cmd[p] = "passwd" -> new = old
    [] cmd[p] = "update" ->
         /\ seen[p] \in ToSet(old) /\ DOMAIN new = DOMAIN old
         /\ \A i \in DOMAIN old :
              new[i].id = old[i].id /\ (old[i].id # seen[p].id => new[i] = old[i])
    [] cmd[p] = "delete" ->
         /\ \E i \in DOMAIN old : old[i] = seen[p] /\ new = RemoveAt(old, i)
         /\ seen[p].id \notin IdsOf(new)
    [] OTHER -> FALSE

(***************************************************************************)
(* A command changes what it was asked to and nothing else, in the file as *)
(* it is when the file is replaced: however long a prompt was open, the    *)
(* entry shown is the one that is updated or deleted, and all others, of   *)
(* other commands too, stay as they are.  (What a create may replace is    *)
(* the subject of CreateNeverClobbers.)                                    *)
(***************************************************************************)
ChangesOnlyItsOwn ==
  [][\A p \in Procs : Replaces(p) => Does(p, file.plaintext, file'.plaintext)]_cliVars

(***************************************************************************)
(* A command comes to an end, or to a prompt or the wait of copy, whatever *)
(* the other commands do, and if one of them stays for good at a prompt    *)
(* with the lock: flock is called with LOCK_NB, and no command waits for   *)
(* another.                                                                *)
(***************************************************************************)
Waiting == {"ended", "password", "prompt", "copying"}

CommandsEnd == \A p \in Procs : at[p] \notin Waiting ~> at[p] \in Waiting
=============================================================================
