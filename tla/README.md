# SecureVault in TLA+

A verification project for `securevault`, a command-line password vault: one
encrypted file, opened with a master password, changed by short commands, and a
clipboard helper that copies a password and clears it again. The modules model
the code under `src/src/securevault/`; `PROJECT.json` maps each definition to
the lines it stands for. File names below are relative to that directory.

Contents: [inventory](#inventory), [modules](#modules),
[runs](#what-the-runs-check), [proofs](#what-is-proved),
[findings](#where-docs-and-code-disagree), [seen, without a run](#seen-without-a-run),
[limits](#what-is-not-modelled), [plan](#plan).

## Inventory

| Part | State | Operations | Used by |
|---|---|---|---|
| `storage.py` | the vault path, temporary files beside it | `write_atomic`, `read` | repository |
| `locking.py` | an `flock` on `<vault>.lock` | `acquire`, `release` | repository |
| `vault.py` | an `UnlockedVault`: header, wrapped DEK, counter, DEK and plaintext buffers | `create`, `open_vault`, `save`, `change_password`, `close` | repository |
| `kdf.py`, `aead.py` | none | `validate`, `derive_key`; `encrypt`, `decrypt` | vault |
| `fileformat.py` | none | the two headers, `serialize`, `parse` | vault |
| `entries.py` | none | `Entry`, JSON (de)serialization | repository |
| `repository.py` | the lock, the `UnlockedVault`, the list `_entries` | `create`, `open`, `add_entry`, `get_entry`, `update_entry`, `delete_entry`, `change_master_password`, `close` | cli |
| `clipboard.py` | the system clipboard (shared with everybody) | `copy_and_autoclear`, `clear_if_unchanged` | cli |
| `cli.py` | none between commands | one command = open, at most one change, close | the user |
| `passwordgen.py` | none | `generate_password`, `estimate_entropy_bits` | cli |
| `memory.py` | none | `wipe` | vault |
| `errors.py` | none | exception classes | all |

How they interact. A command opens a `VaultRepository`, which takes the lock,
reads the file, and has `vault.py` decrypt it. A mutation changes `_entries`,
asks the `UnlockedVault` to seal the new plaintext under the next counter (it
moves on to the new state at that point), and hands the bytes to
`write_atomic`. The lock is the only thing that keeps two processes apart; the
rename in `write_atomic` is the only thing that keeps a crash from tearing the
file. `copy` closes the vault first and waits with only the clipboard in hand.

What is hard here, and what makes each part correct:

* **storage** - a kill or a power failure between any two system calls, data
  and directory reaching the medium in any order, an error after the rename.
  Correct: the path is always a whole old or a whole new file, an error leaves
  no litter, success means durable.
* **locking, repository** - several processes; the lock on every error path;
  the state in memory running ahead of the file when a write fails; the check
  for an existing file made before the lock. Correct: every change of the file
  is one operation on its current content, and the lock is held exactly during
  a session.
* **vault, fileformat, kdf, aead** - the same wrap reused by many saves, a
  password change that must re-bind everything, files put together from parts
  of different saves. Correct: one password opens a file, to the plaintext that
  was sealed with it; a close that runs to its end leaves every buffer wiped,
  wherever Ctrl-C hit a save or a password change before it. At the level of
  bytes: what is written is read back, and no byte of a file goes unchecked.
* **entries** - bodies of another version, with fields missing or of other
  types, which the next save rewrites. Correct: a body that cannot be read is
  refused as a whole, a save writes back every item with the text of its known
  fields, and memory and body agree. (Unknown fields and the types of known ones
  are lost by the next save; null becomes the text `None`.)
* **clipboard** - signals at any instruction, a user and other commands who
  share the clipboard, a check and a clear that are two calls. Correct: the
  secret leaves.
* **cli** - prompts that stay open for minutes with the vault open, ways out of
  a with-block by `SystemExit` or Ctrl-C, errors no clause catches, messages that
  are printed when the lock is free again. Correct: the lock is held only inside
  the with-block, a refusal has changed nothing, what is reported as done was so
  when the lock was released, and the entry shown is the entry changed.
* **passwordgen** - a category that some draws would miss, or that a policy
  empties. Correct: a password meets its policy and every legal
  call ends with one.

`PROJECT.json` lists these as hazards, each at its line.

## Modules

```
 VaultSpec    <--implements-- Repository --uses--> AtomicStore, SealedBox
 AtomicStore  <--implements-- Storage
 SealedVault  <--implements-- Vault      --uses--> SealedBox
 Repository   <--extended by-- Cli, CounterHistory
 FileFormat, Entries, Clipboard, PasswordGen   on their own
```

The project is compositional. `Storage` is the detail of one call of
`write_atomic` and `Vault` the detail of one file's encryption; each is shown
to implement a small abstract module, and `Repository` is built on those two.
`Cli` adds the commands on top: each of its steps is a step of `Repository` or
leaves it alone. `FileFormat` and `Entries` are the byte and JSON conversions
that `Vault` and `Repository` treat as records.

* **AtomicStore** - the register `write_atomic` promises: `val` (what a reader
  sees), `dur` (what a power failure leaves), and per call `st` and `arg`. A
  call that raised may or may not have taken effect; one that returned has and,
  where no sync of the directory fails, it is durable.
* **Storage** - `write_atomic`, one action per system call (`mkstemp`,
  `fchmod`, `write`, `fsync`, `replace`, `fsync_directory`, `unlink`), over a
  file system with a page cache: content of each inode in the cache and on the
  medium, a live and a durable directory. `Raise` is an error or
  `KeyboardInterrupt` in the try block, `EndAbruptly` a kill or a signal
  outside it. `_fsync_directory` swallows its errors, so each call of it may
  leave the directory unsynced unless `DirSyncWorks` says that none fails.
  `Writeback` and `WritebackDirectory` are the kernel's, in any
  order; `PowerLoss` leaves what is on the medium. The directory commits as a
  whole and a rename is atomic on the medium, as on a journalling file system.
* **SealedBox** - a vault file as the repository sees it: a password, a
  counter, a plaintext.
* **SealedVault** - what `vault.py` promises about boxes.
* **Vault** - the envelope itself with symbolic cryptography. A key is what it
  was derived from, a ciphertext records key, plaintext and associated data.
  The files open_vault is given are all mixtures of parts ever written,
  damaged parts (`Garbled`), out-of-range parameters and a `Malformed` file.
  `unwiped` counts the secret `bytearray`s that are left, `ended` says how the
  latest session did. `save_interrupted` and `change_password_interrupted` are a
  `KeyboardInterrupt` after any of the assignments to the session; with
  `SessionsContinue` FALSE, as in all of this program, the caller's with-block
  then closes it. `close_interrupted` is one before, between or after the two
  wipes of `close`, `open_vault_raises` a body that does not authenticate when
  the DEK has been unwrapped: both leave buffers unwiped, and `SessionWiped`
  does not speak of them.
* **FileFormat** - `serialize` and `parse` over real bytes, with the program's
  own offsets, widths and limits; a file is written, then cut, extended or
  damaged byte by byte. `Vault`'s `Malformed` is any file `parses` refuses,
  and `Canonical` is what justifies that `Vault` keeps a file as a record of
  fields. `Files` is what `serialize` takes: field lengths, and costs that
  passed `validate`.
* **Entries** - a body is a tagged JSON value; `from_dict_outcome` and
  `deserialize_outcome` say which exception, if any, the code raises: the
  first of the items in `Refused` decides. The repository's load and save cycle
  drives them.
* **VaultSpec** - what the user is promised: a password and a set of entries,
  changed atomically, one command at a time; only a power failure undoes
  a change, and only one that was not persisted. `RacyVaultSpecification` is
  the weaker promise that holds with several creators: it adds `Recreate`, an
  empty vault in the place of one that the creator did not see.
* **Repository** - `VaultRepository` for several processes. `create` is
  `create_check` (the existence test), then `create_write` or `create_locked`;
  `open` is `open_lock` then `open_load` or `open_fails`; a mutation is one
  action up to the call of `write_atomic` (it changes only the process's own
  memory), followed by the steps of the store: `write_replaces`,
  `directory_synced`, `write_returns` or `write_raises`. `LongLived` processes
  stay open after an operation; the others are commands of `cli.py`, which
  close. `Kill` and `PowerLoss` may come anywhere.
* **CounterHistory** - `Repository` with a record of the counters used.
* **Clipboard** - `copy_and_autoclear` call by call. `Interrupted` commands may
  receive a signal anywhere, all others only in the wait; `Unreliable` ones may
  meet a `pyperclip` error or SIGKILL.
* **Cli** - every command but `generate`. `at[p]` is the place in the command
  (`password`: the master password's prompt; `opening`; `body` and `prompt`:
  in the with-block; `leaving`; then, with the lock released, `copying` or
  `printing`), `told[p]` what the user learns: `ok`,
  `refused` ("Error:" or "Aborted."), `raised` (a traceback or Ctrl-C). A prompt
  and the call after it are one step, which the lock justifies: nothing else
  reaches this process's state in between. `start` keeps the existence test and
  the prompt apart, since anything may happen at that prompt.
* **PasswordGen** - `generate_password`: validation, one draw for each pool, the
  fill, the shuffle exchange by exchange. The `generate` command is this and a
  print.
* **StorageProofs**, **RepositoryProofs**, **CliProofs**, **VaultProofs**,
  **FileFormatProofs**, **EntriesProofs**, **ClipboardProofs**,
  **PasswordGenProofs** - theorems. **MC\*** - instances.

Definitions whose comment starts with "Mutant" are plausible bugs, used to show
that each property can fail; no specification uses them.

## What the runs check

Passing runs:

| Run | Shows | States |
|---|---|---|
| `storage` | `VaultNeverTorn`, `NoStrayTempFile`, `OwnTempStays`, `ImplementsAtomicStore` for two concurrent calls | 292 k |
| `vault` | `ImplementsSealedVault` against every mixture of parts; `SessionWiped` with interrupts in `save`, `change_password` and `close` | 155 k |
| `repository` | `LockIsSession`, `SessionIsCurrent`, `IdsUnique`, `AcknowledgedIsDurable`, `NeverBehind`, `ImplementsVaultSpec`, `SavingKeepsPassword`, `CounterMonotonic`, `WritesWhatIsShown`, and `OperationsEnd` under fairness | 171 k |
| `cli` | `HeldOnlyInside`, `OnlyCreateReplaces`, `RefusedChangesNothing`, `SuccessIsDurable`, `ChangesOnlyItsOwn`, and `CommandsEnd` under fairness | 393 k |
| `fileformat` | `RoundTrip`, `Canonical`, `ResizeRejected` | 254 k |
| `entries` | `MemoryIsBody`, `SavesEveryItem` | 1.2 k |
| `clipboard` | `DoneMeansGone`, `NeverUnattended`, and `SecretLeaves` under fairness | 230 |
| `passwordgen` | `PasswordMeetsPolicy`, and `CallsEnd` under fairness | 2.3 k |

Runs that find a violation, each a finding below: `repository_two_creators`,
`repository_counter`, `entries_error`, `clipboard_signal`.

Bounds, and why they are enough:

* `storage`: two writers, two values, four inodes: one the vault, one stale
  durable target, and a temporary file for each writer. Litter uses inodes up:
  when none is free, `mkstemp` cannot run, but the calls already begun do.
  `DirSyncWorks` is TRUE in the run, so that durability is claimed at all; with
  FALSE any call's sync may fail, and the theorems cover that as well.
* `vault`: two passwords, plaintexts and DEKs, three salts, `MaxFiles` = 5
  files, `MaxCounter` = 2, so that two vaults, saves after a password change,
  and the exhausted counter all occur. Salts and DEKs are drawn at most once
  each. The run does not check deadlock because it ends when `MaxFiles` is
  reached, which is the bound's doing and not the code's.
* `repository`: one long-lived process whose writes succeed, two processes that
  run commands and whose writes may fail, two passwords, two ids, two fields
  with two values, `MaxEntries` = 2 and `MaxCounter` = 3, so three changes by
  any of them and the refused fourth. Process `p2` alone creates: two creators
  are the subject of a violation run. A failed write leaves a session ahead of
  the file until it closes, which is the case `NeverBehind` is about; the
  theorems cover callers that go on from there. The ids are few, so collisions
  are the normal case.
* `cli`: two processes. Both run `init`, so that one meets the other's file or
  lock, and one can replace the other's vault (`OnlyCreateReplaces` says what
  that may do). The other commands are split between them: `p1` has `delete`,
  `update` and `list`, `p2` has `add`, `passwd`, `get` and `copy`, and only
  `p2`'s writes fail. With all commands for both, more than half a million
  states and their liveness graph do not fit into five minutes; the split still
  has every command against one that changes the file. Two processes that both
  delete or both add, and failing writes for both, are left to the theorems of
  `CliProofs`, which make no such restriction.
  One field with one value: `update` then cannot be told from a no-op by its
  data. `Repository!update_entry` keeps the fields that are not passed, by its
  definition; no property checks that they are kept (`VaultSpec!Update` allows
  any record under the same id). Two ids, `MaxEntries` = 2: the entry shown and another one.
* `fileformat`: the shortest file with the weakest costs and counter 0, and one
  with the highest costs, the last counter and a longer body; at most two places
  damaged, each byte to 0, 17 or 255, and a change of size counts as one. Two
  suffice to make a wrong length and a wrong size agree (17 is the length of the
  shortest body plus one). No deadlock check: damage is bounded.
* `entries`: every list of at most two items, each whole, with a number, a list
  or null for a field, without a required or an optional field, with an unknown
  one, or no object at all, under every version; and bodies that are not JSON,
  no object, or have no list. Two required fields stand for six.
* `passwordgen`: three categories, one of which `exclude_ambiguous` thins out
  and one of which it empties; `MIN_LENGTH` = 2 and `MAX_LENGTH` = 4 stand for 8
  and 256, so that lengths below, at and above the limits and below the number
  of categories occur. With the program's own character sets no category
  becomes empty and 8 exceeds the four categories: the instance also runs the
  tests of `pools` and `validate` that these values never trigger. No deadlock
  check: a call ends.
* `clipboard`: two commands with different secrets, repeated without limit, one
  of them exposed to everything; two user texts.

`MaxCounter` stands for 2^64 - 1. `CanSave` is the check in
`build_full_header`, so the model and the code refuse the same save.

Fairness. `Repository!Fairness` is weak fairness of a process's own next step
and of the directory's fsync: no step of the program waits for another process
(the lock is taken with `LOCK_NB`), so a running process reaches it. Nothing is
assumed of the user, of errors or of crashes. In `Clipboard` a command that runs
goes on, and `time.sleep` ends; nothing is assumed of the user or of signals.
`Cli` assumes the same of a command between two prompts as `Repository` of its
process, and nothing of prompts, of the wait of `copy`, of errors or of kills.
`PasswordGen` is sequential: its next step is taken.

## What is proved

For every number of processes, writers, commands, inodes, values, passwords,
ids, entries, bytes and draws, and for both values of `DirSyncWorks`. TLAPS
checks all leaves. Every safety property of a passing run is stated by a
theorem, with the hypotheses the table names; a hypothesis is a fact about a
constant, and each passing run's instance satisfies it.

| Module | Theorems | Hypothesis |
|---|---|---|
| StorageProofs | `TypeCorrect`, `NeverTorn`, `NoLitter`, `OwnTempCorrect`, `Refinement` | |
| RepositoryProofs | `TypeCorrect`, `LockCorrect`, `IdsCorrect` | |
| | `ShownCorrect`, `UsesStore` | |
| | `AcknowledgedCorrect`, `NeverBehindCorrect`, `CounterCorrect` | `HasFlock` |
| | `SessionCorrect`, `SavingCorrect`, `OnlyCreateCorrect` | `Careful` |
| | `CreateCorrect`, `VaultRefinement` | `Careful`, `OneCreator` |
| CliProofs | `Drives`, `HeldCorrect`, `RefusedCorrect` | |
| | `SuccessCorrect`, `ChangesCorrect`, `CommandsOnlyCreate` | `HasFlock` |
| | `CommandsRefinement` | `HasFlock`, `OneCreator` |
| VaultProofs | `TypeCorrect`, `WipedCorrect`, `SealedRefinement` | `~SessionsContinue` |
| FileFormatProofs | `RoundTripCorrect`, `CanonicalCorrect`, `ResizeCorrect` | |
| EntriesProofs | `MemoryCorrect`, `SavesCorrect` | |
| ClipboardProofs | `TypeCorrect`, `DoneCorrect` | |
| | `AttendedCorrect` | `Interrupted` within `Unreliable` |
| PasswordGenProofs | `PolicyMet` | |

The hypotheses. `HasFlock`: the platform has `fcntl`. `Careful`: that, and no
caller both lives on after an error and meets a failing write; the commands of
`cli.py` are of that kind, so `CommandsRefinement` does without it.
`OneCreator`: one process at most runs `create`; the run
`repository_two_creators` shows what happens otherwise. `~SessionsContinue`: a
caller drops its session after a `KeyboardInterrupt`. `Interrupted` within
`Unreliable`: a command that a signal may hit outside its wait is not among
those the property speaks of; `clipboard_signal` is the other case. Where the
model is false without the hypothesis, "Seen, without a run" says how.

The arguments, and why the properties alone are not inductive:

* **StorageProofs**. `VaultNeverTorn` says nothing of the temporary file that
  `os.replace` is about to publish. `StorageInv` adds what each program counter
  knows about its file (`CallInv`: from `write` on the cache has the data, from
  `fsync` on the medium has it too), that no two calls share one
  (`TempsDistinct`), that whatever a vault path names is complete and clean
  (`Published`), and that a name is never both (`NamesDisjoint`). The
  refinement maps each system call to one step of the register: `replace` is
  `Apply`, the directory's fsync `Persist` (or a stutter, if it fails), the rest
  of the body is a stutter.
* **RepositoryProofs**. `LockInv` is `TypeOK` and `LockIsSession` together: that
  a failed create releases the lock needs to know where the process is, and that
  only one write runs needs the lock. `SyncInv`: an applied write that is not in
  `unsynced` is on the medium. `WriteInv` ties the three copies of the data
  together during a write (the argument, the session, the file). `IdsInv` says
  of every copy of the entries, also those in memory and on the medium, what
  `IdsUnique` says of the file: any of them may become the file. `ChangeInv`:
  the data of a write that has not replaced the file yet is one change of the
  file as it is now, which only the lock keeps true; `CreateInv`: there is no
  file between a creator's check and its `os.replace`. With these, `Apply` maps
  to the operation of `VaultSpec` that the process is in, and every other step
  to a stutter, a persist or a power failure. `OnlyCreateCorrect` is the same
  argument without `CreateInv`: a create's `Apply` is then a `Recreate`.

  The results without `Careful` or the lock use other invariants, since memory
  and file part company there. `ShownInv` relates the copies inside one process
  only: the list, the plaintext of the session and the argument of the write
  under way agree, unless the counter is exhausted, when nothing can be written.
  `FileSteps` reduces every change of the file to a process's own replacement, a
  create or a power failure, so `ShownCorrect` needs no lock. `AheadInv` orders
  the copies by counter: the session is at or ahead of the file, with equal
  counters they are equal, and a write under way is strictly ahead. It is kept
  by the lock alone; after a failed write the session stays where it is and its
  next write is again ahead of the file.

  `UsesStore` closes the composition: the repository's variables `file`,
  `durFile` and the calls under way go through steps of `AtomicStore`, which
  `StorageProofs!Refinement` shows `write_atomic` to implement.
* **CliProofs**. `Drives` shows that every step of a command is a step of
  `Repository` or leaves it alone, so all of the above holds of the commands.
  `PlaceInv` ties the place a command has reached to its repository's program
  counter and to what it will say. `SuccessIsDurable` needs in addition that
  what will be reported is the file, for good, up to the release of the lock
  (`ToldInv`); once it is released another command may replace the file, and
  only that there was a change can be said of the message; `ChangesOnlyItsOwn`
  that the entry at a prompt is one of the session's (`SeenInv`) and that the
  data of a write is what was asked for, relative to the file as it is now
  (`DoesInv`). Both rest on the lock (`Apart`): no other process writes between
  a command's load and its close.
* **VaultProofs**. `FilesInv` says how every file was made and `SaltInv` that a
  salt stands for one wrap of one DEK, for one set of costs. The two make any
  mixture of parts that opens a file that was written: the wrap and the header
  give the salt, the salt the DEK, the DEK and the full header the body.
  `OpenInv` keeps a session's header and wrap those of a file while it is not
  interrupted, `BufferInv` counts its buffers.
* **FileFormatProofs**. `FieldsOf` reads the thirteen fields off a file that
  `serialize` made, as slices at the program's offsets; `JoinSlices` puts a file
  together again; `Pack16` to `Unpack64` invert the conversions of numbers.
  `ParseSerialize` and `SerializeParse` are the two directions, for every file.
  `DataInv` says which bytes of a damaged file are still those written, and that
  a file grows by two bytes at most, which keeps its length below the number
  that stands for all those from 2^31 on.
* **EntriesProofs**. `WrittenIsRead`: loading inverts saving, for lists of any
  length. The invariant needs that a body is one that was found or one that was
  written (`KnownBody`), also while no repository is open, and that the list in
  memory is one of entries, whatever the found fields were. `SavesCorrect` reads
  the items of the old body off that list (`WrittenBack`), then those of the new
  one off the list that was written.
* **ClipboardProofs**. A command that has not copied yet must not have its secret
  out, whatever the others copied (`OthersKeepOut`).
* **PasswordGenProofs**. `GenInv` counts the draws (one for each pool, then the
  fill, never more than the length) and keeps a character of every pool drawn
  from somewhere in the list; `Swap` moves it and does not lose it.

Assumptions on constants (`...Assumption` in each module) say that the markers
(`Nothing`, `Garbled`, `Zeroed`, ...) are not data, that bounds are naturals,
that `FileParts` are parts `serialize` takes, and that the list of a body is a
sequence. TLC evaluates them in the runs.

Only model-checked: `OperationsEnd`, `CommandsEnd`, `SecretLeaves` and
`CallsEnd`, since liveness under fairness is out of the prover's reach, and the
four violations, which are about single behaviours.

## Where docs and code disagree

Each is a run that TLC refutes; quotations and lines are in `PROJECT.json`.

1. `repository_two_creators` - `create` tests for the file before it takes the
   lock; a second create can replace the first one's vault. Known to
   `SECURITY_REVIEW.md` (R3), denied by the docstring.
2. `repository_counter` - the counter of a failed write is used again by the
   next session. The nonces are random, so this is about the stated rule.
3. `entries_error` - an item of a body that is no JSON object makes
   `deserialize_entries` raise `TypeError`; its docstring says
   `VaultFormatError` on any structural problem.
4. `clipboard_signal` - a signal between the copy and the try block, or in the
   finally clause, leaves the secret on the clipboard.

## Seen, without a run

Behaviour met while modelling that the docs know of, or that no caller in this
repository can bring about; each can be reproduced by changing a constant.

* `open_vault` does not wipe the DEK's buffer when the body then fails to
  authenticate (`vault.py:82`; `Vault!open_vault_raises`), nor does
  `VaultRepository.open` when the body cannot be parsed (`repository.py:73`).
* A `KeyboardInterrupt` inside `UnlockedVault.close` (`vault.py:228`,
  `Vault!close_interrupted`) leaves the plaintext, or both buffers, unwiped.
* `from_dict` drops fields it does not know and turns every other into text, null
  into `None` (`entries.py:49`): the next save makes that permanent.
* `SessionsContinue` TRUE (`vault`): a caller that survives a `KeyboardInterrupt`
  in `change_password` and then saves writes a file that no password opens, in
  four steps: create, open, interrupted change, save. All callers here close.
* A process both in `LongLived` and in `FailingWrites` (`repository`): after a
  failed `change_master_password` its next save installs the new password.
  `SECURITY_REVIEW.md` (R4) advises such callers to reopen. The commands close:
  `SavingKeepsPassword` holds for them. What a long-lived caller can rely on is
  `NeverBehind`, `CounterMonotonic` and `WritesWhatIsShown`, which are proved
  without `Careful`.
* `HasFlock` FALSE (`repository`): concurrent sessions lose updates. `locking.py`
  says so. `IdsUnique` and `WritesWhatIsShown` hold even so.
* `clear_if_unchanged` checks and clears in two calls: what the user copies
  between them is removed, although the repository's `README.md` says the clear
  "never clobbers something you copied in the meantime". No clipboard offers the
  two as one.

## What is not modelled

* Cryptographic strength, nonces and random numbers: symbolic, and drawn values
  never repeat. The wrong-length checks of `aead.py` cannot fail on the values
  the program builds.
* Timestamps of entries, file modes, option parsing, formatting, the wording of
  messages. `estimate_entropy_bits` (logarithms of rationals): that a weak
  password leads to a question is a choice in `Cli`.
* A vault body that opens but does not parse, in `Repository` and `Cli`: their
  plaintexts are typed. `Entries` has the error and `Repository!open_fails` the
  path it takes.
* `os.open` errors on the lock file; processes that fork or share a repository
  between threads (the code has neither).
* `errors.py` and the package marker have no behaviour of their own.

## Plan

Done: all parts modelled and checked as listed above, every safety property of a
passing run proved, and what still holds for callers that go on after a failed
write, for platforms without a lock and for several creators stated and proved.

Left, should the code change: a re-check under the lock in `create` would make
`OneCreator` unnecessary (`CreateInv` then follows from the lock); a `reload` for
long-lived callers would let `Careful` go.
