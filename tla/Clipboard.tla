----------------------------- MODULE Clipboard -----------------------------
(***************************************************************************)
(* clipboard.copy_and_autoclear as the copy command of cli.py runs it, for *)
(* several commands and a user who share one clipboard.  The command has   *)
(* closed the vault, and so released its lock, before it copies: commands  *)
(* may overlap.  SIGINT, and SIGTERM by the command's handler, raise       *)
(* KeyboardInterrupt between any two calls.                                *)
(***************************************************************************)
CONSTANTS
  Commands,         \* processes that run the copy command
  SecretOf,         \* SecretOf[c]: the password c copies
  UserTexts,        \* what the user copies meanwhile
  Empty,            \* the empty string
  Interrupted,      \* those a signal may reach at any time, not only in the wait
  Unreliable        \* those whose pyperclip may raise, or that SIGKILL may end

ASSUME ClipboardAssumption ==
  /\ Interrupted \subseteq Commands /\ Unreliable \subseteq Commands
  /\ Empty \notin UserTexts
  /\ \A c \in Commands : SecretOf[c] \notin UserTexts \cup {Empty}
  /\ \A c, d \in Commands : SecretOf[c] = SecretOf[d] => c = d

VARIABLES
  clip,   \* what the system clipboard holds
  pc      \* pc[c]: the call c makes next, or how c's latest run ended

vars == <<clip, pc>>

\* The calls from the copy of the secret to the end of the clear.
Holding == {"on_copied", "sleep", "paste", "clear"}
\* How a run ends: with a result, with ClipboardUnavailableError, with
\* KeyboardInterrupt, or killed.
Ended == {"done", "unavailable", "aborted", "killed"}
PCs == Holding \cup Ended \cup {"copy"}

Init ==
  /\ clip \in UserTexts \cup {Empty}
  /\ pc = [c \in Commands |-> "done"]

Goto(c, from, to) ==
  /\ pc[c] \in from
  /\ pc' = [pc EXCEPT ![c] = to]

\* The user runs the copy command.
start(c) == Goto(c, Ended, "copy") /\ UNCHANGED clip

\* backend.copy(secret)
copy(c) == Goto(c, {"copy"}, "on_copied") /\ clip' = SecretOf[c]

\* The announcement, before the try block.
on_copied(c) == Goto(c, {"on_copied"}, "sleep") /\ UNCHANGED clip

\* Mutant: the wait starts again.
sleepAgain(c) == Goto(c, {"sleep"}, "sleep") /\ UNCHANGED clip

\* The timeout is over.
sleep_ends(c) == Goto(c, {"sleep"}, "paste") /\ UNCHANGED clip

\* Mutant: no except clause around the sleep, no finally.
sleepAborted(c) == Goto(c, {"sleep"}, "aborted") /\ UNCHANGED clip

\* KeyboardInterrupt or SystemExit in the wait: the finally clause is next.
sleep_interrupted(c) == Goto(c, {"sleep"}, "paste") /\ UNCHANGED clip

\* Mutant: the clear is skipped although the secret is still there.
pasteKeepsSame(c) ==
  /\ clip = SecretOf[c]
  /\ Goto(c, {"paste"}, "done")
  /\ UNCHANGED clip

\* clear_if_unchanged: the clipboard has changed and is left alone.
paste_other(c) ==
  /\ clip # SecretOf[c]
  /\ Goto(c, {"paste"}, "done")
  /\ UNCHANGED clip

\* clear_if_unchanged: it still holds the secret.
paste_same(c) ==
  /\ clip = SecretOf[c]
  /\ Goto(c, {"paste"}, "clear")
  /\ UNCHANGED clip

\* Mutant: the text "None" is copied.
clearToNone(c) == Goto(c, {"clear"}, "done") /\ clip' = "None"

\* backend.copy("")
clear(c) == Goto(c, {"clear"}, "done") /\ clip' = Empty

\* KeyboardInterrupt outside the wait ends the command; the call it cuts
\* short may have had its effect.
interrupted(c) ==
  /\ c \in Interrupted
  /\ Goto(c, {"copy", "on_copied", "paste", "clear"}, "aborted")
  /\ \/ UNCHANGED clip
     \/ pc[c] = "copy" /\ clip' = SecretOf[c]
     \/ pc[c] = "clear" /\ clip' = Empty

\* The backend raises; the command reports that there is no clipboard.
unavailable(c) ==
  /\ c \in Unreliable
  /\ Goto(c, {"copy", "paste", "clear"}, "unavailable")
  /\ UNCHANGED clip

Kill(c) ==
  /\ c \in Unreliable
  /\ Goto(c, PCs \ Ended, "killed")
  /\ UNCHANGED clip

UserCopies == clip' \in UserTexts /\ UNCHANGED pc

Continue(c) ==
  copy(c) \/ on_copied(c) \/ sleep_ends(c) \/ paste_other(c) \/ paste_same(c) \/ clear(c)

Next ==
  \/ \E c \in Commands :
       start(c) \/ Continue(c) \/ sleep_interrupted(c) \/ interrupted(c) \/ unavailable(c) \/ Kill(c)
  \/ UserCopies

\* A command that runs goes on, and its sleep ends; nothing makes the user
\* start one, copy anything or send a signal.
Spec == Init /\ [][Next]_vars /\ \A c \in Commands : WF_vars(Continue(c))

-----------------------------------------------------------------------------
\* Properties

(***************************************************************************)
(* The variables have their types.                                         *)
(***************************************************************************)
TypeOK ==
  /\ clip \in UserTexts \cup {Empty} \cup {SecretOf[c] : c \in Commands}
  /\ pc \in [Commands -> PCs]

(***************************************************************************)
(* A command that ended with a result ("Clipboard cleared", or "changed    *)
(* since copy; left it untouched") has not left its secret behind, however *)
(* commands, the user, signals and failures interleave.                    *)
(***************************************************************************)
DoneMeansGone == \A c \in Commands : pc[c] = "done" => clip # SecretOf[c]

(***************************************************************************)
(* While a secret is on the clipboard, its command is there to clear it.   *)
(* Behaviour: copy "clears it after a timeout (default 20 s), on Ctrl-C,   *)
(* or on SIGTERM" (README.md).  Nothing is promised for a command that is  *)
(* killed or has no clipboard.                                             *)
(***************************************************************************)
NeverUnattended ==
  \A c \in Commands \ Unreliable : clip = SecretOf[c] => pc[c] \in Holding

(***************************************************************************)
(* A secret that was copied leaves the clipboard, whatever other commands  *)
(* and the user do meanwhile.                                              *)
(***************************************************************************)
SecretLeaves == \A c \in Commands \ Unreliable : clip = SecretOf[c] ~> clip # SecretOf[c]
=============================================================================
