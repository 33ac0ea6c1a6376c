--------------------------- MODULE ClipboardProofs ---------------------------
(***************************************************************************)
(* For any number of overlapping copy commands: a command that ended with  *)
(* a result has not left its secret behind, and a secret is never on the   *)
(* clipboard without a command that will clear it.                         *)
(*                                                                         *)
(* What has to be kept besides the properties: a command that has not yet  *)
(* copied has no secret there either, whatever the others copied           *)
(* (OthersKeepOut).                                                        *)
(***************************************************************************)
EXTENDS Clipboard, TLAPS

\* Of the commands that nothing but the wait may interrupt: they are running or
\* have ended with a result, and only a running one has its secret out.
OthersKeepOut ==
  \A c \in Commands \ (Unreliable \cup Interrupted) :
    /\ pc[c] \in Holding \cup {"copy", "done"}
    /\ pc[c] = "copy" => clip # SecretOf[c]

ClipInv == TypeOK /\ DoneMeansGone /\ OthersKeepOut

\* At the start the clipboard holds what the user copied, and nothing runs.
LEMMA ClipInit == Init => ClipInv
BY ClipboardAssumption
   DEF Init, ClipInv, TypeOK, DoneMeansGone, OthersKeepOut, PCs, Ended, Holding

\* Every call, signal, failure and copy by the user keeps the invariant.
LEMMA ClipStep == ClipInv /\ [Next]_vars => ClipInv'
<1> SUFFICES ASSUME ClipInv, [Next]_vars PROVE ClipInv'
  OBVIOUS
<1> USE ClipboardAssumption
    DEF ClipInv, TypeOK, DoneMeansGone, OthersKeepOut, PCs, Ended, Holding, Goto
<1>1. ASSUME NEW c \in Commands, start(c) PROVE ClipInv'
  BY <1>1 DEF start
<1>2. ASSUME NEW c \in Commands, copy(c) PROVE ClipInv'
  BY <1>2 DEF copy
<1>3. ASSUME NEW c \in Commands, on_copied(c) \/ sleep_ends(c) \/ sleep_interrupted(c)
      PROVE  ClipInv'
  BY <1>3 DEF on_copied, sleep_ends, sleep_interrupted
<1>4. ASSUME NEW c \in Commands, paste_other(c) \/ paste_same(c) PROVE ClipInv'
  BY <1>4 DEF paste_other, paste_same
<1>5. ASSUME NEW c \in Commands, clear(c) PROVE ClipInv'
  BY <1>5 DEF clear
<1>6. ASSUME NEW c \in Commands, interrupted(c) PROVE ClipInv'
  <2>1. clip' \in {clip, SecretOf[c], Empty} /\ c \in Interrupted
    BY <1>6 DEF interrupted
  <2>2. pc' = [pc EXCEPT ![c] = "aborted"]
    BY <1>6 DEF interrupted
  <2> QED
    BY <2>1, <2>2
<1>7. ASSUME NEW c \in Commands, unavailable(c) \/ Kill(c) PROVE ClipInv'
  BY <1>7 DEF unavailable, Kill
<1>8. CASE UserCopies
  BY <1>8 DEF UserCopies
<1>9. CASE UNCHANGED vars
  BY <1>9 DEF vars
<1> HIDE DEF ClipInv
<1> QED
  BY <1>1, <1>2, <1>3, <1>4, <1>5, <1>6, <1>7, <1>8, <1>9 DEF Next, Continue

\* The invariant holds always; fairness is not needed for it.
LEMMA ClipInvariant == Spec => []ClipInv
BY ClipInit, ClipStep, PTL DEF Spec

\* The clipboard and the commands keep their types.
THEOREM TypeCorrect == Spec => []TypeOK
<1>1. ClipInv => TypeOK
  BY DEF ClipInv
<1> QED
  BY <1>1, ClipInvariant, PTL

\* A command that reports a result has not left its secret behind.
THEOREM DoneCorrect == Spec => []DoneMeansGone
<1>1. ClipInv => DoneMeansGone
  BY DEF ClipInv
<1> QED
  BY <1>1, ClipInvariant, PTL

\* Where a signal only reaches commands about which nothing is promised, or
\* commands in their wait, a secret on the clipboard is attended.  (A signal at
\* any other moment may leave it: the run clipboard_signal.)
THEOREM AttendedCorrect == Interrupted \subseteq Unreliable => (Spec => []NeverUnattended)
<1> SUFFICES ASSUME Interrupted \subseteq Unreliable PROVE Spec => []NeverUnattended
  OBVIOUS
<1>1. ClipInv => NeverUnattended
  BY DEF ClipInv, DoneMeansGone, OthersKeepOut, NeverUnattended
<1> QED
  BY <1>1, ClipInvariant, PTL
==============================================================================
