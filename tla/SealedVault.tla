---------------------------- MODULE SealedVault ----------------------------
(***************************************************************************)
(* What vault.py promises: whatever files it is given, a session can only  *)
(* be opened on a box that was written, with that box's password, and      *)
(* shows that box's plaintext; every file written is such a box.           *)
(***************************************************************************)
EXTENDS SealedBox

CONSTANTS Passwords, Plaintexts, Nothing

VARIABLES
  box,     \* the open session's box, Nothing when no session is open
  boxes    \* the boxes written so far

SealedInit == box = Nothing /\ boxes = {}

Create(pw, pt) ==
  /\ boxes' = boxes \cup {NewBox(pw, pt)}
  /\ UNCHANGED box

Open ==
  /\ box = Nothing
  /\ box' \in boxes
  /\ UNCHANGED boxes

\* The session moves on to a box with a higher counter, which it writes.
Write(new) ==
  /\ box' = new
  /\ boxes' = boxes \cup {new}

Save(pt) == box # Nothing /\ CanSave(box) /\ Write(SaveBox(box, pt))

ChangePassword(pw) == box # Nothing /\ CanSave(box) /\ Write(RekeyBox(box, pw))

Close == box' = Nothing /\ UNCHANGED boxes

SealedNext ==
  \/ \E pw \in Passwords, pt \in Plaintexts : Create(pw, pt)
  \/ Open
  \/ \E pt \in Plaintexts : Save(pt)
  \/ \E pw \in Passwords : ChangePassword(pw)
  \/ Close

SealedSpec == SealedInit /\ [][SealedNext]_<<box, boxes>>
=============================================================================
