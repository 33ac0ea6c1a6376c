----------------------------- MODULE SealedBox -----------------------------
(***************************************************************************)
(* A vault file as the rest of the program may think of it: a sealed box   *)
(* that one password opens, showing its save counter and its plaintext.    *)
(* An unlocked vault is the box it would write back, so it is a box too.   *)
(* Module Vault shows that vault.py's envelope encryption keeps to this.   *)
(***************************************************************************)
EXTENDS Naturals

CONSTANT MaxCounter   \* the largest save counter the header can hold (2^64 - 1)

ASSUME MaxCounterAssumption == MaxCounter \in Nat

\* vault.create
NewBox(password, plaintext) ==
  [password |-> password, counter |-> 0, plaintext |-> plaintext]

\* Mutant: the last counter may be passed.
canSaveOnce(box) == box.counter <= MaxCounter

\* build_full_header refuses a counter out of the uint64 range.
CanSave(box) == box.counter < MaxCounter

\* UnlockedVault.save
SaveBox(box, plaintext) ==
  [box EXCEPT !.counter = @ + 1, !.plaintext = plaintext]

\* Mutant: a password change keeps the counter.
rekeySameCounter(box, password) == [box EXCEPT !.password = password]

\* UnlockedVault.change_password
RekeyBox(box, password) ==
  [box EXCEPT !.counter = @ + 1, !.password = password]
=============================================================================
