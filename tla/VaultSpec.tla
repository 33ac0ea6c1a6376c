----------------------------- MODULE VaultSpec -----------------------------
(***************************************************************************)
(* What the user is promised: one vault, a master password and a set of    *)
(* entries under unique ids, on which every command is one atomic change   *)
(* of the current content.  A change may be lost to a power failure until  *)
(* it has been persisted, and nothing else undoes it.                      *)
(***************************************************************************)
CONSTANTS Passwords, Ids, Records, Nothing

VARIABLES
  vault,     \* [password, entries: a function from some ids to records], or Nothing
  durable    \* the same as a power failure would leave it

Create ==
  /\ vault = Nothing
  /\ \E pw \in Passwords : vault' = [password |-> pw, entries |-> <<>>]

SetEntries(entries) == vault' = [vault EXCEPT !.entries = entries]

Add ==
  \E id \in Ids \ DOMAIN vault.entries, r \in Records :
    SetEntries([i \in DOMAIN vault.entries \cup {id} |->
                  IF i = id THEN r ELSE vault.entries[i]])

Update ==
  \E id \in DOMAIN vault.entries, r \in Records :
    SetEntries([vault.entries EXCEPT ![id] = r])

Delete ==
  \E id \in DOMAIN vault.entries :
    SetEntries([i \in DOMAIN vault.entries \ {id} |-> vault.entries[i]])

ChangePassword ==
  \E pw \in Passwords : vault' = [vault EXCEPT !.password = pw]

Change == vault # Nothing /\ (Add \/ Update \/ Delete \/ ChangePassword)

Persist == durable' = vault /\ UNCHANGED vault

PowerLoss == vault' = durable /\ UNCHANGED durable

VaultInit == vault = Nothing /\ durable = Nothing

VaultNext ==
  \/ (Create \/ Change) /\ UNCHANGED durable
  \/ Persist
  \/ PowerLoss

VaultSpecification == VaultInit /\ [][VaultNext]_<<vault, durable>>

\* A weaker promise: a create may replace a vault that it did not see.
Recreate ==
  /\ \E pw \in Passwords : vault' = [password |-> pw, entries |-> <<>>]
  /\ UNCHANGED durable

RacyVaultSpecification == VaultInit /\ [][VaultNext \/ Recreate]_<<vault, durable>>
=============================================================================
