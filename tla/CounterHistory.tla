--------------------------- MODULE CounterHistory ---------------------------
(* The repository with a record of the save counters that bodies have been *)
(* written with since the vault was created.                               *)
EXTENDS MCRepository

VARIABLE used   \* history: the counters passed to write_atomic

Begins(p) == st[p] = "idle" /\ st'[p] = "pending"

\* A create starts a new vault, with a DEK and counters of its own.
Remember ==
  used' = IF \E p \in Procs : Begins(p) /\ pc'[p] = "creating"
          THEN {0}
          ELSE used \cup {arg'[p].counter : p \in {q \in Procs : Begins(q)}}

HistorySpec ==
  /\ Init /\ used = {}
  /\ [][Next /\ Remember]_<<vars, used>>

(***************************************************************************)
(* No write uses a counter that an earlier write of the same vault used.   *)
(* Behaviour: "We never write a body with a counter we have already used   *)
(* in this vault's lifetime" (DESIGN.md).                                  *)
(***************************************************************************)
CounterNeverReused ==
  [][\A p \in Procs : Begins(p) /\ pc'[p] # "creating" => arg'[p].counter \notin used]_<<vars, used>>
=============================================================================
