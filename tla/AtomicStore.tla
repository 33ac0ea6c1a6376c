---------------------------- MODULE AtomicStore ----------------------------
(***************************************************************************)
(* What storage.write_atomic promises its callers: the vault file is one   *)
(* register that every write replaces as a whole.  `val' is what a reader  *)
(* of the path sees now, `dur' what it would see after a power failure.    *)
(* A write that raised may or may not have taken effect; a write that      *)
(* returned normally has taken effect and, where no sync of the directory  *)
(* fails, survives a power failure.                                        *)
(***************************************************************************)

CONSTANTS
  Writers,       \* callers of write_atomic
  Nothing,       \* content of a path that names no file
  DirSyncWorks   \* does every sync of the directory succeed?

VARIABLES
  val,        \* the content the path shows to a reader
  dur,        \* the content that survives a power failure
  st,         \* st[w]: "idle", "pending" (call begun) or "applied" (replaced)
  arg,        \* arg[w]: the data w is writing, Nothing when idle
  unsynced,   \* writers in "applied" whose replacement may still be lost
  outcome     \* of the latest call to end: "returned" or "failed"

svars == <<val, dur, st, arg, unsynced, outcome>>

StoreInit(content) ==
  /\ val = content
  /\ dur = content
  /\ st = [w \in Writers |-> "idle"]
  /\ arg = [w \in Writers |-> Nothing]
  /\ unsynced = {}
  /\ outcome = "failed"

\* write_atomic(path, v) is called.
Begin(w, v) ==
  /\ st[w] = "idle"
  /\ st' = [st EXCEPT ![w] = "pending"]
  /\ arg' = [arg EXCEPT ![w] = v]
  /\ UNCHANGED <<val, dur, unsynced, outcome>>

\* The whole new content replaces the whole old one.
Apply(w) ==
  /\ st[w] = "pending"
  /\ st' = [st EXCEPT ![w] = "applied"]
  /\ val' = arg[w]
  /\ unsynced' = unsynced \cup {w}
  /\ UNCHANGED <<dur, arg, outcome>>

\* What readers see now becomes what survives a power failure.
Persist ==
  /\ dur' = val
  /\ unsynced' = {}
  /\ UNCHANGED <<val, st, arg, outcome>>

\* The bookkeeping of a call that is over, however it ended.
End(w) ==
  /\ st' = [st EXCEPT ![w] = "idle"]
  /\ arg' = [arg EXCEPT ![w] = Nothing]
  /\ unsynced' = unsynced \ {w}
  /\ UNCHANGED <<val, dur>>

\* Mutant: the call returns before the directory has been synced.
finishUnsynced(w) == st[w] = "applied" /\ End(w) /\ outcome' = "returned"

\* The call returns normally.
Finish(w) ==
  /\ st[w] = "applied"
  /\ DirSyncWorks => w \notin unsynced
  /\ End(w)
  /\ outcome' = "returned"

\* The call raises, or its process is killed: before or after the replacement.
Abandon(w) ==
  /\ st[w] # "idle"
  /\ End(w)
  /\ outcome' = "failed"

\* Power fails: every caller dies and the durable content is what is left.
PowerLoss ==
  /\ val' = dur
  /\ st' = [w \in Writers |-> "idle"]
  /\ arg' = [w \in Writers |-> Nothing]
  /\ unsynced' = {}
  /\ outcome' = "failed"
  /\ UNCHANGED dur

StoreNext(Values) ==
  \/ \E w \in Writers :
       \/ \E v \in Values : Begin(w, v)
       \/ Apply(w)
       \/ Finish(w)
       \/ Abandon(w)
  \/ Persist
  \/ PowerLoss
=============================================================================
