------------------------------ MODULE Entries ------------------------------
(***************************************************************************)
(* entries.py: the JSON body of a vault, as a repository loads it on open  *)
(* and writes it back.  Nothing but the key protects the body, so any JSON *)
(* may be found in it that some version of the program wrote.              *)
(*                                                                         *)
(* A JSON value is a record with its type; text is what Python's str       *)
(* makes of it.  An object has fields, a list has items.  What is not JSON *)
(* has no type.                                                            *)
(***************************************************************************)
EXTENDS Naturals, Sequences, SequencesExt

CONSTANTS
  Bodies,       \* the bodies a vault may be found with
  Required,     \* the fields from_dict demands (all but notes)
  Texts,        \* what the user may type into a field, and the ids drawn
  MaxEntries    \* bound on the entries of a vault

-----------------------------------------------------------------------------
\* Python's view of a JSON value

NotJson == [type |-> "none", text |-> ""]   \* not UTF-8, or not JSON

str(v) == v.text
String(t) == [type |-> "string", text |-> t]
IsDict(v) == v.type = "object"
IsList(v) == v.type = "list"

\* v = 1 in Python, where 1.0 and True are 1 too.
IsSchemaVersion(v) == v.type # "string" /\ v.text \in {"1", "1.0", "True"}

-----------------------------------------------------------------------------
\* Entry

FieldNames == Required \cup {"notes"}

to_dict(e) ==
  [type |-> "object", text |-> "{...}", fields |-> [f \in FieldNames |-> String(e[f])]]

\* Mutant: a field that is missing is left empty.
missingIsEmpty(d) == IF IsDict(d) THEN "Entry" ELSE "TypeError"

\* How from_dict(d) ends: what is not a dict cannot be indexed by a string,
\* and the except clause is for KeyError only.
from_dict_outcome(d) ==
  IF ~IsDict(d) THEN "TypeError"
  ELSE IF Required \subseteq DOMAIN d.fields THEN "Entry" ELSE "VaultFormatError"

\* The entry it returns: each field as str makes it, no others.
from_dict(d) ==
  [f \in FieldNames |-> IF f \in DOMAIN d.fields THEN str(d.fields[f]) ELSE ""]

-----------------------------------------------------------------------------
\* The body

\* Mutant: the version of the schema is forgotten.
serializeWithoutVersion(es) ==
  [type |-> "object", text |-> "{...}", fields |->
     [entries |-> [type |-> "list", text |-> "[...]", items |-> [i \in DOMAIN es |-> to_dict(es[i])]]]]

serialize_entries(es) ==
  [type |-> "object", text |-> "{...}", fields |->
     [schema_version |-> [type |-> "number", text |-> "1"],
      entries |-> [type |-> "list", text |-> "[...]", items |-> [i \in DOMAIN es |-> to_dict(es[i])]]]]

ItemsOf(b) == b.fields["entries"].items

\* What deserialize_entries checks before it reads the items.
HasItems(b) ==
  /\ b # NotJson /\ IsDict(b)
  /\ {"entries", "schema_version"} \subseteq DOMAIN b.fields
  /\ IsSchemaVersion(b.fields["schema_version"])
  /\ IsList(b.fields["entries"])

\* The places of the items that from_dict refuses.
Refused(b) == {i \in DOMAIN ItemsOf(b) : from_dict_outcome(ItemsOf(b)[i]) # "Entry"}

\* How deserialize_entries(b) ends; the first item that fails decides.
deserialize_outcome(b) ==
  IF ~HasItems(b) THEN "VaultFormatError"
  ELSE IF Refused(b) = {} THEN "open"
  ELSE from_dict_outcome(ItemsOf(b)[Min(Refused(b))])

deserialize_entries(b) == [i \in DOMAIN ItemsOf(b) |-> from_dict(ItemsOf(b)[i])]

-----------------------------------------------------------------------------
\* A repository that loads the body, changes its entries and writes it back

\* The items of a list are a sequence.
ASSUME EntriesAssumption ==
  /\ "id" \in Required /\ "notes" \notin Required /\ MaxEntries \in Nat
  /\ \A b \in Bodies : HasItems(b) =>
       Len(ItemsOf(b)) \in Nat /\ DOMAIN ItemsOf(b) = 1 .. Len(ItemsOf(b))

VARIABLES
  body,       \* the vault's plaintext
  entries,    \* the repository's list, <<>> when there is none
  state       \* "closed", "open", or the error that open raised

vars == <<body, entries, state>>

Init == body \in Bodies /\ entries = <<>> /\ state = "closed"

\* VaultRepository.open up to the end of the constructor.
open ==
  /\ state # "open"
  /\ state' = deserialize_outcome(body)
  /\ entries' = IF state' = "open" THEN deserialize_entries(body) ELSE <<>>
  /\ UNCHANGED body

\* _persist, for the list that a mutation leaves.
Persist(es) ==
  /\ state = "open"
  /\ entries' = es
  /\ body' = serialize_entries(es)
  /\ UNCHANGED state

\* get_entry(id) finds the first entry with the id; a body may hold more.
Finds(i) == \A j \in 1 .. i - 1 : entries[j]["id"] # entries[i]["id"]

add_entry ==
  /\ Len(entries) < MaxEntries
  /\ \E e \in [FieldNames -> Texts] :
       /\ \A i \in DOMAIN entries : entries[i]["id"] # e["id"]
       /\ Persist(Append(entries, e))

update_entry ==
  \E i \in DOMAIN entries, f \in FieldNames \ {"id"}, t \in Texts :
    Finds(i) /\ Persist([entries EXCEPT ![i][f] = t])

delete_entry == \E i \in DOMAIN entries : Finds(i) /\ Persist(RemoveAt(entries, i))

close ==
  /\ state = "open"
  /\ state' = "closed" /\ entries' = <<>>
  /\ UNCHANGED body

Next == open \/ add_entry \/ update_entry \/ delete_entry \/ close

Spec == Init /\ [][Next]_vars

-----------------------------------------------------------------------------
\* Properties

\* Item new is item old as it was read: its known fields, as text.
SameItem(old, new) ==
  \A f \in FieldNames :
    new.fields[f] = String(IF f \in DOMAIN old.fields THEN str(old.fields[f]) ELSE "")

\* The items old, all readable, with one more, one less, or one of them
\* changed and its id kept.
OneItemChanges(old, new) ==
  /\ \A j \in 1 .. Len(old) : Required \subseteq DOMAIN old[j].fields
  /\ \/ /\ Len(new) = Len(old) + 1
        /\ \A j \in 1 .. Len(old) : SameItem(old[j], new[j])
     \/ /\ Len(new) = Len(old)
        /\ \E i \in 1 .. Len(old) :
             /\ new[i].fields["id"] = String(str(old[i].fields["id"]))
             /\ \A j \in (1 .. Len(old)) \ {i} : SameItem(old[j], new[j])
     \/ /\ Len(new) = Len(old) - 1
        /\ \E i \in 1 .. Len(old) : \A j \in 1 .. Len(new) :
             SameItem(old[IF j < i THEN j ELSE j + 1], new[j])

(***************************************************************************)
(* A save writes back every item that the body held before it, in order    *)
(* and with the text of each field the program knows, whoever wrote that   *)
(* body, but for the one item that is updated, which keeps its id, or      *)
(* deleted; and no body is written over in which a required field was      *)
(* missing.  Behaviour: from_dict refuses what it cannot read, and one     *)
(* entry that was skipped or filled up on open would be lost for good by   *)
(* the next save of another.  (Fields that the program does not know, and  *)
(* the types of those it does, are lost.)                                  *)
(***************************************************************************)
SavesEveryItem == [][body' # body => OneItemChanges(ItemsOf(body), ItemsOf(body'))]_vars

(***************************************************************************)
(* What a session wrote the next one reads: while a repository is open,    *)
(* loading the body again would give the list in memory, whatever the      *)
(* fields' types were when it was first loaded.  Behaviour: from_dict      *)
(* turns every field into text, and to_dict writes text.                   *)
(***************************************************************************)
MemoryIsBody ==
  state = "open" => deserialize_outcome(body) = "open" /\ deserialize_entries(body) = entries

(***************************************************************************)
(* Every structural problem of a body is a VaultFormatError.  Behaviour:   *)
(* "Raises VaultFormatError on any structural problem"                     *)
(* (deserialize_entries).                                                  *)
(***************************************************************************)
OnlyFormatErrors == state \in {"closed", "open", "VaultFormatError"}
=============================================================================
