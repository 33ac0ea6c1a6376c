--------------------------- MODULE EntriesProofs ---------------------------
(***************************************************************************)
(* What a session wrote the next one reads, and a save writes back every   *)
(* item it has read, for bodies of any number of items and any fields.     *)
(*                                                                         *)
(* The body is one that was found or one that serialize_entries made; for  *)
(* the second kind WrittenIsRead shows that loading is the inverse of      *)
(* saving, and from_dict makes text of whatever the first kind holds, so   *)
(* that it too is a list of entries.                                       *)
(***************************************************************************)
EXTENDS Entries, SequenceTheorems, TLAPS

\* What a field of an entry may hold: what the user typed, what str makes of a
\* field that was found in a body, or nothing.
TextsIn(b) ==
  UNION {{str(ItemsOf(b)[i].fields[f]) : f \in DOMAIN ItemsOf(b)[i].fields} : i \in DOMAIN ItemsOf(b)}
Text == Texts \cup {""} \cup UNION {TextsIn(b) : b \in Bodies}

Entry == [FieldNames -> Text]

-----------------------------------------------------------------------------
\* The body

\* A list of entries is written as a body that has items, one for each.
LEMMA Serialized ==
  ASSUME NEW es \in Seq(Entry)
  PROVE  /\ HasItems(serialize_entries(es))
         /\ ItemsOf(serialize_entries(es)) = [i \in 1 .. Len(es) |-> to_dict(es[i])]
<1> DEFINE b == serialize_entries(es)
<1>1. /\ b.type = "object" /\ DOMAIN b.fields = {"schema_version", "entries"}
      /\ b.fields["schema_version"] = [type |-> "number", text |-> "1"]
  BY DEF serialize_entries
<1>2. b.fields["entries"] =
        [type |-> "list", text |-> "[...]", items |-> [i \in DOMAIN es |-> to_dict(es[i])]]
  BY DEF serialize_entries
<1>3. b # NotJson
  <2>1. NotJson.type = "none"
    BY DEF NotJson
  <2> HIDE DEF b
  <2> QED
    BY <1>1, <2>1
<1>4. IsSchemaVersion(b.fields["schema_version"]) /\ IsList(b.fields["entries"])
  BY <1>1, <1>2 DEF IsSchemaVersion, IsList
<1>5. DOMAIN es = 1 .. Len(es)
  OBVIOUS
<1> QED
  BY <1>1, <1>2, <1>3, <1>4, <1>5 DEF HasItems, IsDict, ItemsOf

\* What was written is read back as it was.
LEMMA WrittenIsRead ==
  ASSUME NEW es \in Seq(Entry)
  PROVE  /\ deserialize_outcome(serialize_entries(es)) = "open"
         /\ deserialize_entries(serialize_entries(es)) = es
<1> DEFINE b == serialize_entries(es)
<1>1. HasItems(b) /\ ItemsOf(b) = [i \in 1 .. Len(es) |-> to_dict(es[i])]
  BY Serialized
<1>2. DOMAIN ItemsOf(b) = 1 .. Len(es)
  BY <1>1
<1>3. \A i \in 1 .. Len(es) : es[i] \in Entry /\ ItemsOf(b)[i] = to_dict(es[i])
  BY <1>1, ElementOfSeq
<1>4. ASSUME NEW e \in Entry
      PROVE  from_dict_outcome(to_dict(e)) = "Entry" /\ from_dict(to_dict(e)) = e
  <2> DEFINE d == to_dict(e)
  <2>1. IsDict(d) /\ DOMAIN d.fields = FieldNames /\ \A f \in FieldNames : str(d.fields[f]) = e[f]
    BY DEF to_dict, IsDict, String, str
  <2> HIDE DEF d
  <2>2. from_dict_outcome(d) = "Entry"
    BY <2>1 DEF from_dict_outcome, FieldNames
  <2>3. from_dict(d) = [f \in FieldNames |-> e[f]]
    BY <2>1 DEF from_dict
  <2>4. e = [f \in FieldNames |-> e[f]]
    BY DEF Entry
  <2> QED
    BY <2>2, <2>3, <2>4 DEF d
<1> HIDE DEF b
<1>5. Refused(b) = {}
  BY <1>2, <1>3, <1>4 DEF Refused
<1>6. deserialize_outcome(b) = "open"
  BY <1>1, <1>5 DEF deserialize_outcome
<1>7. deserialize_entries(b) = [i \in 1 .. Len(es) |-> es[i]]
  BY <1>2, <1>3, <1>4 DEF deserialize_entries
<1>8. es = [i \in 1 .. Len(es) |-> es[i]]
  OBVIOUS
<1> QED
  BY <1>6, <1>7, <1>8 DEF b

\* A body that open accepts has items, all of which from_dict takes.
LEMMA Accepted ==
  ASSUME NEW b, deserialize_outcome(b) = "open"
  PROVE  HasItems(b) /\ \A i \in DOMAIN ItemsOf(b) : from_dict_outcome(ItemsOf(b)[i]) = "Entry"
<1>1. HasItems(b)
  BY DEF deserialize_outcome
<1>2. \A d : from_dict_outcome(d) \in {"Entry", "TypeError", "VaultFormatError"}
  BY DEF from_dict_outcome
<1>3. Refused(b) = {}
  BY <1>1, <1>2 DEF deserialize_outcome
<1> QED
  BY <1>1, <1>3 DEF Refused

-----------------------------------------------------------------------------
\* A repository

\* Every body that a vault may hold: found, or written.
KnownBody == body \in Bodies \/ \E es \in Seq(Entry) : body = serialize_entries(es)

EntriesInv ==
  /\ KnownBody
  /\ state = "open" => entries \in Seq(Entry)
  /\ MemoryIsBody

\* Whatever was found in the body, what open loads is a list of entries, one
\* for each item.
LEMMA Loaded ==
  ASSUME KnownBody, deserialize_outcome(body) = "open"
  PROVE  /\ deserialize_entries(body) \in Seq(Entry)
         /\ Len(ItemsOf(body)) \in Nat /\ DOMAIN ItemsOf(body) = 1 .. Len(ItemsOf(body))
         /\ Len(deserialize_entries(body)) = Len(ItemsOf(body))
<1> DEFINE items == ItemsOf(body)
           n == Len(items)
<1>1. HasItems(body) /\ \A i \in DOMAIN items : from_dict_outcome(items[i]) = "Entry"
  BY Accepted
<1>2. CASE body \in Bodies
  <2>1. n \in Nat /\ DOMAIN items = 1 .. n
    BY <1>1, <1>2, EntriesAssumption
  <2>2. \A i \in 1 .. n : \A f \in DOMAIN items[i].fields : str(items[i].fields[f]) \in Text
    <3>1. \A i \in 1 .. n : \A f \in DOMAIN items[i].fields : str(items[i].fields[f]) \in TextsIn(body)
      BY <2>1 DEF TextsIn
    <3> QED
      BY <1>2, <3>1 DEF Text
  <2> HIDE DEF items, n
  <2>3. ASSUME NEW i \in 1 .. n PROVE from_dict(items[i]) \in Entry
    <3> DEFINE d == items[i]
               text(f) == IF f \in DOMAIN d.fields THEN str(d.fields[f]) ELSE ""
    <3>1. "" \in Text
      BY DEF Text
    <3>2. \A f \in FieldNames : text(f) \in Text
      BY <2>2, <3>1
    <3>3. from_dict(d) = [f \in FieldNames |-> text(f)]
      BY DEF from_dict
    <3> HIDE DEF text, d
    <3>4. from_dict(d) \in Entry
      BY <3>2, <3>3 DEF Entry
    <3> QED
      BY <3>4 DEF d
  <2>4. deserialize_entries(body) = [i \in 1 .. n |-> from_dict(items[i])]
    BY <2>1 DEF deserialize_entries, items
  <2> DEFINE es == deserialize_entries(body)
  <2>5. es \in [1 .. n -> Entry]
    BY <2>3, <2>4
  <2> HIDE DEF es
  <2>6. es \in Seq(Entry) /\ Len(es) = n
    BY <2>1, <2>5
  <2> QED
    BY <2>1, <2>6 DEF items, n, es
<1>3. CASE \E es \in Seq(Entry) : body = serialize_entries(es)
  <2>1. PICK es \in Seq(Entry) : body = serialize_entries(es)
    BY <1>3
  <2>2. deserialize_entries(body) = es
    BY <2>1, WrittenIsRead
  <2>3. items = [i \in 1 .. Len(es) |-> to_dict(es[i])]
    BY <2>1, Serialized
  <2> HIDE DEF items
  <2>4. Len(es) \in Nat
    OBVIOUS
  <2>5. DOMAIN items = 1 .. Len(es) /\ n = Len(es)
    BY <2>3, <2>4
  <2> QED
    BY <2>2, <2>4, <2>5 DEF items
<1> QED
  BY <1>2, <1>3 DEF KnownBody

\* MemoryIsBody, with what it rests on, holds in every state.
LEMMA EntriesInvariant == Spec => []EntriesInv
<1>1. Init => EntriesInv
  BY DEF Init, EntriesInv, KnownBody, MemoryIsBody
<1>2. EntriesInv /\ [Next]_vars => EntriesInv'
  <2> SUFFICES ASSUME EntriesInv, [Next]_vars PROVE EntriesInv'
    OBVIOUS
  <2>1. ASSUME NEW es \in Seq(Entry), Persist(es) PROVE EntriesInv'
    <3>1. state' = state /\ state = "open" /\ entries' = es /\ body' = serialize_entries(es)
      BY <2>1 DEF Persist
    <3>2. deserialize_outcome(body') = "open" /\ deserialize_entries(body') = entries'
      BY <3>1, WrittenIsRead
    <3> QED
      BY <3>1, <3>2 DEF EntriesInv, KnownBody, MemoryIsBody
  <2>2. CASE open
    <3>1. /\ body' = body /\ state' = deserialize_outcome(body)
          /\ state' = "open" => entries' = deserialize_entries(body)
      BY <2>2 DEF open
    <3>2. state' = "open" => deserialize_entries(body) \in Seq(Entry)
      BY <3>1, Loaded DEF EntriesInv
    <3> QED
      BY <3>1, <3>2 DEF EntriesInv, KnownBody, MemoryIsBody
  <2>3. CASE add_entry
    <3>1. PICK e \in [FieldNames -> Texts] : Persist(Append(entries, e))
      BY <2>3 DEF add_entry
    <3>2. entries \in Seq(Entry) /\ e \in Entry
      BY <3>1 DEF EntriesInv, Persist, Entry, Text
    <3>3. Append(entries, e) \in Seq(Entry)
      BY <3>2
    <3> QED
      BY <2>1, <3>1, <3>3
  <2>4. CASE update_entry
    <3>1. PICK i \in DOMAIN entries, f \in FieldNames \ {"id"}, t \in Texts :
            Persist([entries EXCEPT ![i][f] = t])
      BY <2>4 DEF update_entry
    <3>2. entries \in Seq(Entry) /\ t \in Text
      BY <3>1 DEF EntriesInv, Persist, Text
    <3>3. i \in 1 .. Len(entries) /\ entries[i] \in Entry
      BY <3>2
    <3>4. [entries[i] EXCEPT ![f] = t] \in Entry
      BY <3>2, <3>3 DEF Entry
    <3>5. [entries EXCEPT ![i] = [entries[i] EXCEPT ![f] = t]] \in Seq(Entry)
      BY <3>2, <3>3, <3>4
    <3>6. [entries EXCEPT ![i][f] = t] \in Seq(Entry)
      BY <3>5
    <3> QED
      BY <2>1, <3>1, <3>6
  <2>5. CASE delete_entry
    <3>1. PICK i \in DOMAIN entries : Persist(RemoveAt(entries, i))
      BY <2>5 DEF delete_entry
    <3>2. entries \in Seq(Entry)
      BY <3>1 DEF EntriesInv, Persist
    <3>3. i \in 1 .. Len(entries) /\ Len(entries) \in Nat
      BY <3>2
    <3>4. RemoveAt(entries, i) \in Seq(Entry)
      <4>1. SubSeq(entries, 1, i - 1) \in Seq(Entry)
        BY <3>2, <3>3
      <4>2. SubSeq(entries, i + 1, Len(entries)) \in Seq(Entry)
        BY <3>2, <3>3
      <4>3. RemoveAt(entries, i) = SubSeq(entries, 1, i - 1) \o SubSeq(entries, i + 1, Len(entries))
        BY DEF RemoveAt
      <4> QED
        BY <4>1, <4>2, <4>3, ConcatProperties
    <3> QED
      BY <2>1, <3>1, <3>4
  <2>6. CASE close
    BY <2>6 DEF close, EntriesInv, KnownBody, MemoryIsBody
  <2>7. CASE UNCHANGED vars
    BY <2>7 DEF vars, EntriesInv, KnownBody, MemoryIsBody
  <2> QED
    BY <2>2, <2>3, <2>4, <2>5, <2>6, <2>7 DEF Next
<1> QED
  BY <1>1, <1>2, PTL DEF Spec

(***************************************************************************)
(* While a repository is open, loading its body again would give the list  *)
(* in memory: serialize_entries, from_dict and to_dict lose nothing that   *)
(* a session has (MemoryIsBody).                                           *)
(***************************************************************************)
THEOREM MemoryCorrect == Spec => []MemoryIsBody
<1>1. EntriesInv => MemoryIsBody
  BY DEF EntriesInv
<1> QED
  BY <1>1, EntriesInvariant, PTL

-----------------------------------------------------------------------------
\* What a save writes back

\* RemoveAt takes out one element and keeps the others in order.
LEMMA RemoveAtProperties ==
  ASSUME NEW S, NEW s \in Seq(S), NEW i \in 1 .. Len(s)
  PROVE  /\ RemoveAt(s, i) \in Seq(S)
         /\ Len(RemoveAt(s, i)) = Len(s) - 1
         /\ \A j \in 1 .. Len(s) - 1 : RemoveAt(s, i)[j] = IF j < i THEN s[j] ELSE s[j + 1]
<1> DEFINE before == SubSeq(s, 1, i - 1)
           after == SubSeq(s, i + 1, Len(s))
<1>1. /\ before \in Seq(S) /\ Len(before) = i - 1
      /\ \A j \in 1 .. i - 1 : before[j] = s[j]
  BY SubSeqProperties
<1>2. /\ after \in Seq(S) /\ Len(after) = Len(s) - i
      /\ \A j \in 1 .. Len(s) - i : after[j] = s[i + j]
  BY SubSeqProperties
<1>3. RemoveAt(s, i) = before \o after
  BY DEF RemoveAt
<1> HIDE DEF before, after
<1>4. /\ before \o after \in Seq(S) /\ Len(before \o after) = Len(before) + Len(after)
      /\ \A j \in 1 .. Len(before) + Len(after) :
           (before \o after)[j] = IF j <= Len(before) THEN before[j] ELSE after[j - Len(before)]
  BY <1>1, <1>2, ConcatProperties
<1>5. Len(s) \in Nat
  OBVIOUS
<1>6. ASSUME NEW j \in 1 .. Len(s) - 1
      PROVE  (before \o after)[j] = IF j < i THEN s[j] ELSE s[j + 1]
  <2>1. CASE j < i
    BY <1>1, <1>2, <1>4, <1>5, <2>1
  <2>2. CASE ~(j < i)
    <3>1. after[j - (i - 1)] = s[i + (j - (i - 1))] /\ i + (j - (i - 1)) = j + 1
      BY <1>2, <1>5, <2>2
    <3> QED
      BY <1>1, <1>2, <1>4, <1>5, <2>2, <3>1
  <2> QED
    BY <2>1, <2>2
<1> QED
  BY <1>1, <1>2, <1>3, <1>4, <1>5, <1>6

\* An entry in memory is its item of the body, and is written as it.
LEMMA WrittenBack ==
  ASSUME EntriesInv, state = "open"
  PROVE  /\ Len(ItemsOf(body)) = Len(entries) /\ entries \in Seq(Entry)
         /\ \A j \in 1 .. Len(entries) :
              /\ Required \subseteq DOMAIN ItemsOf(body)[j].fields
              /\ SameItem(ItemsOf(body)[j], to_dict(entries[j]))
              /\ entries[j]["id"] = str(ItemsOf(body)[j].fields["id"])
<1> DEFINE items == ItemsOf(body)
<1>1. deserialize_outcome(body) = "open" /\ entries = deserialize_entries(body)
  BY DEF EntriesInv, MemoryIsBody
<1>2. Len(items) \in Nat /\ DOMAIN items = 1 .. Len(items) /\ Len(entries) = Len(items)
  BY <1>1, Loaded DEF EntriesInv
<1>3. \A j \in DOMAIN items : from_dict_outcome(items[j]) = "Entry"
  BY <1>1, Accepted
<1>4. entries = [j \in DOMAIN items |-> from_dict(items[j])]
  BY <1>1 DEF deserialize_entries
<1> HIDE DEF items
<1>5. ASSUME NEW j \in 1 .. Len(entries)
      PROVE  /\ Required \subseteq DOMAIN items[j].fields
             /\ SameItem(items[j], to_dict(entries[j]))
             /\ entries[j]["id"] = str(items[j].fields["id"])
  <2>1. j \in DOMAIN items /\ entries[j] = from_dict(items[j])
    BY <1>2, <1>4
  <2>2. Required \subseteq DOMAIN items[j].fields
    BY <1>3, <2>1 DEF from_dict_outcome
  <2>3. \A f \in FieldNames :
          entries[j][f] = IF f \in DOMAIN items[j].fields THEN str(items[j].fields[f]) ELSE ""
    BY <2>1 DEF from_dict
  <2>4. \A f \in FieldNames : to_dict(entries[j]).fields[f] = String(entries[j][f])
    BY DEF to_dict
  <2>5. SameItem(items[j], to_dict(entries[j]))
    BY <2>3, <2>4 DEF SameItem
  <2> QED
    BY <2>2, <2>3, <2>5, EntriesAssumption DEF FieldNames
<1> QED
  BY <1>2, <1>5 DEF items, EntriesInv

(***************************************************************************)
(* A save writes back every item of the body before it, in order and with  *)
(* the text of its known fields, but for the one updated, which keeps its  *)
(* id, or deleted (SavesEveryItem).                                        *)
(***************************************************************************)
THEOREM SavesCorrect == Spec => SavesEveryItem
<1>1. EntriesInv /\ [Next]_vars => [body' # body => OneItemChanges(ItemsOf(body), ItemsOf(body'))]_vars
  <2> SUFFICES ASSUME EntriesInv, Next, body' # body
               PROVE  OneItemChanges(ItemsOf(body), ItemsOf(body'))
    OBVIOUS
  <2> DEFINE old == ItemsOf(body)
             new == ItemsOf(body')
  <2>1. ASSUME state = "open"
        PROVE  /\ Len(old) = Len(entries) /\ entries \in Seq(Entry) /\ Len(entries) \in Nat
               /\ \A j \in 1 .. Len(entries) :
                    /\ Required \subseteq DOMAIN old[j].fields
                    /\ SameItem(old[j], to_dict(entries[j]))
                    /\ entries[j]["id"] = str(old[j].fields["id"])
    BY <2>1, WrittenBack
  <2>2. ASSUME NEW es \in Seq(Entry), Persist(es)
        PROVE  Len(new) = Len(es) /\ \A j \in 1 .. Len(es) : new[j] = to_dict(es[j])
    <3>1. new = [j \in 1 .. Len(es) |-> to_dict(es[j])]
      BY <2>2, Serialized DEF Persist
    <3>2. Len(es) \in Nat
      OBVIOUS
    <3> QED
      BY <3>1, <3>2
  <2> HIDE DEF old, new
  <2>3. CASE add_entry
    <3>1. PICK e \in [FieldNames -> Texts] : Persist(Append(entries, e))
      BY <2>3 DEF add_entry
    <3>2. state = "open" /\ e \in Entry
      BY <3>1 DEF Persist, Entry, Text
    <3> DEFINE es == Append(entries, e)
    <3>3. /\ es \in Seq(Entry) /\ Len(es) = Len(entries) + 1
          /\ \A j \in 1 .. Len(entries) : es[j] = entries[j]
      BY <2>1, <3>2
    <3> HIDE DEF es
    <3>4. Len(new) = Len(es) /\ \A j \in 1 .. Len(es) : new[j] = to_dict(es[j])
      BY <2>2, <3>1, <3>3 DEF es
    <3>5. Len(new) = Len(old) + 1 /\ \A j \in 1 .. Len(old) : new[j] = to_dict(entries[j])
      BY <2>1, <3>2, <3>3, <3>4
    <3>6. OneItemChanges(old, new)
      BY <2>1, <3>2, <3>5 DEF OneItemChanges
    <3> QED
      BY <3>6 DEF old, new
  <2>4. CASE update_entry
    <3>1. PICK i \in DOMAIN entries, f \in FieldNames \ {"id"}, t \in Texts :
            Persist([entries EXCEPT ![i][f] = t])
      BY <2>4 DEF update_entry
    <3>2. state = "open" /\ t \in Text
      BY <3>1 DEF Persist, Text
    <3>3. i \in 1 .. Len(entries) /\ entries[i] \in Entry
      BY <2>1, <3>2
    <3> DEFINE e == [entries[i] EXCEPT ![f] = t]
               es == [entries EXCEPT ![i] = e]
    <3>4. e \in Entry /\ e["id"] = entries[i]["id"]
      BY <3>2, <3>3, EntriesAssumption DEF Entry, FieldNames
    <3>5. Persist(es)
      BY <3>1
    <3> HIDE DEF e
    <3>6. /\ es \in Seq(Entry) /\ Len(es) = Len(entries) /\ es[i] = e
          /\ \A j \in (1 .. Len(entries)) \ {i} : es[j] = entries[j]
      BY <2>1, <3>2, <3>3, <3>4
    <3> HIDE DEF es
    <3>7. Len(new) = Len(es) /\ \A j \in 1 .. Len(es) : new[j] = to_dict(es[j])
      BY <2>2, <3>5, <3>6
    <3>8. new[i].fields["id"] = String(str(old[i].fields["id"]))
      <4>1. to_dict(e).fields["id"] = String(e["id"])
        BY EntriesAssumption DEF to_dict, FieldNames
      <4> QED
        BY <2>1, <3>2, <3>3, <3>4, <3>6, <3>7, <4>1
    <3>9. Len(new) = Len(old) /\ \A j \in (1 .. Len(old)) \ {i} : new[j] = to_dict(entries[j])
      BY <2>1, <3>2, <3>6, <3>7
    <3>10. OneItemChanges(old, new)
      BY <2>1, <3>2, <3>3, <3>8, <3>9 DEF OneItemChanges
    <3> QED
      BY <3>10 DEF old, new
  <2>5. CASE delete_entry
    <3>1. PICK i \in DOMAIN entries : Persist(RemoveAt(entries, i))
      BY <2>5 DEF delete_entry
    <3>2. state = "open"
      BY <3>1 DEF Persist
    <3>3. i \in 1 .. Len(entries)
      BY <2>1, <3>2
    <3> DEFINE es == RemoveAt(entries, i)
    <3>4. /\ es \in Seq(Entry) /\ Len(es) = Len(entries) - 1
          /\ \A j \in 1 .. Len(entries) - 1 : es[j] = IF j < i THEN entries[j] ELSE entries[j + 1]
      BY <2>1, <3>2, <3>3, RemoveAtProperties
    <3>5. Persist(es)
      BY <3>1
    <3> HIDE DEF es
    <3>6. Len(new) = Len(es) /\ \A j \in 1 .. Len(es) : new[j] = to_dict(es[j])
      BY <2>2, <3>4, <3>5
    <3>7. ASSUME NEW j \in 1 .. Len(new)
          PROVE  SameItem(old[IF j < i THEN j ELSE j + 1], new[j])
      <4> DEFINE k == IF j < i THEN j ELSE j + 1
      <4>1. k \in 1 .. Len(entries) /\ new[j] = to_dict(entries[k])
        BY <2>1, <3>2, <3>3, <3>4, <3>6
      <4> HIDE DEF k
      <4>2. SameItem(old[k], new[j])
        BY <2>1, <3>2, <4>1
      <4> QED
        BY <4>2 DEF k
    <3>8. Len(new) = Len(old) - 1
      BY <2>1, <3>2, <3>4, <3>6
    <3>9. OneItemChanges(old, new)
      BY <2>1, <3>2, <3>3, <3>7, <3>8 DEF OneItemChanges
    <3> QED
      BY <3>9 DEF old, new
  <2>6. CASE open \/ close
    BY <2>6 DEF open, close
  <2> QED
    BY <2>3, <2>4, <2>5, <2>6 DEF Next, old, new
<1> QED
  BY <1>1, EntriesInvariant, PTL DEF Spec, SavesEveryItem
=============================================================================
