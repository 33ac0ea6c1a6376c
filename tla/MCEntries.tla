----------------------------- MODULE MCEntries -----------------------------
(* Every body with at most two items, each a whole entry, one with a number *)
(* for a password, one without the id, one without notes, one with a field  *)
(* the program does not know, or no object at all; with every version and   *)
(* with entries missing or no list.                                         *)
EXTENDS Entries, TLC

MCTexts == {"x", "y"}
MCRequired == {"id", "password"}

Number(t) == [type |-> "number", text |-> t]
Null == [type |-> "null", text |-> "None"]
Object(fields) == [type |-> "object", text |-> "{...}", fields |-> fields]
List(items) == [type |-> "list", text |-> "[...]", items |-> items]

Items ==
  {Object([id |-> String("x"), password |-> String("x"), notes |-> String("x")]),
   Object([id |-> String("x"), password |-> Number("7"), notes |-> Null]),
   Object([password |-> String("x"), notes |-> String("x")]),
   Object([id |-> String("x"), password |-> List(<<>>)]),
   Object([id |-> String("x"), password |-> String("x"), notes |-> String(""), url |-> String("x")]),
   String("x"), Null, List(<<>>)}

Versions == {Number("1"), Number("1.0"), [type |-> "bool", text |-> "True"], String("1"), Number("2"), Null}

MCBodies ==
  {NotJson, Null, List(<<>>), Object([entries |-> List(<<>>)]), Object([schema_version |-> Number("1")])}
  \cup {Object([schema_version |-> v, entries |-> e]) :
          v \in Versions, e \in {Null} \cup {List(s) : s \in BoundedSeq(Items, 2)}}
=============================================================================
