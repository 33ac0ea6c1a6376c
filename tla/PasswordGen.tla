---------------------------- MODULE PasswordGen ----------------------------
(***************************************************************************)
(* passwordgen.generate_password, with every random draw a choice and the  *)
(* shuffle exchange by exchange.                                           *)
(***************************************************************************)
EXTENDS Naturals, Sequences, FiniteSets, SequencesExt

CONSTANTS
  Categories,     \* upper, lower, digits and symbols
  CharsOf,        \* CharsOf[c]: the characters of a category
  AMBIGUOUS,
  MIN_LENGTH, MAX_LENGTH,
  Lengths         \* what a caller may ask for, the limits' neighbours included

ASSUME PasswordGenAssumption ==
  /\ CharsOf \in [Categories -> SUBSET UNION {CharsOf[c] : c \in Categories}]
  /\ IsFiniteSet(Categories) /\ \A c \in Categories : CharsOf[c] # {}
  /\ {MIN_LENGTH, MAX_LENGTH} \cup Lengths \subseteq Nat /\ MIN_LENGTH > 0

\* PasswordPolicy
Policies == [length : Lengths, use : SUBSET Categories, exclude_ambiguous : BOOLEAN]

VARIABLES
  policy,
  chars,    \* the list of characters drawn so far
  pending,  \* the categories from which no character has been drawn yet
  left,     \* the shuffle has still to exchange the places 2 .. left
  pc        \* "start", "draw", "shuffle", "done" or "refused" (ValueError)

vars == <<policy, chars, pending, left, pc>>

Init ==
  /\ policy \in Policies
  /\ chars = <<>> /\ pending = {} /\ left = 0 /\ pc = "start"

-----------------------------------------------------------------------------

\* A category's characters that the policy lets through.
Pool(c) == IF policy.exclude_ambiguous THEN CharsOf[c] \ AMBIGUOUS ELSE CharsOf[c]

\* Mutant: categories that became empty are kept.
poolsWithEmpty == policy.use

\* The categories with a pool that is not empty.
pools == {c \in policy.use : Pool(c) # {}}

combined == UNION {Pool(c) : c \in pools}

\* PasswordPolicy.validate; pools() raises if there is nothing to draw from.
validate ==
  /\ policy.length \in MIN_LENGTH .. MAX_LENGTH
  /\ pools # {}
  /\ policy.length >= Cardinality(pools)

Start ==
  /\ pc = "start"
  /\ pc' = IF validate THEN "draw" ELSE "refused"
  /\ pending' = IF validate THEN pools ELSE {}
  /\ UNCHANGED <<policy, chars, left>>

\* Mutant: secrets.choice(combined) in the place of secrets.choice(pool).
drawFromCombined(c) ==
  /\ pc = "draw" /\ c \in pending
  /\ \E ch \in combined : chars' = Append(chars, ch)
  /\ pending' = pending \ {c}
  /\ UNCHANGED <<policy, left, pc>>

\* secrets.choice(pool), once for each pool; the order does not matter.
DrawFromPool(c) ==
  /\ pc = "draw" /\ c \in pending
  /\ \E ch \in Pool(c) : chars' = Append(chars, ch)
  /\ pending' = pending \ {c}
  /\ UNCHANGED <<policy, left, pc>>

\* secrets.choice(combined), until the length is reached.
Fill ==
  /\ pc = "draw" /\ pending = {} /\ Len(chars) < policy.length
  /\ \E ch \in combined : chars' = Append(chars, ch)
  /\ UNCHANGED <<policy, pending, left, pc>>

StartShuffle ==
  /\ pc = "draw" /\ pending = {} /\ Len(chars) >= policy.length
  /\ pc' = "shuffle" /\ left' = Len(chars)
  /\ UNCHANGED <<policy, chars, pending>>

Swap(s, i, j) == [s EXCEPT ![i] = s[j], ![j] = s[i]]

\* random.shuffle: from the last place down, exchange with any place up to it.
Exchange ==
  /\ pc = "shuffle" /\ left > 1
  /\ \E j \in 1 .. left : chars' = Swap(chars, left, j)
  /\ left' = left - 1
  /\ UNCHANGED <<policy, pending, pc>>

Return ==
  /\ pc = "shuffle" /\ left <= 1
  /\ pc' = "done"
  /\ UNCHANGED <<policy, chars, pending, left>>

Next ==
  Start \/ (\E c \in Categories : DrawFromPool(c)) \/ Fill \/ StartShuffle \/ Exchange \/ Return

Spec == Init /\ [][Next]_vars /\ WF_vars(Next)

-----------------------------------------------------------------------------
\* Properties

(***************************************************************************)
(* A generated password has the length asked for, only characters the      *)
(* policy allows, and at least one character of every category that was    *)
(* asked for and has any left.  Behaviour: "Guarantees at least one        *)
(* character from every selected category" (generate_password), which the  *)
(* fill and the shuffle must not undo.                                     *)
(***************************************************************************)
PasswordMeetsPolicy ==
  pc = "done" =>
    /\ Len(chars) = policy.length
    /\ ToSet(chars) \subseteq UNION {Pool(c) : c \in policy.use}
    /\ \A c \in policy.use : Pool(c) # {} => ToSet(chars) \cap Pool(c) # {}

(***************************************************************************)
(* Every call ends, and with a password whenever one exists for the        *)
(* policy: no legal policy makes the drawing fail half-way or go on.       *)
(***************************************************************************)
CallsEnd ==
  LET usable == {c \in policy.use : Pool(c) # {}}
      legal == policy.length \in MIN_LENGTH .. MAX_LENGTH
               /\ usable # {} /\ policy.length >= Cardinality(usable)
  IN  <>(pc = IF legal THEN "done" ELSE "refused")
=============================================================================
