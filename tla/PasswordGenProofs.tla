-------------------------- MODULE PasswordGenProofs --------------------------
(***************************************************************************)
(* For any categories, characters, limits and lengths: a password that     *)
(* generate_password returns meets its policy.                             *)
(*                                                                         *)
(* The invariant counts the draws (a character for each pool and then the  *)
(* fill never pass the length) and remembers that every pool that has been *)
(* drawn from has a character somewhere in the list, which the shuffle     *)
(* moves but does not lose.                                                *)
(***************************************************************************)
EXTENDS PasswordGen, SequenceTheorems, FiniteSetTheorems, TLAPS

\* Some place of the list has a character of the category.
Present(c) == \E k \in DOMAIN chars : chars[k] \in Pool(c)

GenInv ==
  /\ policy \in Policies
  /\ chars \in Seq(combined)
  /\ left \in Nat /\ left <= Len(chars)
  /\ pending \subseteq pools
  /\ pc = "start" => chars = <<>> /\ pending = {}
  /\ pc = "draw" => Len(chars) + Cardinality(pending) <= policy.length
  /\ pc \in {"draw", "shuffle", "done"} => \A c \in pools \ pending : Present(c)
  /\ pc \in {"shuffle", "done"} => pending = {} /\ Len(chars) = policy.length

\* At the start nothing is drawn.
LEMMA GenInit == Init => GenInv
BY DEF Init, GenInv

\* There are finitely many pools.
LEMMA PoolsFinite == ASSUME policy \in Policies PROVE IsFiniteSet(pools) /\ pools \subseteq Categories
<1>1. pools \subseteq Categories
  BY DEF pools, Policies
<1> QED
  BY <1>1, FS_Subset, PasswordGenAssumption

\* A character added at the end leaves those that are there.
LEMMA DrawKeeps ==
  ASSUME chars \in Seq(combined), NEW ch \in combined, chars' = Append(chars, ch),
         UNCHANGED policy
  PROVE  /\ chars' \in Seq(combined) /\ Len(chars') = Len(chars) + 1
         /\ combined' = combined /\ pools' = pools
         /\ \A c : Present(c) => Present(c)'
         /\ \A c : ch \in Pool(c) => Present(c)'
<1>1. combined' = combined /\ pools' = pools /\ \A c : Pool(c)' = Pool(c)
  BY DEF combined, pools, Pool
<1>2. /\ chars' \in Seq(combined) /\ Len(chars') = Len(chars) + 1
      /\ DOMAIN chars' = 1 .. Len(chars) + 1 /\ DOMAIN chars = 1 .. Len(chars) /\ Len(chars) \in Nat
      /\ chars'[Len(chars) + 1] = ch
      /\ \A k \in 1 .. Len(chars) : chars'[k] = chars[k]
  OBVIOUS
<1>3. \A c : Present(c) => Present(c)'
  BY <1>1, <1>2 DEF Present
<1>4. \A c : ch \in Pool(c) => Present(c)'
  <2>1. Len(chars) + 1 \in DOMAIN chars'
    BY <1>2
  <2> QED
    BY <1>1, <1>2, <2>1 DEF Present
<1> QED
  BY <1>1, <1>2, <1>3, <1>4

\* An exchange of two places keeps the list's length and what is in it.
LEMMA SwapKeeps ==
  ASSUME chars \in Seq(combined), NEW i \in 1 .. Len(chars), NEW j \in 1 .. Len(chars),
         chars' = Swap(chars, i, j), UNCHANGED policy
  PROVE  /\ chars' \in Seq(combined) /\ Len(chars') = Len(chars)
         /\ \A c : Present(c) => Present(c)'
<1>1. /\ DOMAIN chars = 1 .. Len(chars) /\ DOMAIN chars' = 1 .. Len(chars)
      /\ Len(chars) \in Nat /\ chars[i] \in combined /\ chars[j] \in combined
  BY ElementOfSeq DEF Swap
<1>2. \A k \in 1 .. Len(chars) :
        chars'[k] = IF k = j THEN chars[i] ELSE IF k = i THEN chars[j] ELSE chars[k]
  BY <1>1 DEF Swap
<1>3. chars' \in Seq(combined) /\ Len(chars') = Len(chars)
  BY <1>1 DEF Swap
<1>4. ASSUME NEW c, Present(c) PROVE Present(c)'
  <2>1. Pool(c)' = Pool(c)
    BY DEF Pool
  <2>2. PICK k \in DOMAIN chars : chars[k] \in Pool(c)
    BY <1>4 DEF Present
  <2>3. \E m \in 1 .. Len(chars) : chars'[m] = chars[k]
    BY <1>1, <1>2
  <2> QED
    BY <1>1, <2>1, <2>2, <2>3 DEF Present
<1> QED
  BY <1>3, <1>4

\* Every draw and every exchange keeps the invariant.
LEMMA GenStep == GenInv /\ [Next]_vars => GenInv'
<1> SUFFICES ASSUME GenInv, [Next]_vars PROVE GenInv'
  OBVIOUS
<1>0. /\ policy' = policy /\ combined' = combined /\ pools' = pools
      /\ policy.length \in Nat /\ Len(chars) \in Nat
  <2>1. policy' = policy
    BY DEF Next, vars, Start, DrawFromPool, Fill, StartShuffle, Exchange, Return
  <2>2. policy.length \in Nat
    BY PasswordGenAssumption DEF GenInv, Policies
  <2>3. combined' = combined /\ pools' = pools
    BY <2>1 DEF combined, pools, Pool
  <2>4. Len(chars) \in Nat
    BY DEF GenInv
  <2> QED
    BY <2>1, <2>2, <2>3, <2>4
<1>p. IsFiniteSet(pools)
  BY PoolsFinite DEF GenInv
<1>u. ASSUME UNCHANGED chars PROVE \A c : Present(c) => Present(c)'
  BY <1>0, <1>u DEF Present, Pool
<1>1. CASE Start
  <2>1. CASE validate
    <3>1. Cardinality(pools) \in Nat /\ Len(<<>>) = 0
      BY <1>p, FS_CardinalityType
    <3>2. /\ chars = <<>> /\ chars' = chars /\ left' = left
          /\ pc' = "draw" /\ pending' = pools /\ Cardinality(pools) <= policy.length
      BY <1>0, <1>1, <2>1 DEF GenInv, Start, validate
    <3> QED
      BY <1>0, <3>1, <3>2 DEF GenInv
  <2>2. CASE ~validate
    BY <1>0, <1>1, <2>2 DEF GenInv, Start
  <2> QED
    BY <2>1, <2>2
<1>2. ASSUME NEW c \in Categories, DrawFromPool(c) PROVE GenInv'
  <2>1. PICK ch \in Pool(c) : chars' = Append(chars, ch)
    BY <1>2 DEF DrawFromPool
  <2>2. c \in pools /\ ch \in combined
    BY <1>2, <2>1 DEF GenInv, DrawFromPool, combined
  <2>3. Cardinality(pending \ {c}) = Cardinality(pending) - 1 /\ Cardinality(pending) \in Nat
    <3>1. IsFiniteSet(pending)
      BY <1>p, FS_Subset DEF GenInv
    <3> QED
      BY <1>2, <3>1, FS_RemoveElement, FS_CardinalityType DEF DrawFromPool
  <2>4. /\ chars' \in Seq(combined) /\ Len(chars') = Len(chars) + 1
        /\ \A d : Present(d) => Present(d)'
        /\ Present(c)'
    BY <1>0, <2>1, <2>2, DrawKeeps DEF GenInv
  <2>5. pending' = pending \ {c} /\ pc = "draw" /\ UNCHANGED <<left, pc>>
    BY <1>2 DEF DrawFromPool
  <2> HIDE DEF Present
  <2> QED
    BY <1>0, <2>2, <2>3, <2>4, <2>5 DEF GenInv
<1>3. CASE Fill
  <2>1. PICK ch \in combined : chars' = Append(chars, ch)
    BY <1>3 DEF Fill
  <2>2. /\ chars' \in Seq(combined) /\ Len(chars') = Len(chars) + 1
        /\ \A d : Present(d) => Present(d)'
    BY <1>0, <2>1, DrawKeeps DEF GenInv
  <2>3. Cardinality(pending) = 0
    BY <1>3, FS_EmptySet DEF Fill
  <2>4. /\ pending' = pending /\ pc = "draw" /\ UNCHANGED <<left, pc>>
        /\ Len(chars) < policy.length
    BY <1>3 DEF Fill
  <2> QED
    BY <1>0, <2>2, <2>3, <2>4 DEF GenInv
<1>4. CASE StartShuffle
  <2>1. Cardinality(pending) = 0
    BY <1>4, FS_EmptySet DEF StartShuffle
  <2> QED
    BY <1>0, <1>4, <1>u, <2>1 DEF GenInv, StartShuffle
<1>5. CASE Exchange
  <2>1. PICK j \in 1 .. left : chars' = Swap(chars, left, j)
    BY <1>5 DEF Exchange
  <2>2. left \in 1 .. Len(chars) /\ j \in 1 .. Len(chars)
    BY <1>0, <1>5, <2>1 DEF GenInv, Exchange
  <2>3. /\ chars' \in Seq(combined) /\ Len(chars') = Len(chars)
        /\ \A d : Present(d) => Present(d)'
    BY <1>0, <2>1, <2>2, SwapKeeps DEF GenInv
  <2> QED
    BY <1>0, <1>5, <2>2, <2>3 DEF GenInv, Exchange
<1>6. CASE Return
  BY <1>0, <1>6, <1>u DEF GenInv, Return
<1>7. CASE UNCHANGED vars
  BY <1>0, <1>7, <1>u DEF GenInv, vars
<1> QED
  BY <1>1, <1>2, <1>3, <1>4, <1>5, <1>6, <1>7 DEF Next

\* A password that is returned has the length asked for, allowed characters
\* only, and one of every category that was asked for and has any.
THEOREM PolicyMet == Spec => []PasswordMeetsPolicy
<1>1. GenInv => PasswordMeetsPolicy
  <2> SUFFICES ASSUME GenInv, pc = "done" PROVE
        /\ Len(chars) = policy.length
        /\ ToSet(chars) \subseteq UNION {Pool(c) : c \in policy.use}
        /\ \A c \in policy.use : Pool(c) # {} => ToSet(chars) \cap Pool(c) # {}
    BY DEF PasswordMeetsPolicy
  <2>1. ToSet(chars) \subseteq combined
    <3>1. \A k \in DOMAIN chars : chars[k] \in combined
      BY ElementOfSeq DEF GenInv
    <3> QED
      BY <3>1 DEF ToSet
  <2>2. combined \subseteq UNION {Pool(c) : c \in policy.use}
    BY DEF combined, pools
  <2>3. \A c \in pools : \E k \in DOMAIN chars : chars[k] \in Pool(c)
    BY DEF GenInv, Present
  <2>4. \A c \in policy.use : Pool(c) # {} => ToSet(chars) \cap Pool(c) # {}
    BY <2>3 DEF pools, ToSet
  <2> QED
    BY <2>1, <2>2, <2>4 DEF GenInv
<1> QED
  BY <1>1, GenInit, GenStep, PTL DEF Spec
==============================================================================
