---------------------------- MODULE Planner_proofs -----------------------------
(***************************************************************************)
(* Proofs about the planner.  A plan is sound as it is made: the rank of a *)
(* proposal among the proposed ones is its index, and the fallback takes   *)
(* the first of equal candidates (BuiltSound).  What a row proposes is     *)
(* never changed by an apply, so it stays sound (SoundKept).  Jobs of one  *)
(* apply are of different rows because a console has each row to do once   *)
(* and its rows left are none that it has created a job of.  The status of *)
(* a plan adds up because a console that applies a plan which is not torn  *)
(* is alone with it (Alone), so that what it lists at the end is what it   *)
(* finds when it saves the status.  Of an applied row the job is the one   *)
(* that the console made of it, and the host of an artifact, a finding or  *)
(* an entry is that of a job, which never goes away (Referred).            *)
(***************************************************************************)
EXTENDS Planner, FiniteSetTheorems, SequenceTheorems, TLAPS

-----------------------------------------------------------------------------
(* Sets of numbers in order.                                               *)

LEMMA RankRange ==
  ASSUME NEW S \in SUBSET Nat, IsFiniteSet(S), NEW i \in S
  PROVE  Cardinality({j \in S : j <= i}) \in 1..Cardinality(S)
<1> DEFINE T == {j \in S : j <= i}
<1>1. IsFiniteSet(T) /\ Cardinality(T) <= Cardinality(S)
  BY FS_Subset
<1>2. Cardinality(T) \in Nat /\ Cardinality(S) \in Nat
  BY <1>1, FS_CardinalityType
<1>3. T # {}
  <2>1. i \in T
    OBVIOUS
  <2> QED BY <2>1
<1>4. Cardinality(T) # 0
  BY <1>1, <1>3, FS_EmptySet
<1> HIDE DEF T
<1> QED BY <1>1, <1>2, <1>4 DEF T

LEMMA RankGrows ==
  ASSUME NEW S \in SUBSET Nat, IsFiniteSet(S), NEW i \in S, NEW k \in S, i < k
  PROVE  Cardinality({j \in S : j <= i}) < Cardinality({j \in S : j <= k})
<1> DEFINE T == {j \in S : j <= i}
           U == {j \in S : j <= k}
<1>1. IsFiniteSet(U) /\ IsFiniteSet(T)
  BY FS_Subset
<1>2. T \in SUBSET U /\ k \in U /\ k \notin T
  <2>1. i \in Nat /\ k \in Nat /\ \A j \in S : j \in Nat
    OBVIOUS
  <2>2. ~(k <= i) /\ k <= k /\ \A j \in S : j <= i => j <= k
    BY <2>1
  <2>3. k \in U /\ k \notin T
    BY <2>2
  <2>4. T \subseteq U
    BY <2>2
  <2> QED BY <2>3, <2>4
<1> HIDE DEF T, U
<1>3. Cardinality(T) <= Cardinality(U) /\ Cardinality(T) # Cardinality(U)
  BY <1>1, <1>2, FS_Subset
<1>4. Cardinality(T) \in Nat /\ Cardinality(U) \in Nat
  BY <1>1, FS_CardinalityType
<1> QED BY <1>3, <1>4 DEF T, U

\* Every number up to the size of a set is the rank of a member.
LEMMA RankReached ==
  ASSUME NEW S \in SUBSET Nat, IsFiniteSet(S), NEW n \in 1..Cardinality(S)
  PROVE  \E i \in S : Cardinality({j \in S : j <= i}) = n
<1> DEFINE rank == [i \in S |-> Cardinality({j \in S : j <= i})]
           T == 1..Cardinality(S)
<1>1. Cardinality(S) \in Nat
  BY FS_CardinalityType
<1>2. rank \in [S -> T]
  BY RankRange
<1>3. \A i, k \in S : i # k => rank[i] # rank[k]
  <2> SUFFICES ASSUME NEW i \in S, NEW k \in S, i < k PROVE rank[i] # rank[k]
    OBVIOUS
  <2>1. rank[i] < rank[k] /\ rank[i] \in Nat /\ rank[k] \in Nat
    BY RankGrows, <1>1, <1>2
  <2> QED BY <2>1
<1>4. IsFiniteSet(T) /\ Cardinality(T) = Cardinality(S)
  BY <1>1, FS_Interval
<1> HIDE DEF rank, T
<1>5. rank \in Injection(S, T)
  BY <1>2, <1>3 DEF Injection, IsInjective
<1>6. rank \in Surjection(S, T)
  BY <1>4, <1>5, FS_Injection
<1>7. n \in T
  BY DEF T
<1>8. \E i \in S : rank[i] = n
  BY <1>6, <1>7 DEF Surjection
<1> QED BY <1>8 DEF rank

LEMMA InOrderMembers ==
  ASSUME NEW S \in SUBSET Nat, IsFiniteSet(S)
  PROVE  /\ Cardinality(S) \in Nat /\ DOMAIN InOrder(S) = 1..Cardinality(S)
         /\ InOrder(S) \in Seq(S) /\ Len(InOrder(S)) = Cardinality(S)
         /\ \A n \in 1..Cardinality(S) :
              InOrder(S)[n] \in S /\ Cardinality({j \in S : j <= InOrder(S)[n]}) = n
<1>1. Cardinality(S) \in Nat /\ DOMAIN InOrder(S) = 1..Cardinality(S)
  BY FS_CardinalityType DEF InOrder
<1>2. ASSUME NEW n \in 1..Cardinality(S)
      PROVE  InOrder(S)[n] \in S /\ Cardinality({j \in S : j <= InOrder(S)[n]}) = n
  <2>1. \E i \in S : Cardinality({j \in S : j <= i}) = n
    BY RankReached
  <2>2. InOrder(S)[n] = CHOOSE i \in S : Cardinality({j \in S : j <= i}) = n
    BY DEF InOrder
  <2> QED BY <2>1, <2>2
<1>3. InOrder(S) \in [1..Cardinality(S) -> S]
  BY <1>1, <1>2 DEF InOrder
<1>4. InOrder(S) \in Seq(S)
  BY <1>1, <1>3, SeqDef
<1> QED BY <1>1, <1>2, <1>4, LenProperties

LEMMA InOrderDistinct ==
  ASSUME NEW S \in SUBSET Nat, IsFiniteSet(S), NEW m \in DOMAIN InOrder(S), NEW n \in DOMAIN InOrder(S),
         m # n
  PROVE  InOrder(S)[m] # InOrder(S)[n]
<1>1. m \in 1..Cardinality(S) /\ n \in 1..Cardinality(S)
  BY InOrderMembers
<1>2. /\ Cardinality({j \in S : j <= InOrder(S)[m]}) = m
      /\ Cardinality({j \in S : j <= InOrder(S)[n]}) = n
  BY <1>1, InOrderMembers
<1> QED BY <1>2

-----------------------------------------------------------------------------
(* What a plan is made of.                                                 *)

\* A row of a plan, as it is inserted.
Fields == {"tool", "target", "args", "retry", "kind", "index", "apply", "job"}
Fresh(row) ==
  /\ DOMAIN row = Fields /\ row.apply = "pending" /\ row.job = 0
  /\ row.kind \in {"proposed", "skipped", "blocked"}

\* PlanSound of one plan.
Sound(p, source, rows) ==
  LET n == Cardinality(Proposed(rows))
  IN /\ n <= MaxProposed
     /\ {rows[i].index : i \in Proposed(rows)} = 1..n
     /\ \A i \in Proposed(rows) : Revalidated(p, rows[i])
     /\ source = "fallback" =>
          \A i, j \in Proposed(rows) :
            i # j => <<rows[i].tool, rows[i].target>> # <<rows[j].tool, rows[j].target>>

\* The first of a set by rank.
LEMMA FirstRanks ==
  ASSUME NEW S \in SUBSET Nat, IsFiniteSet(S), NEW limit \in Nat,
         NEW T, T = {i \in S : Cardinality({j \in S : j <= i}) <= limit}
  PROVE  /\ Cardinality(T) <= limit /\ Cardinality(T) \in Nat
         /\ {Cardinality({j \in S : j <= i}) : i \in T} = 1..Cardinality(T)
<1> DEFINE rank == [i \in S |-> Cardinality({j \in S : j <= i})]
           size == IF Cardinality(S) <= limit THEN Cardinality(S) ELSE limit
           f == [i \in T |-> rank[i]]
<1>1. Cardinality(S) \in Nat /\ size \in Nat /\ size <= limit
  BY FS_CardinalityType
<1>2. \A i \in S : rank[i] \in 1..Cardinality(S)
  BY RankRange
<1>3. \A i, k \in S : rank[i] = rank[k] => i = k
  <2> SUFFICES ASSUME NEW i \in S, NEW k \in S, i < k PROVE rank[i] # rank[k]
    OBVIOUS
  <2>1. rank[i] < rank[k] /\ rank[i] \in Nat /\ rank[k] \in Nat
    BY RankGrows, <1>1, <1>2
  <2> QED BY <2>1
<1>4. \A n \in 1..Cardinality(S) : \E i \in S : rank[i] = n
  BY RankReached
<1>5. T \subseteq S /\ \A i \in S : i \in T <=> rank[i] <= limit
  OBVIOUS
<1>6. \A i \in S : Cardinality({j \in S : j <= i}) = rank[i]
  OBVIOUS
<1> HIDE DEF rank
<1>7. \A i \in T : f[i] \in 1..size
  BY <1>1, <1>2, <1>5
<1>8. \A n \in 1..size : \E i \in T : f[i] = n
  <2> SUFFICES ASSUME NEW n \in 1..size PROVE \E i \in T : f[i] = n
    OBVIOUS
  <2>1. n \in 1..Cardinality(S) /\ n <= limit
    BY <1>1
  <2>2. PICK i \in S : rank[i] = n
    BY <1>4, <2>1
  <2> QED BY <1>5, <2>1, <2>2
<1>9. f \in Bijection(T, 1..size)
  <2>1. f \in [T -> 1..size]
    BY <1>7
  <2>2. \A i, k \in T : f[i] = f[k] => i = k
    BY <1>3, <1>5
  <2> HIDE DEF f, size
  <2> QED BY <2>1, <2>2, <1>8 DEF Bijection, Injection, Surjection, IsInjective
<1>10. Cardinality(T) = size
  <2>1. IsFiniteSet(T)
    BY <1>5, FS_Subset
  <2>2. IsFiniteSet(1..size) /\ Cardinality(1..size) = size
    <3> HIDE DEF size
    <3> QED BY <1>1, FS_Interval
  <2> HIDE DEF f, size
  <2>3. ExistsBijection(T, 1..size)
    BY <1>9 DEF ExistsBijection
  <2> QED BY <2>1, <2>2, <2>3, FS_Bijection
<1>11. {rank[i] : i \in T} = 1..size
  BY <1>7, <1>8
<1>12. {Cardinality({j \in S : j <= i}) : i \in T} = {rank[i] : i \in T}
  BY <1>5, <1>6
<1> QED BY <1>1, <1>10, <1>11, <1>12

\* What _finalize_result makes of candidates.
FinalOf(p, candidates, len, rows) ==
  /\ DOMAIN rows = 1..len
  /\ \A i \in 1..len : Fresh(rows[i])
  /\ Cardinality(Proposed(rows)) <= MaxProposed
  /\ {rows[i].index : i \in Proposed(rows)} = 1..Cardinality(Proposed(rows))
  /\ \A i \in Proposed(rows) :
       /\ Revalidated(p, rows[i]) /\ ~candidates[i].forced
       /\ rows[i].tool = candidates[i].tool /\ rows[i].target = candidates[i].target

LEMMA FinalizedRows ==
  ASSUME NEW p, NEW len \in Nat, NEW candidates, DOMAIN candidates = 1..len
  PROVE  FinalOf(p, candidates, len, Finalized(p, candidates))
<1> DEFINE rows == Finalized(p, candidates)
           raw == [i \in DOMAIN candidates |-> Prechecked(p, candidates[i])]
           S == {i \in 1..len : raw[i].kind = "proposed"}
           Rank(i) == Cardinality({j \in S : j <= i})
           T == {i \in S : Rank(i) <= MaxProposed}
<1>1. MaxProposed \in Nat
  BY PlanAssumption
<1>2. S \in SUBSET Nat /\ IsFiniteSet(S) /\ S \subseteq 1..len
  <2>1. IsFiniteSet(1..len)
    BY FS_Interval
  <2>2. S \in SUBSET (1..len)
    OBVIOUS
  <2>3. S \in SUBSET Nat
    OBVIOUS
  <2> HIDE DEF S
  <2> QED BY <2>1, <2>2, <2>3, FS_Subset
<1>3. \A i \in 1..len : Cardinality({j \in 1..i : raw[j].kind = "proposed"}) = Rank(i)
  <2> SUFFICES ASSUME NEW i \in 1..len
               PROVE  {j \in 1..i : raw[j].kind = "proposed"} = {j \in S : j <= i}
    OBVIOUS
  <2> HIDE DEF raw
  <2> QED OBVIOUS
<1>4. \A i \in 1..len :
        /\ DOMAIN raw[i] = Fields /\ raw[i].apply = "pending" /\ raw[i].job = 0
        /\ raw[i].tool = candidates[i].tool /\ raw[i].target = candidates[i].target
        /\ raw[i].args = candidates[i].args
        /\ raw[i].kind \in {"proposed", "skipped", "blocked"}
        /\ raw[i].kind = "proposed" =>
             /\ ~candidates[i].forced
             /\ Precheck(candidates[i].tool, candidates[i].target, candidates[i].args, p) = "proposed"
  <2>1. \A tool, target, args :
          Precheck(tool, target, args, p) \in {"proposed", "skipped", "blocked"}
    BY DEF Precheck
  <2> QED BY <2>1 DEF Prechecked, Proposal, Fields
<1>5. /\ DOMAIN rows = 1..len
      /\ \A i \in 1..len :
           rows[i] = IF i \notin S THEN raw[i]
                     ELSE IF Rank(i) > MaxProposed THEN [raw[i] EXCEPT !.kind = "skipped"]
                     ELSE [raw[i] EXCEPT !.index = Rank(i)]
  BY <1>3 DEF Finalized, Trimmed
<1> HIDE DEF raw, rows
<1>6. \A i \in S : Rank(i) \in Nat
  BY <1>2, RankRange, FS_CardinalityType
<1>7. \A i \in 1..len :
        /\ DOMAIN rows[i] = Fields /\ rows[i].apply = "pending" /\ rows[i].job = 0
        /\ rows[i].tool = raw[i].tool /\ rows[i].target = raw[i].target
        /\ rows[i].args = raw[i].args
        /\ rows[i].kind \in {"proposed", "skipped", "blocked"}
  <2> HIDE DEF S, Rank
  <2> SUFFICES ASSUME NEW i \in 1..len
               PROVE  /\ DOMAIN rows[i] = Fields /\ rows[i].apply = "pending" /\ rows[i].job = 0
                      /\ rows[i].tool = raw[i].tool /\ rows[i].target = raw[i].target
                      /\ rows[i].args = raw[i].args
                      /\ rows[i].kind \in {"proposed", "skipped", "blocked"}
    OBVIOUS
  <2>1. /\ DOMAIN raw[i] = Fields /\ raw[i].apply = "pending" /\ raw[i].job = 0
        /\ raw[i].kind \in {"proposed", "skipped", "blocked"}
    BY <1>4
  <2>2. \/ rows[i] = raw[i] \/ rows[i] = [raw[i] EXCEPT !.kind = "skipped"]
        \/ rows[i] = [raw[i] EXCEPT !.index = Rank(i)]
    BY <1>5
  <2> QED BY <2>1, <2>2 DEF Fields
<1>8. \A i \in 1..len : rows[i].kind = "proposed" <=> i \in T
  <2> HIDE DEF Rank
  <2> QED BY <1>1, <1>4, <1>5, <1>6 DEF Fields
<1>9. \A i \in T : rows[i].index = Rank(i)
  <2> HIDE DEF Rank
  <2> QED BY <1>1, <1>2, <1>4, <1>5, <1>6 DEF Fields
<1>10. Proposed(rows) = T
  BY <1>2, <1>5, <1>8 DEF Proposed
<1>11. Cardinality(T) <= MaxProposed /\ {Rank(i) : i \in T} = 1..Cardinality(T)
  <2>1. T = {i \in S : Cardinality({j \in S : j <= i}) <= MaxProposed}
    OBVIOUS
  <2> QED BY <1>1, <1>2, <2>1, FirstRanks
<1>12. {rows[i].index : i \in T} = {Rank(i) : i \in T}
  BY <1>9
<1>13. \A i \in T : Revalidated(p, rows[i])
  BY <1>2, <1>4, <1>7 DEF Revalidated
<1>14. \A i \in T : /\ ~candidates[i].forced /\ rows[i].tool = candidates[i].tool
                   /\ rows[i].target = candidates[i].target
  BY <1>2, <1>4, <1>7
<1>15. \A i \in 1..len : Fresh(rows[i])
  BY <1>7 DEF Fresh
<1> HIDE DEF T, Rank
<1>16. FinalOf(p, candidates, len, rows)
  BY <1>5, <1>10, <1>11, <1>12, <1>13, <1>14, <1>15 DEF FinalOf
<1> QED BY <1>16 DEF rows

-----------------------------------------------------------------------------
(* Lists, of whatever they are.                                            *)

IsList(s) == s \in Seq(ToSet(s))

LEMMA ListDomain ==
  ASSUME NEW s, IsList(s)
  PROVE  Len(s) \in Nat /\ DOMAIN s = 1..Len(s) /\ IsFiniteSet(DOMAIN s)
<1>1. Len(s) \in Nat /\ DOMAIN s = 1..Len(s)
  BY LenProperties DEF IsList
<1> QED BY <1>1, FS_Interval

LEMMA ListOfFunction ==
  ASSUME NEW n \in Nat, NEW s, DOMAIN s = 1..n, s = [i \in 1..n |-> s[i]]
  PROVE  IsList(s) /\ Len(s) = n
<1>1. s \in [1..n -> ToSet(s)]
  BY DEF ToSet
<1>2. s \in Seq(ToSet(s))
  BY <1>1, SeqDef
<1> QED BY <1>2, LenProperties DEF IsList

LEMMA ListAppend ==
  ASSUME NEW s, IsList(s), NEW e
  PROVE  /\ IsList(Append(s, e)) /\ Len(Append(s, e)) = Len(s) + 1
         /\ DOMAIN Append(s, e) = 1..(Len(s) + 1)
         /\ Append(s, e)[Len(s) + 1] = e
         /\ \A i \in 1..Len(s) : Append(s, e)[i] = s[i]
<1> DEFINE S == ToSet(s) \cup {e}
           t == Append(s, e)
<1>1. s \in Seq(S) /\ e \in S
  <2>1. s \in Seq(ToSet(s)) /\ Len(s) \in Nat
    BY ListDomain DEF IsList
  <2>2. s \in [1..Len(s) -> ToSet(s)]
    BY <2>1, LenProperties
  <2> QED BY <2>1, <2>2, SeqDef
<1> HIDE DEF S
<1>2. /\ t \in Seq(S) /\ Len(t) = Len(s) + 1 /\ t[Len(s) + 1] = e
      /\ \A i \in 1..Len(s) : t[i] = s[i]
  BY <1>1, AppendProperties
<1>3. Len(t) \in Nat /\ DOMAIN t = 1..Len(t) /\ t \in [1..Len(t) -> S]
  BY <1>2, LenProperties
<1>4. IsList(t)
  <2> HIDE DEF t
  <2>1. t = [i \in 1..Len(t) |-> t[i]]
    BY <1>3
  <2> QED BY <1>3, <2>1, ListOfFunction
<1> QED BY <1>2, <1>3, <1>4

\* Each of a list is one of one list or of another.
IsOf(list, s, t) ==
  \A i \in DOMAIN list : (\E j \in DOMAIN s : list[i] = s[j]) \/ (\E j \in DOMAIN t : list[i] = t[j])

LEMMA ListJoined ==
  ASSUME NEW s, IsList(s), NEW t, IsList(t), NEW u, u = s \o t
  PROVE  IsList(u) /\ IsOf(u, s, t)
<1> DEFINE S == ToSet(s) \cup ToSet(t)
<1>1. s \in Seq(S) /\ t \in Seq(S)
  <2>1. /\ s \in Seq(ToSet(s)) /\ Len(s) \in Nat
        /\ t \in Seq(ToSet(t)) /\ Len(t) \in Nat
    BY ListDomain DEF IsList
  <2>2. s \in [1..Len(s) -> ToSet(s)] /\ t \in [1..Len(t) -> ToSet(t)]
    BY <2>1, LenProperties
  <2> QED BY <2>1, <2>2, SeqDef
<1> HIDE DEF S
<1>2. /\ u \in Seq(S) /\ Len(u) = Len(s) + Len(t)
      /\ \A i \in 1..Len(s) + Len(t) : u[i] = IF i <= Len(s) THEN s[i] ELSE t[i - Len(s)]
  BY <1>1, ConcatProperties
<1>3. Len(u) \in Nat /\ DOMAIN u = 1..Len(u) /\ u \in [1..Len(u) -> S]
  BY <1>2, LenProperties
<1>4. IsList(u)
  <2>1. u = [i \in 1..Len(u) |-> u[i]]
    BY <1>3
  <2> QED BY <1>3, <2>1, ListOfFunction
<1>5. \A i \in DOMAIN u : \/ \E j \in DOMAIN s : u[i] = s[j]
                          \/ \E j \in DOMAIN t : u[i] = t[j]
  <2> SUFFICES ASSUME NEW i \in DOMAIN u
               PROVE  (\E j \in DOMAIN s : u[i] = s[j]) \/ \E j \in DOMAIN t : u[i] = t[j]
    OBVIOUS
  <2>1. /\ DOMAIN s = 1..Len(s) /\ Len(s) \in Nat
        /\ DOMAIN t = 1..Len(t) /\ Len(t) \in Nat
    BY ListDomain
  <2>2. i \in 1..Len(s) + Len(t)
    BY <1>2, <1>3
  <2>3. CASE i <= Len(s)
    BY <1>2, <2>1, <2>2, <2>3
  <2>4. CASE ~(i <= Len(s))
    <3>1. i - Len(s) \in DOMAIN t /\ u[i] = t[i - Len(s)]
      BY <1>2, <2>1, <2>2, <2>4
    <3> QED BY <3>1
  <2> QED BY <2>3, <2>4
<1> QED BY <1>4, <1>5 DEF IsOf

LEMMA ListConcat ==
  ASSUME NEW s, IsList(s), NEW t, IsList(t)
  PROVE  /\ IsList(s \o t)
         /\ \A i \in DOMAIN (s \o t) : \/ \E j \in DOMAIN s : (s \o t)[i] = s[j]
                                       \/ \E j \in DOMAIN t : (s \o t)[i] = t[j]
<1> DEFINE u == s \o t
<1>1. u = s \o t
  OBVIOUS
<1> HIDE DEF u
<1>2. IsList(u) /\ IsOf(u, s, t)
  BY <1>1, ListJoined
<1> QED BY <1>2 DEF u, IsOf

LEMMA SetList ==
  ASSUME NEW S, IsFiniteSet(S)
  PROVE  IsList(SetToSeq(S)) /\ \A i \in DOMAIN SetToSeq(S) : SetToSeq(S)[i] \in S
<1>1. Cardinality(S) \in Nat /\ ExistsBijection(1..Cardinality(S), S)
  BY FS_CardinalityType
<1>2. \E f \in [1..Cardinality(S) -> S] : IsInjective(f)
  BY <1>1 DEF ExistsBijection, Bijection, Injection
<1>3. SetToSeq(S) \in [1..Cardinality(S) -> S]
  BY <1>2 DEF SetToSeq
<1> QED BY <1>1, <1>3, ListOfFunction

-----------------------------------------------------------------------------
(* The candidates of the fallback.                                         *)

\* Nothing but a tool and a target.
Simple(c) == c = Candidate(c.tool, c.target, DefaultArgs, 0)

IsSlot(s) ==
  /\ Len(s) \in Nat /\ DOMAIN s = 1..Len(s)
  /\ \A k \in DOMAIN s : s[k] = Nothing \/ Simple(s[k])

AreSlots(slots) == IsList(slots) /\ \A i \in DOMAIN slots : IsSlot(slots[i])

LEMMA SimpleCandidates ==
  ASSUME NEW t
  PROVE  Simple(DnsOf(t)) /\ Simple(HttpOf(t)) /\ Simple(TlsOf(t))
BY DEF Simple, DnsOf, HttpOf, TlsOf, Candidate

LEMMA WhenSimple ==
  ASSUME NEW condition, NEW c, Simple(c)
  PROVE  When(condition, c) = Nothing \/ Simple(When(condition, c))
BY DEF When

LEMMA PairIsSlot ==
  ASSUME NEW a, NEW b, a = Nothing \/ Simple(a), b = Nothing \/ Simple(b)
  PROVE  IsSlot(<<a, b>>)
BY DEF IsSlot

LEMMA FourAreSlot ==
  ASSUME NEW a, NEW b, NEW c, NEW d, a = Nothing \/ Simple(a), b = Nothing \/ Simple(b),
         c = Nothing \/ Simple(c), d = Nothing \/ Simple(d)
  PROVE  IsSlot(<<a, b, c, d>>)
BY DEF IsSlot

LEMMA FactsAreSlots ==
  ASSUME NEW f
  PROVE  IsSlot(FromFinding(f)) /\ IsSlot(FromArtifact(f)) /\ IsSlot(FromMemory(f)) /\ IsSlot(FromSeed(f))
<1>1. IsSlot(FromFinding(f))
  BY SimpleCandidates, WhenSimple, PairIsSlot DEF FromFinding
<1>2. IsSlot(FromArtifact(f))
  BY SimpleCandidates, WhenSimple, PairIsSlot DEF FromArtifact
<1>3. IsSlot(FromMemory(f))
  BY SimpleCandidates, WhenSimple, FourAreSlot DEF FromMemory
<1>4. IsSlot(FromSeed(f))
  BY SimpleCandidates, FourAreSlot DEF FromSeed
<1> QED BY <1>1, <1>2, <1>3, <1>4

LEMMA FirstItemsList ==
  ASSUME NEW s, IsList(s)
  PROVE  IsList(FirstItems(s))
<1> DEFINE n == Min({Len(s), MaxContextItems})
<1>1. Len(s) \in Nat /\ MaxContextItems \in Nat
  BY ListDomain, PlanAssumption
<1>2. n \in Nat /\ n <= Len(s)
  <2>1. n \in {Len(s), MaxContextItems} /\ n <= Len(s)
    BY <1>1 DEF Min
  <2> QED BY <1>1, <2>1
<1> HIDE DEF n
<1>3. FirstItems(s) = SubSeq(s, 1, n)
  BY DEF FirstItems, n
<1>4. s \in Seq(ToSet(s))
  BY DEF IsList
<1>5. SubSeq(s, 1, n) = [i \in 1..n |-> s[i]]
  <2>1. SubSeq(s, 1, n) = [i \in 1..(n - 1 + 1) |-> s[i + 1 - 1]]
    BY SubSeqProperties, <1>1, <1>2, <1>4
  <2> QED BY <1>2, <2>1
<1> QED BY <1>2, <1>3, <1>5, ListOfFunction

LEMMA SlotsAreSlots ==
  ASSUME NEW context, IsList(context.findings), IsList(context.artifacts),
         IsList(context.memory), IsFiniteSet(context.policy.hosts),
         IsFiniteSet(context.policy.domains)
  PROVE  AreSlots(Slots(context))
<1> DEFINE A == [i \in DOMAIN context.findings |-> FromFinding(context.findings[i])]
           artifacts1 == FirstItems(context.artifacts)
           B == [i \in DOMAIN artifacts1 |-> FromArtifact(artifacts1[i])]
           memory1 == FirstItems(context.memory)
           C == [i \in DOMAIN memory1 |-> FromMemory(memory1[i])]
           seeds == FirstItems(Seeds(context.policy))
           D == [i \in DOMAIN seeds |-> FromSeed(seeds[i])]
<1>1. IsList(artifacts1) /\ IsList(memory1)
  BY FirstItemsList
<1>2. IsList(seeds)
  <2>1. IsFiniteSet(context.policy.domains \ context.policy.hosts)
    BY FS_Subset
  <2>2. IsList(SetToSeq(context.policy.hosts))
    BY SetList
  <2>3. IsList(SetToSeq(context.policy.domains \ context.policy.hosts))
    BY <2>1, SetList
  <2> QED BY <2>2, <2>3, ListConcat, FirstItemsList DEF Seeds
<1>3. AreSlots(A)
  <2>1. Len(context.findings) \in Nat /\ DOMAIN context.findings = 1..Len(context.findings)
    BY ListDomain
  <2> QED BY <2>1, ListOfFunction, FactsAreSlots DEF AreSlots
<1> HIDE DEF artifacts1, memory1, seeds
<1>4. AreSlots(B)
  <2>1. Len(artifacts1) \in Nat /\ DOMAIN artifacts1 = 1..Len(artifacts1)
    BY <1>1, ListDomain
  <2> QED BY <2>1, ListOfFunction, FactsAreSlots DEF AreSlots
<1>5. AreSlots(C)
  <2>1. Len(memory1) \in Nat /\ DOMAIN memory1 = 1..Len(memory1)
    BY <1>1, ListDomain
  <2> QED BY <2>1, ListOfFunction, FactsAreSlots DEF AreSlots
<1>6. AreSlots(D)
  <2>1. Len(seeds) \in Nat /\ DOMAIN seeds = 1..Len(seeds)
    BY <1>2, ListDomain
  <2> QED BY <2>1, ListOfFunction, FactsAreSlots DEF AreSlots
<1>7. Slots(context) = ((A \o B) \o C) \o D
  BY DEF Slots, Each, artifacts1, memory1, seeds
<1> HIDE DEF A, B, C, D
<1>8. ASSUME NEW s, NEW t, AreSlots(s), AreSlots(t) PROVE AreSlots(s \o t)
  BY <1>8, ListConcat DEF AreSlots
<1> QED BY <1>3, <1>4, <1>5, <1>6, <1>7, <1>8

LEMMA FirstOfEachSlots ==
  ASSUME NEW slots, AreSlots(slots)
  PROVE  /\ FirstOfEach(slots) \in SUBSET Nat /\ IsFiniteSet(FirstOfEach(slots))
         /\ \A n \in FirstOfEach(slots) : Simple(SlotAt(slots, n))
         /\ \A m, n \in FirstOfEach(slots) : m # n => SlotAt(slots, m) # SlotAt(slots, n)
<1> DEFINE S == FirstOfEach(slots)
           last == 4 * Len(slots) + 3
<1>1. Len(slots) \in Nat /\ DOMAIN slots = 1..Len(slots)
  BY ListDomain DEF AreSlots
<1>2. S \in SUBSET (4..last) /\ last \in Nat
  BY <1>1 DEF FirstOfEach
<1>3. IsFiniteSet(S)
  <2>1. IsFiniteSet(4..last)
    <3> HIDE DEF last
    <3> QED BY <1>2, FS_Interval
  <2> HIDE DEF S, last
  <2> QED BY <1>2, <2>1, FS_Subset
<1>4. \A n \in S : Simple(SlotAt(slots, n))
  <2> SUFFICES ASSUME NEW n \in S PROVE Simple(SlotAt(slots, n))
    OBVIOUS
  <2>1. n \in 4..last /\ n % 4 < Len(slots[n \div 4]) /\ SlotAt(slots, n) # Nothing
    BY DEF FirstOfEach
  <2>2. n \div 4 \in 1..Len(slots) /\ n % 4 \in Nat
    BY <1>1, <2>1
  <2>3. IsSlot(slots[n \div 4])
    BY <1>1, <2>2 DEF AreSlots
  <2>4. (n % 4) + 1 \in DOMAIN slots[n \div 4]
    BY <2>1, <2>2, <2>3 DEF IsSlot
  <2> QED BY <2>1, <2>3, <2>4 DEF IsSlot, SlotAt
<1>5. \A m, n \in S : m < n => SlotAt(slots, m) # SlotAt(slots, n)
  BY DEF FirstOfEach
<1>6. \A m, n \in S : m # n => m < n \/ n < m
  BY <1>2
<1> QED BY <1>2, <1>3, <1>4, <1>5, <1>6

LEMMA FallbackRows ==
  ASSUME NEW context, AreSlots(Slots(context)),
         NEW found, found = FallbackCandidates(context)
  PROVE  \E len \in Nat :
           /\ DOMAIN found = 1..len
           /\ \A i, j \in 1..len : i # j /\ ~found[i].forced /\ ~found[j].forced =>
                <<found[i].tool, found[i].target>> # <<found[j].tool, found[j].target>>
<1> DEFINE slots == Slots(context)
           S == FirstOfEach(slots)
           at == InOrder(S)
<1>1. /\ S \in SUBSET Nat /\ IsFiniteSet(S)
      /\ \A n \in S : Simple(SlotAt(slots, n))
      /\ \A m, n \in S : m # n => SlotAt(slots, m) # SlotAt(slots, n)
  BY FirstOfEachSlots
<1>2. CASE at = <<>>
  <2>1. found = <<Nothing>>
    BY <1>2 DEF FallbackCandidates
  <2> QED BY <2>1
<1>3. CASE at # <<>>
  <2>1. found = [k \in DOMAIN at |-> SlotAt(slots, at[k])]
    BY <1>3 DEF FallbackCandidates
  <2> HIDE DEF S, slots
  <2>2. /\ Cardinality(S) \in Nat /\ DOMAIN at = 1..Cardinality(S)
        /\ \A k \in 1..Cardinality(S) : at[k] \in S
        /\ \A j, k \in 1..Cardinality(S) : j # k => at[j] # at[k]
    BY <1>1, InOrderMembers, InOrderDistinct
  <2> HIDE DEF at
  <2>3. \A j, k \in 1..Cardinality(S) :
          /\ Simple(found[j])
          /\ j # k => found[j] # found[k]
    <3>1. \A j \in 1..Cardinality(S) : found[j] = SlotAt(slots, at[j])
      BY <2>1, <2>2
    <3>2. ASSUME NEW j \in 1..Cardinality(S), NEW k \in 1..Cardinality(S), j # k
          PROVE  found[j] # found[k]
      BY <1>1, <2>2, <3>1, <3>2
    <3> QED BY <1>1, <2>2, <3>1, <3>2
  <2>4. \A j, k \in 1..Cardinality(S) :
          j # k => <<found[j].tool, found[j].target>> # <<found[k].tool, found[k].target>>
    BY <2>3 DEF Simple
  <2> QED BY <2>1, <2>2, <2>4
<1> QED BY <1>2, <1>3

\* A plan as it is made keeps what PlanSound says.
LEMMA BuiltSound ==
  ASSUME NEW context, IsList(context.findings), IsList(context.artifacts),
         IsList(context.memory), IsFiniteSet(context.policy.hosts),
         IsFiniteSet(context.policy.domains),
         NEW answer, IsList(answer), NEW built, built = BuiltPlan(context, answer)
  PROVE  /\ IsList(built.rows) /\ \A i \in DOMAIN built.rows : Fresh(built.rows[i])
         /\ Sound(context.policy, built.source, built.rows)
<1> DEFINE raw == ModelCandidates(answer)
           model == Finalized(context.policy, raw)
           found == FallbackCandidates(context)
           other == Finalized(context.policy, found)
<1>1. \E len \in Nat : DOMAIN raw = 1..len
  <2> DEFINE n == Min({Len(answer), MaxProposed + 3})
  <2>1. Len(answer) \in Nat /\ MaxProposed + 3 \in Nat
    BY ListDomain, PlanAssumption
  <2>2. n \in Nat /\ n <= Len(answer)
    <3>1. n \in {Len(answer), MaxProposed + 3} /\ n <= Len(answer)
      BY <2>1 DEF Min
    <3> QED BY <2>1, <3>1
  <2>3. DOMAIN raw = DOMAIN SubSeq(answer, 1, n)
    BY DEF ModelCandidates
  <2> HIDE DEF n
  <2>4. DOMAIN SubSeq(answer, 1, n) = 1..n
    <3>1. answer \in Seq(ToSet(answer))
      BY DEF IsList
    <3>2. SubSeq(answer, 1, n) = [i \in 1..(n - 1 + 1) |-> answer[i + 1 - 1]]
      BY <2>1, <2>2, <3>1, SubSeqProperties
    <3> QED BY <2>2, <3>2
  <2> QED BY <2>2, <2>3, <2>4
<1>2. PICK len \in Nat : DOMAIN raw = 1..len
  BY <1>1
<1> HIDE DEF raw
<1>3. PICK size \in Nat :
           /\ DOMAIN found = 1..size
           /\ \A i, j \in 1..size : i # j /\ ~found[i].forced /\ ~found[j].forced =>
                <<found[i].tool, found[i].target>> # <<found[j].tool, found[j].target>>
  BY SlotsAreSlots, FallbackRows
<1> HIDE DEF found
<1>4. FinalOf(context.policy, raw, len, model) /\ FinalOf(context.policy, found, size, other)
  BY <1>2, <1>3, FinalizedRows
<1>5. IsList(model) /\ IsList(other)
  <2>1. model = [i \in 1..len |-> model[i]] /\ other = [i \in 1..size |-> other[i]]
    BY <1>2, <1>3 DEF Finalized
  <2> HIDE DEF model, other
  <2> QED BY <1>4, <2>1, ListOfFunction DEF FinalOf
<1> HIDE DEF model, other
<1>a. Sound(context.policy, "model", model)
  BY <1>4 DEF Sound, FinalOf
<1>b. Sound(context.policy, "fallback", other)
  <2>1. \A i \in Proposed(other) : i \in 1..size
    BY <1>4 DEF Proposed, FinalOf
  <2>2. \A i \in Proposed(other) :
          ~found[i].forced /\ other[i].tool = found[i].tool /\ other[i].target = found[i].target
    BY <1>4 DEF FinalOf
  <2>3. \A i, j \in Proposed(other) :
          i # j => <<other[i].tool, other[i].target>> # <<other[j].tool, other[j].target>>
    BY <1>3, <2>1, <2>2
  <2> QED BY <1>4, <2>3 DEF Sound, FinalOf
<1>6. built = IF Proposed(model) # {} THEN [source |-> "model", rows |-> model]
              ELSE [source |-> "fallback", rows |-> other]
  BY DEF BuiltPlan, model, other, raw, found
<1> QED BY <1>4, <1>5, <1>a, <1>b, <1>6 DEF FinalOf

-----------------------------------------------------------------------------
(* The inductive invariant.                                                *)

StateFields == {"pc", "plan", "rows", "policy", "todo", "changed", "entries", "job", "apply", "alone"}
PlanFields  == {"status", "source", "rows", "policy", "torn"}
JobFields   == {"plan", "row", "tool", "target", "args", "done", "apply", "policy", "named"}

\* Rows as they are saved: those that were not applied name no job.
AreRows(rows) ==
  /\ IsFiniteSet(DOMAIN rows) /\ DOMAIN rows \in SUBSET Nat
  /\ \A i \in DOMAIN rows :
       DOMAIN rows[i] = Fields /\ (rows[i].apply # "applied" => rows[i].job = 0)

\* What a row proposes is never changed.
Unchanged(row, other) ==
  /\ row.kind = other.kind /\ row.tool = other.tool /\ row.target = other.target
  /\ row.args = other.args /\ row.index = other.index

SameJobs(rows, others) ==
  DOMAIN rows = DOMAIN others /\ \A i \in DOMAIN rows : Unchanged(rows[i], others[i])

\* Some of a set in some order.
AreDistinct(todo, S) ==
  todo \in Seq(S) /\ \A m, n \in DOMAIN todo : m # n => todo[m] # todo[n]

Underway(c) == cons[c].pc \in {"apply", "link", "save"}

\* StatusSumsUp of one plan.
Sums(plan) ==
  LET states == {plan.rows[i].apply : i \in Proposed(plan.rows)}
  IN /\ plan.status = "applied" <=> states = {"applied"}
     /\ plan.status = "proposed" <=> states \subseteq {"pending"}

Tables ==
  /\ policy \in Policies
  /\ IsList(jobs) /\ IsList(artifacts) /\ IsList(findings) /\ IsList(memory) /\ IsList(plans)
  /\ DOMAIN used = {"applies", "patches", "crashes"} /\ used.applies \in Nat

PlansMade ==
  \A p \in DOMAIN plans :
    /\ DOMAIN plans[p] = PlanFields /\ plans[p].torn \in BOOLEAN /\ AreRows(plans[p].rows)
    /\ Sound(plans[p].policy, plans[p].source, plans[p].rows)

\* What a console has read of the rows, and the proposals it has still to apply.
HasRead(state, rows) ==
  /\ AreRows(state.rows) /\ SameJobs(state.rows, rows)
  /\ AreDistinct(state.todo, Proposed(state.rows))
  /\ state.pc = "link" => state.todo # <<>>

Reads ==
  /\ DOMAIN cons = Console
  /\ \A c \in Console :
       /\ DOMAIN cons[c] = StateFields
       /\ cons[c].pc \in {"idle", "derive", "remember", "apply", "link", "save"}
       /\ cons[c].alone \in BOOLEAN /\ cons[c].changed \in BOOLEAN
       /\ Underway(c) =>
            cons[c].plan \in DOMAIN plans /\ HasRead(cons[c], plans[cons[c].plan].rows)

\* Applies are told apart, and a job of one is of a proposal it is done with.
Left(state) == IF state.pc = "apply" THEN ToSet(state.todo)
               ELSE IF state.pc = "link" THEN ToSet(Tail(state.todo)) ELSE {}

JobsMade ==
  /\ \A k \in DOMAIN jobs :
       /\ DOMAIN jobs[k] = JobFields /\ jobs[k].named = 0 /\ jobs[k].apply \in 1..used.applies
       /\ Precheck(jobs[k].tool, jobs[k].target, jobs[k].args, jobs[k].policy) = "proposed"
  /\ \A j, k \in DOMAIN jobs : j # k /\ jobs[j].apply = jobs[k].apply => jobs[j].row # jobs[k].row
  /\ \A c \in Console : Underway(c) =>
       /\ cons[c].apply \in 1..used.applies
       /\ \A d \in Console : d # c /\ Underway(d) => cons[d].apply # cons[c].apply
       /\ \A k \in DOMAIN jobs : jobs[k].apply = cons[c].apply => jobs[k].row \notin Left(cons[c])

\* Whoever applies a plan that is not torn is alone with it; what it saves in
\* the end is then of the rows as they are.
Alone ==
  \A c \in Console : Underway(c) =>
    LET plan == plans[cons[c].plan]
    IN /\ ~plan.torn => cons[c].alone
       /\ cons[c].alone => Applying(cons[c].plan) = {c}
       /\ cons[c].pc = "save" => cons[c].changed /\ (cons[c].alone => cons[c].rows = plan.rows)
       /\ cons[c].changed => Proposed(plan.rows) # {}
       /\ ~plan.torn /\ ~cons[c].changed => Sums(plan)

Settled == \A p \in DOMAIN plans : ~plans[p].torn /\ Applying(p) = {} => Sums(plans[p])

IInv == Tables /\ PlansMade /\ Reads /\ JobsMade /\ Alone /\ Settled

-----------------------------------------------------------------------------
(* What the steps have in common.                                          *)

LEMMA ListExcept ==
  ASSUME NEW s, IsList(s), NEW p \in DOMAIN s, NEW e
  PROVE  /\ IsList([s EXCEPT ![p] = e]) /\ DOMAIN [s EXCEPT ![p] = e] = DOMAIN s
         /\ [s EXCEPT ![p] = e][p] = e
         /\ \A q \in DOMAIN s : q # p => [s EXCEPT ![p] = e][q] = s[q]
<1> DEFINE t == [s EXCEPT ![p] = e]
<1>1. Len(s) \in Nat /\ DOMAIN s = 1..Len(s)
  BY ListDomain
<1>2. DOMAIN t = 1..Len(s) /\ t = [i \in 1..Len(s) |-> t[i]]
  BY <1>1
<1>3. t[p] = e /\ \A q \in DOMAIN s : q # p => t[q] = s[q]
  OBVIOUS
<1> HIDE DEF t
<1>4. IsList(t)
  BY <1>1, <1>2, ListOfFunction
<1> QED BY <1>1, <1>2, <1>3, <1>4 DEF t

LEMMA TodoTail ==
  ASSUME NEW S, NEW todo, AreDistinct(todo, S), todo # <<>>
  PROVE  /\ Head(todo) \in S /\ AreDistinct(Tail(todo), S)
         /\ Head(todo) \in ToSet(todo) /\ Head(todo) \notin ToSet(Tail(todo))
         /\ ToSet(Tail(todo)) \subseteq ToSet(todo)
<1>1. todo \in Seq(S) /\ Len(todo) \in Nat /\ DOMAIN todo = 1..Len(todo)
  BY LenProperties DEF AreDistinct
<1>2. Len(todo) # 0
  BY <1>1, EmptySeq
<1>3. /\ Tail(todo) \in Seq(S) /\ Len(Tail(todo)) = Len(todo) - 1
      /\ \A i \in 1..Len(Tail(todo)) : Tail(todo)[i] = todo[i + 1]
      /\ Head(todo) = todo[1] /\ 1 \in DOMAIN todo
  BY <1>1, <1>2, HeadTailProperties
<1>4. DOMAIN Tail(todo) = 1..(Len(todo) - 1)
  BY <1>3, LenProperties
<1>5. \A i \in DOMAIN Tail(todo) :
        Tail(todo)[i] = todo[i + 1] /\ i + 1 \in DOMAIN todo /\ i + 1 # 1 /\ i \in Nat
  BY <1>1, <1>3, <1>4
<1>6. AreDistinct(Tail(todo), S)
  BY <1>3, <1>5 DEF AreDistinct
<1>7. Head(todo) \in S
  BY <1>1, <1>3, LenProperties
<1> QED BY <1>3, <1>5, <1>6, <1>7 DEF AreDistinct, ToSet

LEMMA SameProposed ==
  ASSUME NEW rows, NEW others, SameJobs(rows, others)
  PROVE  /\ Proposed(rows) = Proposed(others) /\ SameJobs(others, rows)
         /\ \A last : SameJobs(others, last) => SameJobs(rows, last)
BY DEF SameJobs, Unchanged, Proposed

LEMMA SoundKept ==
  ASSUME NEW p, NEW source, NEW rows, NEW others, SameJobs(rows, others), Sound(p, source, rows)
  PROVE  Sound(p, source, others)
<1>1. /\ Proposed(rows) = Proposed(others)
      /\ \A i \in Proposed(rows) : i \in DOMAIN rows /\ Unchanged(rows[i], others[i])
  BY SameProposed DEF SameJobs, Proposed
<1>2. {rows[i].index : i \in Proposed(rows)} = {others[i].index : i \in Proposed(others)}
  BY <1>1 DEF Unchanged
<1>3. \A i \in Proposed(rows) : Revalidated(p, rows[i]) => Revalidated(p, others[i])
  BY <1>1 DEF Unchanged, Revalidated
<1>4. \A i \in Proposed(rows) : rows[i].tool = others[i].tool /\ rows[i].target = others[i].target
  BY <1>1 DEF Unchanged
<1> QED BY <1>1, <1>2, <1>3, <1>4 DEF Sound

\* _derive_plan_status sums up the rows it is given.
LEMMA DerivedSums ==
  ASSUME NEW plan, Proposed(plan.rows) # {}, NEW status, plan.status = Derived(status, plan.rows)
  PROVE  Sums(plan)
<1> DEFINE states == {plan.rows[i].apply : i \in Proposed(plan.rows)}
<1>1. states # {}
  OBVIOUS
<1>2. plan.status = IF states = {"applied"} THEN "applied"
                    ELSE IF states # {"pending"} THEN "partially_applied" ELSE "proposed"
  BY <1>1 DEF Derived
<1> HIDE DEF states
<1>3. plan.status = "applied" <=> states = {"applied"}
  BY <1>2
<1>4. plan.status = "proposed" <=> states \subseteq {"pending"}
  BY <1>1, <1>2
<1> QED BY <1>3, <1>4 DEF Sums, states

LEMMA FreshSums ==
  ASSUME NEW plan, plan.status = "proposed", \A i \in DOMAIN plan.rows : Fresh(plan.rows[i])
  PROVE  Sums(plan)
BY DEF Sums, Fresh, Proposed

\* The facts are lists, newest first.
LEMMA NumberedList ==
  ASSUME NEW rows, IsList(rows), NEW S \in SUBSET (DOMAIN rows), NEW list,
         list = [n \in DOMAIN InOrder(S) |->
                   Numbered(rows[InOrder(S)[Len(InOrder(S)) + 1 - n]], InOrder(S)[Len(InOrder(S)) + 1 - n])]
  PROVE  /\ IsList(list)
         /\ \A n \in DOMAIN list : \E i \in DOMAIN rows : list[n] = Numbered(rows[i], i)
<1> DEFINE at == InOrder(S)
           len == Cardinality(S)
<1>1. IsFiniteSet(S) /\ S \in SUBSET Nat
  <2>1. DOMAIN rows = 1..Len(rows) /\ Len(rows) \in Nat /\ IsFiniteSet(DOMAIN rows)
    BY ListDomain
  <2> QED BY <2>1, FS_Subset
<1>2. /\ len \in Nat /\ DOMAIN at = 1..len /\ Len(at) = len
      /\ \A n \in 1..len : at[n] \in S
  BY <1>1, InOrderMembers
<1>3. list = [n \in DOMAIN at |-> Numbered(rows[at[Len(at) + 1 - n]], at[Len(at) + 1 - n])]
  OBVIOUS
<1> HIDE DEF at, len
<1>4. DOMAIN list = 1..len /\ list = [n \in 1..len |-> list[n]]
  BY <1>2, <1>3
<1>5. ASSUME NEW n \in 1..len
      PROVE  \E i \in DOMAIN rows : list[n] = Numbered(rows[i], i)
  <2>1. Len(at) + 1 - n \in 1..len
    BY <1>2
  <2> QED BY <1>2, <1>3, <2>1
<1> QED BY <1>2, <1>4, <1>5, ListOfFunction

\* The facts that are read of a table.
ReadOf(list, rows) ==
  /\ IsList(list)
  /\ \A n \in DOMAIN list : \E i \in DOMAIN rows : list[n] = Numbered(rows[i], i)

LEMMA ContextLists ==
  ASSUME Tables
  PROVE  /\ ReadOf(Context.jobs, jobs) /\ ReadOf(Context.findings, findings)
         /\ ReadOf(Context.artifacts, artifacts) /\ ReadOf(Context.memory, memory)
         /\ Context.policy = policy
<1>1. ReadOf(Context.jobs, jobs)
  <2> DEFINE S == {i \in DOMAIN jobs : jobs[i].done}
             Row(i) == Numbered(jobs[i], i)
             list == [n \in DOMAIN InOrder(S) |-> Row(InOrder(S)[Len(InOrder(S)) + 1 - n])]
  <2>1. Context.jobs = list
    BY DEF Context, Newest
  <2>2. S \in SUBSET (DOMAIN jobs)
    OBVIOUS
  <2>3. list = [n \in DOMAIN InOrder(S) |-> Numbered(jobs[InOrder(S)[Len(InOrder(S)) + 1 - n]],
                                                    InOrder(S)[Len(InOrder(S)) + 1 - n])]
    OBVIOUS
  <2>4. IsList(jobs)
    BY DEF Tables
  <2> HIDE DEF S, list
  <2>5. ReadOf(list, jobs)
    BY <2>2, <2>3, <2>4, NumberedList DEF ReadOf
  <2> QED BY <2>1, <2>5
<1>2. ReadOf(Context.findings, findings)
  <2> DEFINE S == {i \in DOMAIN findings : findings[i].open}
             Row(i) == Numbered(findings[i], i)
             list == [n \in DOMAIN InOrder(S) |-> Row(InOrder(S)[Len(InOrder(S)) + 1 - n])]
  <2>1. Context.findings = list
    BY DEF Context, Newest
  <2>2. S \in SUBSET (DOMAIN findings)
    OBVIOUS
  <2>3. list = [n \in DOMAIN InOrder(S) |-> Numbered(findings[InOrder(S)[Len(InOrder(S)) + 1 - n]],
                                                    InOrder(S)[Len(InOrder(S)) + 1 - n])]
    OBVIOUS
  <2>4. IsList(findings)
    BY DEF Tables
  <2> HIDE DEF S, list
  <2>5. ReadOf(list, findings)
    BY <2>2, <2>3, <2>4, NumberedList DEF ReadOf
  <2> QED BY <2>1, <2>5
<1>3. ReadOf(Context.artifacts, artifacts)
  <2> DEFINE S == {i \in DOMAIN artifacts : TRUE}
             Row(i) == Numbered(artifacts[i], i)
             list == [n \in DOMAIN InOrder(S) |-> Row(InOrder(S)[Len(InOrder(S)) + 1 - n])]
  <2>1. Context.artifacts = list
    BY DEF Context, Newest
  <2>2. S \in SUBSET (DOMAIN artifacts)
    OBVIOUS
  <2>3. list = [n \in DOMAIN InOrder(S) |-> Numbered(artifacts[InOrder(S)[Len(InOrder(S)) + 1 - n]],
                                                    InOrder(S)[Len(InOrder(S)) + 1 - n])]
    OBVIOUS
  <2>4. IsList(artifacts)
    BY DEF Tables
  <2> HIDE DEF S, list
  <2>5. ReadOf(list, artifacts)
    BY <2>2, <2>3, <2>4, NumberedList DEF ReadOf
  <2> QED BY <2>1, <2>5
<1>4. ReadOf(Context.memory, memory)
  <2> DEFINE S == {i \in DOMAIN memory : TRUE}
             Row(i) == Numbered(memory[i], i)
             list == [n \in DOMAIN InOrder(S) |-> Row(InOrder(S)[Len(InOrder(S)) + 1 - n])]
  <2>1. Context.memory = list
    BY DEF Context, Newest
  <2>2. S \in SUBSET (DOMAIN memory)
    OBVIOUS
  <2>3. list = [n \in DOMAIN InOrder(S) |-> Numbered(memory[InOrder(S)[Len(InOrder(S)) + 1 - n]],
                                                    InOrder(S)[Len(InOrder(S)) + 1 - n])]
    OBVIOUS
  <2>4. IsList(memory)
    BY DEF Tables
  <2> HIDE DEF S, list
  <2>5. ReadOf(list, memory)
    BY <2>2, <2>3, <2>4, NumberedList DEF ReadOf
  <2> QED BY <2>1, <2>5
<1> QED BY <1>1, <1>2, <1>3, <1>4 DEF Context

-----------------------------------------------------------------------------
(* Steps in which nobody applies a plan.                                   *)

\* A plan that is as it was, but for the rows' states, its status and torn.
SamePlan(plan, other) ==
  /\ DOMAIN other = PlanFields /\ other.torn \in BOOLEAN /\ AreRows(other.rows)
  /\ SameJobs(plan.rows, other.rows) /\ other.source = plan.source /\ other.policy = plan.policy

PlansKept ==
  /\ IsList(plans') /\ DOMAIN plans' = DOMAIN plans
  /\ \A p \in DOMAIN plans : SamePlan(plans[p], plans'[p])

\* Jobs may end.
JobsKept ==
  /\ IsList(jobs') /\ DOMAIN jobs' = DOMAIN jobs
  /\ \A k \in DOMAIN jobs :
       DOMAIN jobs'[k] = JobFields /\ \A f \in JobFields \ {"done"} : jobs'[k][f] = jobs[k][f]

IsState(state) ==
  /\ DOMAIN state = StateFields
  /\ state.pc \in {"idle", "derive", "remember", "apply", "link", "save"}
  /\ state.alone \in BOOLEAN /\ state.changed \in BOOLEAN

\* A plan that is new and that nobody applies.
NewOne(plan) ==
  /\ DOMAIN plan = PlanFields /\ plan.torn \in BOOLEAN /\ AreRows(plan.rows)
  /\ Sound(plan.policy, plan.source, plan.rows) /\ Sums(plan)

Quiet ==
  /\ Tables' /\ JobsKept /\ used'.applies = used.applies
  /\ DOMAIN cons' = Console
  /\ \A c \in Console :
       \/ cons'[c] = cons[c]
       \/ ~Underway(c) /\ ~Underway(c)' /\ IsState(cons'[c])
  /\ DOMAIN plans \subseteq DOMAIN plans'
  /\ \A p \in DOMAIN plans : plans'[p] = plans[p]
  /\ \A p \in DOMAIN plans' : p \notin DOMAIN plans => NewOne(plans'[p])

LEMMA QuietSteps ==
  ASSUME IInv, Quiet
  PROVE  IInv'
<1>1. \A c \in Console : Underway(c)' => Underway(c) /\ cons'[c] = cons[c]
  BY DEF Quiet, Underway
<1>2. \A c \in Console : Underway(c) => Underway(c)' /\ cons'[c] = cons[c]
  BY DEF Quiet, Underway
<1>3. \A p \in DOMAIN plans : Applying(p)' = Applying(p)
  BY <1>1, <1>2 DEF Applying, Underway
<1>4. \A p \in DOMAIN plans : p \in DOMAIN plans' /\ plans'[p] = plans[p]
  BY DEF Quiet
<1>5. Tables'
  BY DEF Quiet
<1>6. PlansMade'
  BY DEF Quiet, NewOne, IInv, PlansMade
<1>7. Reads'
  <2>1. \A c \in Console : IsState(cons'[c])
    BY DEF Quiet, IInv, Reads, IsState
  <2> QED BY <1>1, <1>4, <2>1 DEF Quiet, IInv, Reads, IsState
<1>8. JobsMade'
  <2>1. \A k \in DOMAIN jobs :
          /\ jobs'[k].plan = jobs[k].plan /\ jobs'[k].row = jobs[k].row
          /\ jobs'[k].tool = jobs[k].tool /\ jobs'[k].target = jobs[k].target
          /\ jobs'[k].args = jobs[k].args /\ jobs'[k].policy = jobs[k].policy
          /\ jobs'[k].apply = jobs[k].apply /\ jobs'[k].named = jobs[k].named
    BY DEF Quiet, JobsKept, JobFields
  <2>2. DOMAIN jobs' = DOMAIN jobs /\ \A k \in DOMAIN jobs : DOMAIN jobs'[k] = JobFields
    BY DEF Quiet, JobsKept
  <2>3. used'.applies = used.applies
    BY DEF Quiet
  <2>4. \A k \in DOMAIN jobs' :
          /\ DOMAIN jobs'[k] = JobFields /\ jobs'[k].named = 0 /\ jobs'[k].apply \in 1..used'.applies
          /\ Precheck(jobs'[k].tool, jobs'[k].target, jobs'[k].args, jobs'[k].policy) = "proposed"
    BY <2>1, <2>2, <2>3 DEF IInv, JobsMade
  <2>5. \A j, k \in DOMAIN jobs' :
          j # k /\ jobs'[j].apply = jobs'[k].apply => jobs'[j].row # jobs'[k].row
    BY <2>1, <2>2 DEF IInv, JobsMade
  <2>6. \A c \in Console : Underway(c)' =>
          /\ cons'[c].apply \in 1..used'.applies
          /\ \A d \in Console : d # c /\ Underway(d)' => cons'[d].apply # cons'[c].apply
          /\ \A k \in DOMAIN jobs' : jobs'[k].apply = cons'[c].apply => jobs'[k].row \notin Left(cons'[c])
    BY <1>1, <2>1, <2>2, <2>3 DEF IInv, JobsMade
  <2> QED BY <2>4, <2>5, <2>6 DEF JobsMade
<1>9. Alone'
  <2>1. \A c \in Console : Underway(c)' =>
          /\ cons'[c] = cons[c] /\ Underway(c) /\ plans'[cons'[c].plan] = plans[cons[c].plan]
          /\ Applying(cons[c].plan)' = Applying(cons[c].plan)
    BY <1>1, <1>3, <1>4 DEF IInv, Reads
  <2> QED BY <2>1 DEF IInv, Alone
<1>10. Settled'
  <2>1. \A p \in DOMAIN plans' : p \notin DOMAIN plans => Sums(plans'[p])
    BY DEF Quiet, NewOne
  <2> QED BY <1>3, <1>4, <2>1 DEF IInv, Settled
<1> QED BY <1>5, <1>6, <1>7, <1>8, <1>9, <1>10 DEF IInv

LEMMA NothingChanges ==
  ASSUME IInv, UNCHANGED vars
  PROVE  Quiet
BY DEF vars, IInv, Quiet, Tables, JobsKept, JobsMade, JobFields, Reads

LEMMA JobsStay ==
  ASSUME IInv, jobs' = jobs
  PROVE  JobsKept
BY DEF IInv, Tables, JobsMade, JobsKept, JobFields

LEMMA NewRows ==
  ASSUME IInv, NEW answer \in Answers, NEW built, built = BuiltPlan(Context, answer)
  PROVE  /\ IsList(built.rows) /\ \A i \in DOMAIN built.rows : Fresh(built.rows[i])
         /\ Sound(policy, built.source, built.rows)
<1>1. /\ IsList(Context.findings) /\ IsList(Context.artifacts) /\ IsList(Context.memory)
      /\ Context.policy = policy
  BY ContextLists DEF IInv, ReadOf
<1>2. IsFiniteSet(policy.hosts) /\ IsFiniteSet(policy.domains)
  BY PlannerAssumption DEF IInv, Tables
<1>3. IsList(answer)
  BY PlannerAssumption DEF IsList
<1> QED BY <1>1, <1>2, <1>3, BuiltSound

LEMMA CreatePlanQuiet ==
  ASSUME IInv, NEW c \in Console, NEW answer \in Answers, CreatePlan(c, answer)
  PROVE  Quiet
<1> DEFINE built == BuiltPlan(Context, answer)
           new == NewPlan(built)
<1>1. /\ cons[c].pc = "idle" /\ plans' = Append(plans, new)
      /\ cons' = [cons EXCEPT ![c] = [Idle EXCEPT !.pc = "derive"]]
      /\ UNCHANGED <<policy, jobs, artifacts, findings, memory, used>>
  BY DEF CreatePlan, Goto
<1>2. /\ IsList(built.rows) /\ \A i \in DOMAIN built.rows : Fresh(built.rows[i])
      /\ Sound(policy, built.source, built.rows)
  <2> HIDE DEF built
  <2>1. built = BuiltPlan(Context, answer)
    BY DEF built
  <2> QED BY <2>1, NewRows
<1> HIDE DEF built
<1>3. NewOne(new)
  <2>1. /\ new.status = "proposed" /\ new.source = built.source /\ new.rows = built.rows
        /\ new.policy = policy /\ new.torn = FALSE /\ DOMAIN new = PlanFields
    BY DEF NewPlan, PlanFields
  <2> HIDE DEF new
  <2>2. AreRows(new.rows)
    <3>1. IsFiniteSet(DOMAIN built.rows) /\ DOMAIN built.rows \in SUBSET Nat
      BY <1>2, ListDomain
    <3> QED BY <1>2, <2>1, <3>1 DEF AreRows, Fresh
  <2>3. Sums(new)
    BY <1>2, <2>1, FreshSums
  <2> QED BY <1>2, <2>1, <2>2, <2>3 DEF NewOne
<1> HIDE DEF new
<1>4. /\ IsList(plans') /\ Len(plans) \in Nat /\ DOMAIN plans = 1..Len(plans)
      /\ DOMAIN plans' = 1..(Len(plans) + 1) /\ plans'[Len(plans) + 1] = new
      /\ \A p \in DOMAIN plans : plans'[p] = plans[p]
  BY <1>1, ListDomain, ListAppend DEF IInv, Tables
<1>5. Tables'
  BY <1>1, <1>4 DEF IInv, Tables
<1>6. \A d \in Console : \/ cons'[d] = cons[d]
                         \/ ~Underway(d) /\ ~Underway(d)' /\ IsState(cons'[d])
  BY <1>1 DEF IInv, Reads, Idle, Underway, IsState, StateFields
<1>7. DOMAIN cons' = Console
  BY <1>1 DEF IInv, Reads
<1> QED BY <1>1, <1>3, <1>4, <1>5, <1>6, <1>7, JobsStay DEF Quiet

LEMMA DeriveQuiet ==
  ASSUME IInv, NEW c \in Console, Derive(c)
  PROVE  Quiet
<1>1. /\ cons[c].pc = "derive"
      /\ cons' = [cons EXCEPT ![c] = [cons[c] EXCEPT !.pc = "remember", !.entries = MemoryOf(Context)]]
      /\ UNCHANGED <<policy, jobs, artifacts, findings, memory, plans, used>>
  BY DEF Derive, Goto
<1>2. Tables' /\ DOMAIN cons' = Console
  BY <1>1 DEF IInv, Tables, Reads
<1>3. \A d \in Console : \/ cons'[d] = cons[d]
                         \/ ~Underway(d) /\ ~Underway(d)' /\ IsState(cons'[d])
  BY <1>1 DEF IInv, Reads, Underway, IsState, StateFields
<1> QED BY <1>1, <1>2, <1>3, JobsStay DEF Quiet

LEMMA RememberQuiet ==
  ASSUME IInv, NEW c \in Console, Remember(c)
  PROVE  Quiet
<1>1. /\ cons[c].pc = "remember" /\ memory' = Append(memory, Head(cons[c].entries))
      /\ cons' = [cons EXCEPT ![c] = [cons[c] EXCEPT !.entries = Tail(cons[c].entries)]]
      /\ UNCHANGED <<policy, jobs, artifacts, findings, plans, used>>
  BY DEF Remember, Goto
<1>2. IsList(memory')
  BY <1>1, ListAppend DEF IInv, Tables
<1>3. Tables' /\ DOMAIN cons' = Console
  BY <1>1, <1>2 DEF IInv, Tables, Reads
<1>4. \A d \in Console : \/ cons'[d] = cons[d]
                         \/ ~Underway(d) /\ ~Underway(d)' /\ IsState(cons'[d])
  BY <1>1 DEF IInv, Reads, Underway, IsState, StateFields
<1> QED BY <1>1, <1>3, <1>4, JobsStay DEF Quiet

LEMMA EndWritebackQuiet ==
  ASSUME IInv, NEW c \in Console, EndWriteback(c)
  PROVE  Quiet
<1>1. /\ cons[c].pc = "remember" /\ cons' = [cons EXCEPT ![c] = Idle]
      /\ UNCHANGED <<policy, jobs, artifacts, findings, memory, plans, used>>
  BY DEF EndWriteback, Goto
<1>2. Tables' /\ DOMAIN cons' = Console
  BY <1>1 DEF IInv, Tables, Reads
<1>3. \A d \in Console : \/ cons'[d] = cons[d]
                         \/ ~Underway(d) /\ ~Underway(d)' /\ IsState(cons'[d])
  BY <1>1 DEF IInv, Reads, Idle, Underway, IsState, StateFields
<1> QED BY <1>1, <1>2, <1>3, JobsStay DEF Quiet

LEMMA SavePolicyQuiet ==
  ASSUME IInv, NEW p \in Policies, SavePolicy(p)
  PROVE  Quiet
<1>1. /\ policy' = p /\ used' = [used EXCEPT !.patches = used.patches + 1]
      /\ UNCHANGED <<jobs, artifacts, findings, memory, plans, cons>>
  BY DEF SavePolicy
<1>2. used'.applies = used.applies /\ DOMAIN used' = DOMAIN used
  BY <1>1 DEF IInv, Tables
<1>3. Tables' /\ DOMAIN cons' = Console
  BY <1>1, <1>2 DEF IInv, Tables, Reads
<1> QED BY <1>1, <1>2, <1>3, JobsStay DEF Quiet

LEMMA SucceedQuiet ==
  ASSUME IInv, NEW k \in DOMAIN jobs, NEW flaws, flaws = {} \/ \E f : flaws = {f},
         Succeed(k, flaws)
  PROVE  Quiet
<1> DEFINE found == Findings(jobs[k].tool, jobs[k].target, jobs[k].args, flaws)
           done == [jobs[k] EXCEPT !.done = TRUE]
<1>1. /\ jobs' = [jobs EXCEPT ![k] = done]
      /\ artifacts' = Append(artifacts, Evidence(jobs[k].tool, jobs[k].target, jobs[k].args))
      /\ findings' = findings \o SetToSeq(found)
      /\ UNCHANGED <<policy, memory, plans, cons, used>>
  BY DEF Succeed
<1>2. IsFiniteSet(found)
  <2>1. found = {} \/ \E f : found = {f}
    BY DEF Findings
  <2> HIDE DEF found
  <2> QED BY <2>1, FS_EmptySet, FS_Singleton
<1> HIDE DEF found
<1>3. IsList(artifacts') /\ IsList(findings')
  BY <1>1, <1>2, ListAppend, ListConcat, SetList DEF IInv, Tables
<1>4. /\ IsList(jobs') /\ DOMAIN jobs' = DOMAIN jobs /\ jobs'[k] = done
      /\ \A j \in DOMAIN jobs : j # k => jobs'[j] = jobs[j]
  <2> HIDE DEF done
  <2> QED BY <1>1, ListExcept DEF IInv, Tables
<1>5. JobsKept
  <2>1. DOMAIN done = JobFields /\ \A f \in JobFields \ {"done"} : done[f] = jobs[k][f]
    BY DEF IInv, JobsMade, JobFields
  <2>2. \A j \in DOMAIN jobs : DOMAIN jobs[j] = JobFields
    BY DEF IInv, JobsMade
  <2> HIDE DEF done
  <2> QED BY <1>4, <2>1, <2>2 DEF JobsKept
<1>6. Tables' /\ DOMAIN cons' = Console
  BY <1>1, <1>3, <1>4 DEF IInv, Tables, Reads
<1> QED BY <1>1, <1>5, <1>6 DEF Quiet

LEMMA CloseFindingQuiet ==
  ASSUME IInv, NEW k \in DOMAIN findings, CloseFinding(k)
  PROVE  Quiet
<1> DEFINE closed == [findings[k] EXCEPT !.open = FALSE]
<1>1. /\ findings' = [findings EXCEPT ![k] = closed]
      /\ UNCHANGED <<policy, jobs, artifacts, memory, plans, cons, used>>
  BY DEF CloseFinding
<1> HIDE DEF closed
<1>2. IsList(findings')
  BY <1>1, ListExcept DEF IInv, Tables
<1>3. Tables' /\ DOMAIN cons' = Console
  BY <1>1, <1>2 DEF IInv, Tables, Reads
<1> QED BY <1>1, <1>3, JobsStay DEF Quiet

-----------------------------------------------------------------------------
(* Steps of a console that applies a plan.                                 *)

\* What is left to a console when another one moves.
SameState(state, other) ==
  /\ DOMAIN other = StateFields /\ other.alone \in BOOLEAN
  /\ other.pc = state.pc /\ other.plan = state.plan /\ other.rows = state.rows
  /\ other.todo = state.todo /\ other.changed = state.changed /\ other.apply = state.apply

Moves(c) ==
  /\ Tables' /\ PlansKept /\ DOMAIN cons' = Console
  /\ \A d \in Console : d # c => SameState(cons[d], cons'[d])
  /\ IsState(cons'[c])
  /\ Underway(c)' =>
       cons'[c].plan \in DOMAIN plans /\ HasRead(cons'[c], plans'[cons'[c].plan].rows)

LEMMA MovesRead ==
  ASSUME IInv, NEW c \in Console, Moves(c)
  PROVE  PlansMade' /\ Reads'
<1>1. PlansMade'
  <2> SUFFICES ASSUME NEW p \in DOMAIN plans
               PROVE  /\ DOMAIN plans'[p] = PlanFields /\ plans'[p].torn \in BOOLEAN
                      /\ AreRows(plans'[p].rows)
                      /\ Sound(plans'[p].policy, plans'[p].source, plans'[p].rows)
    BY DEF Moves, PlansKept, PlansMade
  <2>1. SamePlan(plans[p], plans'[p]) /\ Sound(plans[p].policy, plans[p].source, plans[p].rows)
    BY DEF Moves, PlansKept, IInv, PlansMade
  <2> QED BY <2>1, SoundKept DEF SamePlan
<1>2. Reads'
  <2>1. \A d \in Console : IsState(cons'[d])
    BY DEF Moves, SameState, IsState, IInv, Reads
  <2>2. ASSUME NEW d \in Console, Underway(d)'
        PROVE  cons'[d].plan \in DOMAIN plans' /\ HasRead(cons'[d], plans'[cons'[d].plan].rows)
    <3>1. CASE d = c
      BY <2>2, <3>1 DEF Moves, PlansKept
    <3>2. CASE d # c
      <4>1. SameState(cons[d], cons'[d]) /\ Underway(d)
        BY <2>2, <3>2 DEF Moves, SameState, Underway
      <4>2. cons[d].plan \in DOMAIN plans /\ HasRead(cons[d], plans[cons[d].plan].rows)
        BY <4>1 DEF IInv, Reads
      <4>3. SameJobs(plans[cons[d].plan].rows, plans'[cons[d].plan].rows)
        BY <4>2 DEF Moves, PlansKept, SamePlan
      <4>4. SameJobs(cons[d].rows, plans'[cons[d].plan].rows)
        BY <4>2, <4>3, SameProposed DEF HasRead
      <4> QED BY <4>1, <4>2, <4>4 DEF HasRead, SameState, Moves, PlansKept
    <3> QED BY <3>1, <3>2
  <2> QED BY <2>1, <2>2 DEF Reads, Moves, IsState
<1> QED BY <1>1, <1>2

\* A console that goes on with an apply, or ends it, and creates no job.
LEMMA MovesJobs ==
  ASSUME IInv, NEW c \in Console, Moves(c), jobs' = jobs, used'.applies = used.applies,
         Underway(c)' => /\ Underway(c) /\ cons'[c].apply = cons[c].apply
                         /\ Left(cons'[c]) \subseteq Left(cons[c])
  PROVE  JobsMade'
<1>1. ASSUME NEW d \in Console, Underway(d)'
      PROVE  /\ Underway(d) /\ cons'[d].apply = cons[d].apply
             /\ Left(cons'[d]) \subseteq Left(cons[d])
  <2>1. CASE d = c
    BY <1>1, <2>1
  <2>2. CASE d # c
    <3>1. SameState(cons[d], cons'[d])
      BY <2>2 DEF Moves
    <3>2. Left(cons'[d]) = Left(cons[d])
      BY <3>1 DEF SameState, Left
    <3> QED BY <1>1, <3>1, <3>2 DEF SameState, Underway
  <2> QED BY <2>1, <2>2
<1>2. ASSUME NEW d \in Console, Underway(d)'
      PROVE  /\ cons'[d].apply \in 1..used'.applies
             /\ \A e \in Console : e # d /\ Underway(e)' => cons'[e].apply # cons'[d].apply
             /\ \A k \in DOMAIN jobs' : jobs'[k].apply = cons'[d].apply => jobs'[k].row \notin Left(cons'[d])
  BY <1>1, <1>2 DEF IInv, JobsMade
<1>3. \A k \in DOMAIN jobs' :
       /\ DOMAIN jobs'[k] = JobFields /\ jobs'[k].named = 0 /\ jobs'[k].apply \in 1..used'.applies
       /\ Precheck(jobs'[k].tool, jobs'[k].target, jobs'[k].args, jobs'[k].policy) = "proposed"
  BY DEF IInv, JobsMade
<1>4. \A j, k \in DOMAIN jobs' :
        j # k /\ jobs'[j].apply = jobs'[k].apply => jobs'[j].row # jobs'[k].row
  BY DEF IInv, JobsMade
<1> QED BY <1>2, <1>3, <1>4 DEF JobsMade

LEMMA IsApplying ==
  ASSUME NEW p, NEW d
  PROVE  /\ d \in Applying(p) <=> d \in Console /\ Underway(d) /\ cons[d].plan = p
         /\ d \in Applying(p)' <=> d \in Console /\ Underway(d)' /\ cons'[d].plan = p
BY DEF Applying, Underway

\* Two that apply one plan are neither alone, and the plan is torn.
LEMMA NotAlone ==
  ASSUME IInv, NEW c \in Console, NEW d \in Console, c # d, Underway(c), Underway(d),
         cons[c].plan = cons[d].plan
  PROVE  ~cons[c].alone /\ ~cons[d].alone /\ plans[cons[d].plan].torn
<1>1. c \in Applying(cons[d].plan) /\ d \in Applying(cons[d].plan)
  BY IsApplying
<1>2. Applying(cons[d].plan) # {c} /\ Applying(cons[d].plan) # {d}
  BY <1>1
<1>3. cons[c].alone \in BOOLEAN /\ cons[d].alone \in BOOLEAN /\ plans[cons[d].plan].torn \in BOOLEAN
  BY DEF IInv, Reads, PlansMade
<1> QED BY <1>2, <1>3 DEF IInv, Alone

-----------------------------------------------------------------------------
\* A console that has done with the first of its proposals, and has saved
\* nothing or the job it has still to link.
Passes(c) ==
  /\ Moves(c) /\ plans' = plans /\ used'.applies = used.applies
  /\ \A d \in Console : d # c => cons'[d] = cons[d]
  /\ Underway(c) /\ Underway(c)' /\ cons'[c].pc # "save"
  /\ cons'[c].plan = cons[c].plan /\ cons'[c].apply = cons[c].apply
  /\ cons'[c].alone = cons[c].alone /\ cons'[c].changed = cons[c].changed

LEMMA PassesAlone ==
  ASSUME IInv, NEW c \in Console, Passes(c)
  PROVE  Alone' /\ Settled'
<1>1. \A d \in Console : cons'[d].plan = cons[d].plan /\ (Underway(d)' <=> Underway(d))
  BY DEF Passes, Underway
<1>2. ASSUME NEW p PROVE Applying(p)' = Applying(p)
  <2>1. ASSUME NEW d PROVE d \in Applying(p)' <=> d \in Applying(p)
    BY <1>1, IsApplying
  <2> QED BY <2>1
<1>3. Settled'
  BY <1>2 DEF IInv, Settled, Passes
<1>4. ASSUME NEW d \in Console, Underway(d)'
      PROVE  LET plan == plans[cons[d].plan]
             IN /\ ~plan.torn => cons'[d].alone
                /\ cons'[d].alone => Applying(cons[d].plan) = {d}
                /\ cons'[d].pc = "save" => cons'[d].changed /\ (cons'[d].alone => cons'[d].rows = plan.rows)
                /\ cons'[d].changed => Proposed(plan.rows) # {}
                /\ ~plan.torn /\ ~cons'[d].changed => Sums(plan)
  <2>1. Underway(d)
    BY <1>1, <1>4
  <2>2. CASE d = c
    BY <2>1, <2>2 DEF Passes, IInv, Alone
  <2>3. CASE d # c
    BY <2>1, <2>3 DEF Passes, IInv, Alone
  <2> QED BY <2>2, <2>3
<1>5. Alone'
  BY <1>1, <1>2, <1>4 DEF Alone, Passes
<1> QED BY <1>3, <1>5

LEMMA SkipAppliedKeeps ==
  ASSUME IInv, NEW c \in Console, SkipApplied(c)
  PROVE  IInv'
<1> DEFINE state == [cons[c] EXCEPT !.todo = Tail(cons[c].todo)]
<1>1. /\ cons[c].pc = "apply" /\ cons[c].todo # <<>> /\ cons' = [cons EXCEPT ![c] = state]
      /\ UNCHANGED <<policy, jobs, artifacts, findings, memory, plans, used>>
  BY DEF SkipApplied, Goto
<1>2. /\ DOMAIN state = StateFields /\ state.pc = "apply" /\ state.plan = cons[c].plan
      /\ state.rows = cons[c].rows /\ state.todo = Tail(cons[c].todo)
      /\ state.changed = cons[c].changed /\ state.apply = cons[c].apply
      /\ state.alone = cons[c].alone
  BY <1>1 DEF IInv, Reads, StateFields
<1> HIDE DEF state
<1>3. /\ DOMAIN cons' = Console /\ cons'[c] = state
      /\ \A d \in Console : d # c => cons'[d] = cons[d]
  BY <1>1 DEF IInv, Reads
<1>4. Underway(c) /\ Underway(c)'
  BY <1>1, <1>2, <1>3 DEF Underway
<1>5. Tables' /\ PlansKept
  <2>1. \A p \in DOMAIN plans : SameJobs(plans[p].rows, plans[p].rows)
    BY DEF SameJobs, Unchanged
  <2> QED BY <1>1, <2>1 DEF IInv, Tables, PlansMade, PlansKept, SamePlan
<1>6. cons[c].plan \in DOMAIN plans /\ HasRead(state, plans[cons[c].plan].rows)
  BY <1>1, <1>2, <1>4, TodoTail DEF IInv, Reads, HasRead
<1>7. \A d \in Console : d # c => SameState(cons[d], cons'[d])
  BY <1>3 DEF SameState, IInv, Reads
<1>8. Moves(c)
  BY <1>1, <1>2, <1>3, <1>5, <1>6, <1>7 DEF Moves, IsState, IInv, Reads
<1>9. Passes(c)
  BY <1>1, <1>2, <1>3, <1>4, <1>8 DEF Passes
<1>10. Left(cons'[c]) \subseteq Left(cons[c])
  <2>1. AreDistinct(cons[c].todo, Proposed(cons[c].rows))
    BY <1>4 DEF IInv, Reads, HasRead
  <2> QED BY <1>1, <1>2, <1>3, <2>1, TodoTail DEF Left
<1> QED BY <1>1, <1>2, <1>3, <1>4, <1>8, <1>9, <1>10, MovesRead, MovesJobs, PassesAlone DEF IInv, Moves

LEMMA CreateJobKeeps ==
  ASSUME IInv, NEW c \in Console, CreateJob(c)
  PROVE  IInv'
<1> DEFINE i == Head(cons[c].todo)
           row == cons[c].rows[i]
           job == NewJob(c, i, row)
           state == [cons[c] EXCEPT !.pc = "link", !.job = Len(jobs) + 1]
<1>1. /\ cons[c].pc = "apply" /\ cons[c].todo # <<>> /\ cons' = [cons EXCEPT ![c] = state]
      /\ ~IsApplied(row) /\ StillValid(cons[c].policy, row) /\ jobs' = Append(jobs, job)
      /\ UNCHANGED <<policy, artifacts, findings, memory, plans, used>>
  BY DEF CreateJob, Goto
<1>2. /\ DOMAIN state = StateFields /\ state.pc = "link" /\ state.plan = cons[c].plan
      /\ state.rows = cons[c].rows /\ state.todo = cons[c].todo
      /\ state.changed = cons[c].changed /\ state.apply = cons[c].apply
      /\ state.alone = cons[c].alone
  BY <1>1 DEF IInv, Reads, StateFields
<1> HIDE DEF state
<1>3. /\ DOMAIN cons' = Console /\ cons'[c] = state
      /\ \A d \in Console : d # c => cons'[d] = cons[d]
  BY <1>1 DEF IInv, Reads
<1>4. Underway(c) /\ Underway(c)'
  BY <1>1, <1>2, <1>3 DEF Underway
<1>5. /\ IsList(jobs') /\ Len(jobs) \in Nat /\ DOMAIN jobs = 1..Len(jobs)
      /\ DOMAIN jobs' = 1..(Len(jobs) + 1) /\ jobs'[Len(jobs) + 1] = job
      /\ \A k \in DOMAIN jobs : jobs'[k] = jobs[k]
  <2> HIDE DEF job
  <2> QED BY <1>1, ListDomain, ListAppend DEF IInv, Tables
<1>6. Tables' /\ PlansKept
  <2>1. \A p \in DOMAIN plans : SameJobs(plans[p].rows, plans[p].rows)
    BY DEF SameJobs, Unchanged
  <2> QED BY <1>1, <1>5, <2>1 DEF IInv, Tables, PlansMade, PlansKept, SamePlan
<1>7. cons[c].plan \in DOMAIN plans /\ HasRead(cons[c], plans[cons[c].plan].rows)
  BY <1>4 DEF IInv, Reads
<1>8. HasRead(state, plans[cons[c].plan].rows)
  BY <1>1, <1>2, <1>7 DEF HasRead
<1>9. \A d \in Console : d # c => SameState(cons[d], cons'[d])
  BY <1>3 DEF SameState, IInv, Reads
<1>10. Moves(c)
  BY <1>1, <1>2, <1>3, <1>6, <1>7, <1>8, <1>9 DEF Moves, IsState, IInv, Reads
<1>11. Passes(c)
  BY <1>1, <1>2, <1>3, <1>4, <1>10 DEF Passes
<1>12. /\ i \in Proposed(cons[c].rows) /\ i \in Left(cons[c]) /\ i \notin Left(state)
       /\ Left(state) \subseteq Left(cons[c])
  BY <1>1, <1>2, <1>7, TodoTail DEF HasRead, Left
<1>13. /\ DOMAIN job = JobFields /\ job.named = 0 /\ job.apply = cons[c].apply /\ job.row = i
       /\ Precheck(job.tool, job.target, job.args, job.policy) = "proposed"
  <2>1. row.job = 0
    BY <1>1, <1>7, <1>12 DEF HasRead, AreRows, IsApplied, Proposed
  <2>2. Precheck(row.tool, row.target, row.args, cons[c].policy) = "proposed"
    BY <1>1 DEF StillValid, Revalidated
  <2> HIDE DEF i, row
  <2> QED BY <2>1, <2>2 DEF NewJob, JobFields
<1> HIDE DEF i, row, job
<1>14. JobsMade'
  <2>1. /\ cons[c].apply \in 1..used.applies
        /\ \A k \in DOMAIN jobs : jobs[k].apply = cons[c].apply => jobs[k].row \notin Left(cons[c])
    BY <1>4 DEF IInv, JobsMade
  <2>2. ASSUME NEW k \in DOMAIN jobs', k \notin DOMAIN jobs PROVE jobs'[k] = job
    BY <1>5, <2>2
  <2>3. ASSUME NEW k \in DOMAIN jobs'
        PROVE  /\ DOMAIN jobs'[k] = JobFields /\ jobs'[k].named = 0
               /\ jobs'[k].apply \in 1..used'.applies
               /\ Precheck(jobs'[k].tool, jobs'[k].target, jobs'[k].args, jobs'[k].policy) = "proposed"
    <3>1. CASE k \in DOMAIN jobs
      BY <1>1, <1>5, <3>1 DEF IInv, JobsMade
    <3>2. CASE k \notin DOMAIN jobs
      BY <1>1, <1>13, <2>1, <2>2, <3>2
    <3> QED BY <3>1, <3>2
  <2>4. ASSUME NEW j \in DOMAIN jobs', NEW k \in DOMAIN jobs', j # k, jobs'[j].apply = jobs'[k].apply
        PROVE  jobs'[j].row # jobs'[k].row
    <3>1. CASE j \in DOMAIN jobs /\ k \in DOMAIN jobs
      BY <1>5, <2>4, <3>1 DEF IInv, JobsMade
    <3>2. CASE j \notin DOMAIN jobs /\ k \in DOMAIN jobs
      BY <1>5, <1>12, <1>13, <2>1, <2>2, <2>4, <3>2
    <3>3. CASE j \in DOMAIN jobs /\ k \notin DOMAIN jobs
      BY <1>5, <1>12, <1>13, <2>1, <2>2, <2>4, <3>3
    <3>4. CASE j \notin DOMAIN jobs /\ k \notin DOMAIN jobs
      BY <1>5, <2>4, <3>4
    <3> QED BY <3>1, <3>2, <3>3, <3>4
  <2>5. ASSUME NEW d \in Console, Underway(d)'
        PROVE  /\ Underway(d) /\ cons'[d].apply = cons[d].apply
               /\ Left(cons'[d]) \subseteq Left(cons[d])
    BY <1>2, <1>3, <1>4, <1>12, <2>5 DEF Underway
  <2>6. ASSUME NEW d \in Console, Underway(d)'
        PROVE  /\ cons'[d].apply \in 1..used'.applies
               /\ \A e \in Console : e # d /\ Underway(e)' => cons'[e].apply # cons'[d].apply
    BY <1>1, <2>5, <2>6 DEF IInv, JobsMade
  <2>7. ASSUME NEW d \in Console, Underway(d)', NEW k \in DOMAIN jobs',
               jobs'[k].apply = cons'[d].apply
        PROVE  jobs'[k].row \notin Left(cons'[d])
    <3>1. CASE k \in DOMAIN jobs
      BY <1>5, <2>5, <2>7, <3>1 DEF IInv, JobsMade
    <3>2. CASE k \notin DOMAIN jobs
      <4>1. jobs'[k].row = i /\ cons[d].apply = cons[c].apply /\ Underway(d)
        BY <1>13, <2>2, <2>5, <2>7, <3>2
      <4>2. d = c
        BY <1>4, <4>1 DEF IInv, JobsMade
      <4> QED BY <1>3, <1>12, <4>1, <4>2
    <3> QED BY <3>1, <3>2
  <2> QED BY <2>3, <2>4, <2>6, <2>7 DEF JobsMade
<1> QED BY <1>10, <1>11, <1>14, MovesRead, PassesAlone DEF IInv, Moves

-----------------------------------------------------------------------------
\* A plan that is as settled as it was.
AsSettled(plan, other) ==
  other.torn = plan.torn /\ other.status = plan.status /\ other.rows = plan.rows

LEMMA SameSums ==
  ASSUME NEW plan, NEW other, AsSettled(plan, other)
  PROVE  Sums(other) <=> Sums(plan)
BY DEF AsSettled, Sums

\* A console that saves something of the plan it applies, or ends the apply.
Works(c) ==
  /\ Moves(c) /\ Underway(c)
  /\ \A d \in Console : d # c => cons'[d] = cons[d]
  /\ \A q \in DOMAIN plans : q # cons[c].plan => AsSettled(plans[q], plans'[q])
  /\ plans[cons[c].plan].torn /\ ~cons[c].alone => plans'[cons[c].plan].torn
  /\ ~Underway(c)' /\ ~plans'[cons[c].plan].torn => Sums(plans'[cons[c].plan])
  /\ Underway(c)' =>
       /\ cons'[c].plan = cons[c].plan /\ cons'[c].alone = cons[c].alone
       /\ plans'[cons[c].plan].torn = plans[cons[c].plan].torn
       /\ cons'[c].pc = "save" =>
            cons'[c].changed /\ (cons'[c].alone => cons'[c].rows = plans'[cons[c].plan].rows)
       /\ cons'[c].changed => Proposed(plans'[cons[c].plan].rows) # {}
       /\ ~plans'[cons[c].plan].torn /\ ~cons'[c].changed => Sums(plans'[cons[c].plan])

LEMMA WorksAlone ==
  ASSUME IInv, NEW c \in Console, Works(c)
  PROVE  Alone' /\ Settled'
<1> SUFFICES ASSUME NEW p, p = cons[c].plan PROVE Alone' /\ Settled'
  OBVIOUS
<1>1. p \in DOMAIN plans /\ DOMAIN plans' = DOMAIN plans /\ Underway(c)
  BY DEF Works, Moves, PlansKept, IInv, Reads
<1>2. \A d \in Console : d # c => cons'[d] = cons[d] /\ (Underway(d)' <=> Underway(d))
  BY DEF Works, Underway
<1>3. ASSUME NEW q, q # p PROVE Applying(q)' = Applying(q)
  <2>1. ASSUME NEW d PROVE d \in Applying(q)' <=> d \in Applying(q)
    <3>1. CASE d = c
      BY <1>3, <3>1, IsApplying DEF Works
    <3>2. CASE d # c
      BY <1>2, <3>2, IsApplying
    <3> QED BY <3>1, <3>2
  <2> QED BY <2>1
<1>4. ASSUME Underway(c)' PROVE Applying(p)' = Applying(p)
  <2>1. ASSUME NEW d PROVE d \in Applying(p)' <=> d \in Applying(p)
    <3>1. CASE d = c
      BY <1>1, <1>4, <3>1, IsApplying DEF Works
    <3>2. CASE d # c
      BY <1>2, <3>2, IsApplying
    <3> QED BY <3>1, <3>2
  <2> QED BY <2>1
<1>5. ASSUME NEW d \in Console, Underway(d)'
      PROVE  LET plan == plans'[cons'[d].plan]
             IN /\ ~plan.torn => cons'[d].alone
                /\ cons'[d].alone => Applying(cons[d].plan)' = {d}
                /\ cons'[d].pc = "save" => cons'[d].changed /\ (cons'[d].alone => cons'[d].rows = plan.rows)
                /\ cons'[d].changed => Proposed(plan.rows) # {}
                /\ ~plan.torn /\ ~cons'[d].changed => Sums(plan)
                /\ cons'[d].plan = cons[d].plan
  <2>1. CASE d = c
    BY <1>1, <1>4, <1>5, <2>1 DEF Works, IInv, Alone
  <2>2. CASE d # c /\ cons[d].plan = p
    <3>1. Underway(d) /\ cons'[d] = cons[d]
      BY <1>2, <1>5, <2>2
    <3>2. ~cons[c].alone /\ ~cons[d].alone /\ plans[p].torn
      BY <1>1, <2>2, <3>1, NotAlone
    <3>3. plans'[p].torn
      BY <3>2 DEF Works
    <3>4. Proposed(plans'[p].rows) = Proposed(plans[p].rows)
      BY <1>1, SameProposed DEF Works, Moves, PlansKept, SamePlan
    <3> QED BY <2>2, <3>1, <3>2, <3>3, <3>4 DEF IInv, Alone
  <2>3. CASE d # c /\ cons[d].plan # p
    <3>1. Underway(d) /\ cons'[d] = cons[d]
      BY <1>2, <1>5, <2>3
    <3>2. cons[d].plan \in DOMAIN plans /\ AsSettled(plans[cons[d].plan], plans'[cons[d].plan])
      BY <2>3, <3>1 DEF IInv, Reads, Works
    <3>3. Applying(cons[d].plan)' = Applying(cons[d].plan)
      BY <1>3, <2>3, <3>1
    <3>4. Sums(plans'[cons[d].plan]) <=> Sums(plans[cons[d].plan])
      BY <3>2, SameSums
    <3> QED BY <3>1, <3>2, <3>3, <3>4 DEF IInv, Alone, AsSettled
  <2> QED BY <2>1, <2>2, <2>3
<1>6. Alone'
  BY <1>5 DEF Alone
<1>7. Settled'
  <2> SUFFICES ASSUME NEW q \in DOMAIN plans, ~plans'[q].torn, Applying(q)' = {}
               PROVE  Sums(plans'[q])
    BY <1>1 DEF Settled
  <2>1. CASE q = p
    <3>1. ~Underway(c)'
      BY <1>1, <1>4, <2>1, IsApplying
    <3> QED BY <2>1, <3>1 DEF Works
  <2>2. CASE q # p
    <3>1. Applying(q) = {} /\ AsSettled(plans[q], plans'[q])
      BY <1>3, <2>2 DEF Works
    <3>2. Sums(plans'[q]) <=> Sums(plans[q])
      BY <3>1, SameSums
    <3> QED BY <3>1, <3>2 DEF IInv, Settled, AsSettled
  <2> QED BY <2>1, <2>2
<1> QED BY <1>6, <1>7

\* A row is saved: skipped, or applied and with its job.
Saves(c, row) ==
  LET i == Head(cons[c].todo)
  IN /\ Underway(c) /\ cons[c].todo # <<>>
     /\ DOMAIN row = Fields /\ Unchanged(cons[c].rows[i], row)
     /\ row.apply # "applied" => row.job = 0
     /\ Left(cons'[c]) \subseteq Left(cons[c])
     /\ plans' = SaveRow(cons[c].plan, i, row)
     /\ DOMAIN cons' = Console /\ \A d \in Console : d # c => cons'[d] = cons[d]
     /\ DOMAIN cons'[c] = StateFields /\ cons'[c].pc = "apply"
     /\ cons'[c].rows = [cons[c].rows EXCEPT ![i] = row]
     /\ cons'[c].todo = Tail(cons[c].todo) /\ cons'[c].changed = TRUE
     /\ cons'[c].plan = cons[c].plan /\ cons'[c].apply = cons[c].apply
     /\ cons'[c].alone = cons[c].alone
     /\ UNCHANGED <<policy, jobs, artifacts, findings, memory, used>>

LEMMA SavesKeeps ==
  ASSUME IInv, NEW c \in Console, NEW row, Saves(c, row)
  PROVE  IInv'
<1> DEFINE i == Head(cons[c].todo)
           p == cons[c].plan
           saved == [plans[p].rows EXCEPT ![i] = row]
           new == [plans[p] EXCEPT !.rows = saved]
           read == [cons[c].rows EXCEPT ![i] = row]
<1>1. /\ p \in DOMAIN plans /\ HasRead(cons[c], plans[p].rows)
      /\ DOMAIN plans[p] = PlanFields /\ AreRows(plans[p].rows)
      /\ plans[p].torn \in BOOLEAN
  BY DEF Saves, IInv, Reads, PlansMade
<1>2. /\ i \in Proposed(cons[c].rows) /\ AreDistinct(Tail(cons[c].todo), Proposed(cons[c].rows))
  BY <1>1, TodoTail DEF Saves, HasRead
<1>3. /\ i \in DOMAIN cons[c].rows /\ i \in DOMAIN plans[p].rows
      /\ SameJobs(cons[c].rows, plans[p].rows) /\ SameJobs(plans[p].rows, cons[c].rows)
      /\ SameJobs(cons[c].rows, cons[c].rows)
      /\ AreRows(cons[c].rows) /\ AreRows(plans[p].rows)
  BY <1>1, <1>2, SameProposed DEF HasRead, Proposed, SameJobs
<1>4. plans' = [plans EXCEPT ![p] = new]
  BY <1>1 DEF Saves, SaveRow
<1>5. /\ new.rows = saved /\ new.torn = plans[p].torn /\ new.status = plans[p].status
      /\ new.source = plans[p].source /\ new.policy = plans[p].policy /\ DOMAIN new = PlanFields
  BY <1>1 DEF PlanFields
<1>6. Unchanged(cons[c].rows[i], row) /\ Unchanged(plans[p].rows[i], row)
  BY <1>3 DEF Saves, SameJobs, Unchanged
<1>7. DOMAIN row = Fields /\ (row.apply # "applied" => row.job = 0)
  BY DEF Saves
<1> HIDE DEF i, p, new
<1>a. /\ DOMAIN read = DOMAIN cons[c].rows /\ DOMAIN saved = DOMAIN plans[p].rows
      /\ read[i] = row /\ saved[i] = row
      /\ \A j \in DOMAIN cons[c].rows : j # i => read[j] = cons[c].rows[j]
      /\ \A j \in DOMAIN plans[p].rows : j # i => saved[j] = plans[p].rows[j]
  BY <1>3
<1> HIDE DEF saved, read
<1>8. AreRows(read) /\ SameJobs(cons[c].rows, read)
  <2>1. AreRows(read)
    BY <1>3, <1>7, <1>a DEF AreRows
  <2>2. SameJobs(cons[c].rows, read)
    BY <1>3, <1>6, <1>a DEF SameJobs
  <2> QED BY <2>1, <2>2
<1>9. AreRows(saved) /\ SameJobs(cons[c].rows, saved)
  <2>1. AreRows(saved)
    BY <1>3, <1>7, <1>a DEF AreRows
  <2>2. SameJobs(cons[c].rows, saved)
    BY <1>3, <1>6, <1>a DEF SameJobs
  <2> QED BY <2>1, <2>2
<1>10. /\ SameJobs(plans[p].rows, saved) /\ SameJobs(read, saved)
       /\ Proposed(read) = Proposed(cons[c].rows) /\ Proposed(saved) = Proposed(plans[p].rows)
       /\ i \in Proposed(saved)
  BY <1>2, <1>3, <1>8, <1>9, SameProposed
<1>11. /\ IsList(plans') /\ DOMAIN plans' = DOMAIN plans /\ plans'[p] = new
       /\ \A q \in DOMAIN plans : q # p => plans'[q] = plans[q]
  BY <1>1, <1>4, ListExcept DEF IInv, Tables
<1>12. PlansKept
  <2>1. SamePlan(plans[p], plans'[p])
    BY <1>1, <1>5, <1>9, <1>10, <1>11 DEF SamePlan
  <2>2. ASSUME NEW q \in DOMAIN plans, q # p PROVE SamePlan(plans[q], plans'[q])
    BY <1>11, <2>2 DEF SamePlan, IInv, PlansMade, SameJobs, Unchanged
  <2> QED BY <1>11, <2>1, <2>2 DEF PlansKept
<1>13. Tables'
  BY <1>11 DEF Saves, IInv, Tables
<1>14. /\ cons'[c].rows = read /\ cons'[c].todo = Tail(cons[c].todo) /\ cons'[c].pc = "apply"
       /\ cons'[c].plan = p /\ DOMAIN cons'[c] = StateFields /\ cons'[c].changed = TRUE
       /\ cons'[c].alone = cons[c].alone /\ cons'[c].apply = cons[c].apply
  BY DEF Saves, read, i, p
<1>15. HasRead(cons'[c], plans'[p].rows)
  BY <1>2, <1>5, <1>8, <1>10, <1>11, <1>14 DEF HasRead
<1>16. \A d \in Console : d # c => SameState(cons[d], cons'[d])
  BY DEF Saves, SameState, IInv, Reads
<1>17. Underway(c) /\ Underway(c)'
  BY <1>14 DEF Saves, Underway
<1>18. Moves(c)
  BY <1>1, <1>12, <1>13, <1>14, <1>15, <1>16 DEF Moves, IsState, Saves, IInv, Reads
<1>19. JobsMade'
  BY <1>14, <1>17, <1>18, MovesJobs DEF Saves
<1>20. Works(c)
  <2>1. Proposed(plans'[p].rows) # {}
    BY <1>5, <1>10, <1>11
  <2> QED BY <1>5, <1>11, <1>14, <1>17, <1>18, <2>1 DEF Works, Saves, p, AsSettled
<1> QED BY <1>13, <1>18, <1>19, <1>20, MovesRead, WorksAlone DEF IInv

LEMMA SkipInvalidKeeps ==
  ASSUME IInv, NEW c \in Console, SkipInvalid(c)
  PROVE  IInv'
<1> DEFINE i == Head(cons[c].todo)
           row == cons[c].rows[i]
           skipped == [row EXCEPT !.apply = "skipped"]
           read == [cons[c].rows EXCEPT ![i] = skipped]
           state == [cons[c] EXCEPT !.todo = Tail(cons[c].todo), !.changed = TRUE, !.rows = read]
<1>1. /\ cons[c].pc = "apply" /\ cons[c].todo # <<>> /\ ~IsApplied(row)
      /\ plans' = SaveRow(cons[c].plan, i, skipped)
      /\ UNCHANGED <<policy, jobs, artifacts, findings, memory, used>>
  BY DEF SkipInvalid
<1>2. Underway(c) /\ DOMAIN cons[c] = StateFields /\ DOMAIN cons = Console
  BY <1>1 DEF Underway, IInv, Reads
<1>3. cons' = [cons EXCEPT ![c] = state]
  BY <1>2 DEF SkipInvalid, Goto
<1>4. HasRead(cons[c], plans[cons[c].plan].rows)
  BY <1>2 DEF IInv, Reads
<1>5. DOMAIN row = Fields /\ (row.apply # "applied" => row.job = 0)
  <2>1. i \in Proposed(cons[c].rows)
    BY <1>1, <1>4, TodoTail DEF HasRead
  <2> HIDE DEF i
  <2> QED BY <1>4, <2>1 DEF HasRead, AreRows, Proposed
<1>6. /\ DOMAIN skipped = Fields /\ Unchanged(row, skipped)
      /\ skipped.apply = "skipped" /\ skipped.job = 0
  BY <1>1, <1>5 DEF Fields, Unchanged, IsApplied
<1>7. /\ DOMAIN state = StateFields /\ state.pc = "apply" /\ state.rows = read
      /\ state.todo = Tail(cons[c].todo) /\ state.changed = TRUE
      /\ state.plan = cons[c].plan /\ state.apply = cons[c].apply /\ state.alone = cons[c].alone
  <2> HIDE DEF read
  <2> QED BY <1>1, <1>2 DEF StateFields
<1> HIDE DEF state
<1>8. /\ DOMAIN cons' = Console /\ cons'[c] = state
      /\ \A d \in Console : d # c => cons'[d] = cons[d]
  BY <1>2, <1>3
<1>9. Left(cons'[c]) \subseteq Left(cons[c])
  BY <1>1, <1>4, <1>7, <1>8, TodoTail DEF Left, HasRead
<1> HIDE DEF skipped
<1>10. Saves(c, skipped)
  BY <1>1, <1>2, <1>6, <1>7, <1>8, <1>9 DEF Saves
<1> QED BY <1>10, SavesKeeps

LEMMA LinkKeeps ==
  ASSUME IInv, NEW c \in Console, Link(c)
  PROVE  IInv'
<1> DEFINE i == Head(cons[c].todo)
           row == cons[c].rows[i]
           linked == Linked(row, cons[c].job)
           read == [cons[c].rows EXCEPT ![i] = linked]
           state == [cons[c] EXCEPT !.pc = "apply", !.todo = Tail(cons[c].todo),
                                    !.changed = TRUE, !.rows = read]
<1>1. /\ cons[c].pc = "link" /\ plans' = SaveRow(cons[c].plan, i, linked)
      /\ UNCHANGED <<policy, jobs, artifacts, findings, memory, used>>
  BY DEF Link
<1>2. Underway(c) /\ DOMAIN cons[c] = StateFields /\ DOMAIN cons = Console
  BY <1>1 DEF Underway, IInv, Reads
<1>3. cons' = [cons EXCEPT ![c] = state]
  <2> HIDE DEF linked
  <2>1. cons' = [cons EXCEPT ![c] = [cons[c] EXCEPT !.pc = "apply", !.todo = Tail(cons[c].todo),
                                     !.changed = TRUE, !.rows[i] = linked]]
    BY DEF Link, Goto, linked
  <2> QED BY <1>2, <2>1
<1>4. HasRead(cons[c], plans[cons[c].plan].rows) /\ cons[c].todo # <<>>
  BY <1>1, <1>2 DEF IInv, Reads, HasRead
<1>5. DOMAIN row = Fields
  <2>1. i \in Proposed(cons[c].rows)
    BY <1>4, TodoTail DEF HasRead
  <2> HIDE DEF i
  <2> QED BY <1>4, <2>1 DEF HasRead, AreRows, Proposed
<1>6. /\ DOMAIN linked = Fields /\ Unchanged(row, linked) /\ linked.apply = "applied"
  BY <1>5 DEF Fields, Unchanged, Linked
<1>7. /\ DOMAIN state = StateFields /\ state.pc = "apply" /\ state.rows = read
      /\ state.todo = Tail(cons[c].todo) /\ state.changed = TRUE
      /\ state.plan = cons[c].plan /\ state.apply = cons[c].apply /\ state.alone = cons[c].alone
  <2> HIDE DEF read
  <2> QED BY <1>1, <1>2 DEF StateFields
<1> HIDE DEF state
<1>8. /\ DOMAIN cons' = Console /\ cons'[c] = state
      /\ \A d \in Console : d # c => cons'[d] = cons[d]
  BY <1>2, <1>3
<1>9. Left(cons'[c]) \subseteq Left(cons[c])
  BY <1>1, <1>7, <1>8 DEF Left
<1> HIDE DEF linked
<1>10. Saves(c, linked)
  BY <1>1, <1>2, <1>4, <1>6, <1>7, <1>8, <1>9 DEF Saves
<1> QED BY <1>10, SavesKeeps

LEMMA PlansStay ==
  ASSUME IInv, plans' = plans
  PROVE  PlansKept
BY DEF IInv, Tables, PlansMade, PlansKept, SamePlan, SameJobs, Unchanged

LEMMA ListRowsKeeps ==
  ASSUME IInv, NEW c \in Console, ListRows(c)
  PROVE  IInv'
<1> DEFINE rows == plans[cons[c].plan].rows
           read == [cons[c] EXCEPT !.pc = "save", !.rows = rows]
           state == IF cons[c].changed THEN read ELSE Idle
<1>1. /\ cons[c].pc = "apply" /\ cons[c].todo = <<>> /\ cons' = [cons EXCEPT ![c] = state]
      /\ UNCHANGED <<policy, jobs, artifacts, findings, memory, plans, used>>
  BY DEF ListRows, Goto
<1>2. /\ Underway(c) /\ DOMAIN cons = Console /\ DOMAIN cons[c] = StateFields
      /\ cons[c].alone \in BOOLEAN /\ cons[c].changed \in BOOLEAN
      /\ cons[c].plan \in DOMAIN plans /\ HasRead(cons[c], rows)
  BY <1>1 DEF Underway, IInv, Reads
<1>3. AreRows(rows) /\ SameJobs(rows, rows)
  BY <1>2 DEF IInv, PlansMade, SameJobs, Unchanged
<1> HIDE DEF rows
<1>4. cons[c].changed =>
        /\ DOMAIN state = StateFields /\ state.pc = "save" /\ state.rows = rows
        /\ state.plan = cons[c].plan /\ state.todo = cons[c].todo
        /\ state.alone = cons[c].alone /\ state.changed = cons[c].changed
        /\ state.apply = cons[c].apply
  BY <1>2 DEF StateFields
<1>5. ~cons[c].changed => state = Idle
  OBVIOUS
<1> HIDE DEF state
<1>6. /\ DOMAIN cons' = Console /\ cons'[c] = state
      /\ \A d \in Console : d # c => cons'[d] = cons[d]
  BY <1>1, <1>2
<1>7. IsState(state)
  <2>1. IsState(Idle)
    BY DEF IsState, Idle, StateFields
  <2> QED BY <1>2, <1>4, <1>5, <2>1 DEF IsState
<1>8. Underway(c)' => cons[c].changed
  BY <1>5, <1>6 DEF Underway, Idle
<1>9. cons[c].changed => HasRead(state, rows)
  <2> SUFFICES ASSUME cons[c].changed PROVE HasRead(state, rows)
    OBVIOUS
  <2>1. AreDistinct(cons[c].todo, Proposed(rows))
    <3>1. Proposed(cons[c].rows) = Proposed(rows)
      BY <1>2, SameProposed DEF HasRead
    <3> QED BY <1>2, <3>1 DEF HasRead
  <2> QED BY <1>3, <1>4, <2>1 DEF HasRead
<1>10. \A d \in Console : d # c => SameState(cons[d], cons'[d])
  BY <1>6 DEF SameState, IInv, Reads
<1>11. Tables'
  BY <1>1 DEF IInv, Tables
<1>12. Moves(c)
  BY <1>1, <1>2, <1>4, <1>6, <1>7, <1>8, <1>9, <1>10, <1>11, PlansStay DEF Moves, rows
<1>13. JobsMade'
  <2>1. Underway(c)' => cons'[c].apply = cons[c].apply /\ Left(cons'[c]) \subseteq Left(cons[c])
    BY <1>4, <1>6, <1>8 DEF Left
  <2> QED BY <1>1, <1>2, <1>12, <2>1, MovesJobs
<1>14. Works(c)
  <2>1. /\ cons[c].changed => Proposed(plans[cons[c].plan].rows) # {}
        /\ ~plans[cons[c].plan].torn /\ ~cons[c].changed => Sums(plans[cons[c].plan])
    BY <1>2 DEF IInv, Alone
  <2>2. ~cons[c].changed => ~Underway(c)'
    BY <1>8
  <2>3. cons[c].changed => Underway(c)'
    BY <1>4, <1>6 DEF Underway
  <2> QED BY <1>1, <1>2, <1>4, <1>6, <1>12, <2>1, <2>2, <2>3 DEF Works, rows, AsSettled
<1> QED BY <1>11, <1>12, <1>13, <1>14, MovesRead, WorksAlone DEF IInv

\* What a step does that only marks plans as torn and changes their status.
LEMMA SameRows ==
  ASSUME IInv, NEW p \in DOMAIN plans, NEW other, DOMAIN other = PlanFields,
         other.torn \in BOOLEAN, other.rows = plans[p].rows,
         other.source = plans[p].source, other.policy = plans[p].policy
  PROVE  SamePlan(plans[p], other)
BY DEF SamePlan, IInv, PlansMade, SameJobs, Unchanged

LEMMA SavePlanKeeps ==
  ASSUME IInv, NEW c \in Console, SavePlan(c)
  PROVE  IInv'
<1> SUFFICES ASSUME NEW p, p = cons[c].plan PROVE IInv'
  OBVIOUS
<1> DEFINE status == Derived(plans[p].status, cons[c].rows)
           torn == plans[p].torn /\ ~cons[c].alone
           new == [plans[p] EXCEPT !.status = status, !.torn = torn]
<1>1. /\ cons[c].pc = "save" /\ cons' = [cons EXCEPT ![c] = Idle]
      /\ UNCHANGED <<policy, jobs, artifacts, findings, memory, used>>
  BY DEF SavePlan, Goto
<1>2. /\ Underway(c) /\ DOMAIN cons = Console /\ p \in DOMAIN plans
      /\ DOMAIN plans[p] = PlanFields /\ cons[c].alone \in BOOLEAN /\ plans[p].torn \in BOOLEAN
  BY <1>1 DEF Underway, IInv, Reads, PlansMade
<1>3. plans' = [plans EXCEPT ![p] = new]
  <2> HIDE DEF status, torn
  <2>1. plans' = [plans EXCEPT ![p].status = status, ![p].torn = torn]
    BY DEF SavePlan, status, torn
  <2> QED BY <1>2, <2>1 DEF PlanFields
<1>4. /\ DOMAIN new = PlanFields /\ new.status = status /\ new.torn = torn
      /\ new.rows = plans[p].rows /\ new.source = plans[p].source /\ new.policy = plans[p].policy
  <2> HIDE DEF status, torn
  <2> QED BY <1>2 DEF PlanFields
<1> HIDE DEF new
<1>5. /\ IsList(plans') /\ DOMAIN plans' = DOMAIN plans /\ plans'[p] = new
      /\ \A q \in DOMAIN plans : q # p => plans'[q] = plans[q]
  <2>1. IsList(plans) /\ p \in DOMAIN plans
    BY <1>2 DEF IInv, Tables
  <2> QED BY <1>3, <2>1, ListExcept
<1>6. /\ DOMAIN cons' = Console /\ cons'[c] = Idle
      /\ \A d \in Console : d # c => cons'[d] = cons[d]
  BY <1>1, <1>2
<1>7. PlansKept
  <2>1. torn \in BOOLEAN
    BY <1>2
  <2>2. SamePlan(plans[p], plans'[p])
    BY <1>2, <1>4, <1>5, <2>1, SameRows
  <2>3. ASSUME NEW q \in DOMAIN plans, q # p PROVE SamePlan(plans[q], plans'[q])
    BY <1>5, <2>3, SameRows DEF IInv, PlansMade
  <2> QED BY <1>5, <2>2, <2>3 DEF PlansKept
<1>8. Tables'
  BY <1>1, <1>5 DEF IInv, Tables
<1>9. \A d \in Console : d # c => SameState(cons[d], cons'[d])
  BY <1>6 DEF SameState, IInv, Reads
<1>10. ~Underway(c)' /\ IsState(cons'[c])
  BY <1>6 DEF Underway, Idle, IsState, StateFields
<1>11. Moves(c)
  BY <1>6, <1>7, <1>8, <1>9, <1>10 DEF Moves
<1>12. JobsMade'
  BY <1>1, <1>10, <1>11, MovesJobs
<1>13. ~torn => Sums(new)
  <2> SUFFICES ASSUME ~torn PROVE Sums(new)
    OBVIOUS
  <2>1. /\ ~plans[p].torn => cons[c].alone
        /\ cons[c].changed /\ (cons[c].alone => cons[c].rows = plans[p].rows)
        /\ cons[c].changed => Proposed(plans[p].rows) # {}
    BY <1>1, <1>2 DEF IInv, Alone
  <2>2. cons[c].rows = plans[p].rows /\ Proposed(plans[p].rows) # {}
    BY <1>2, <2>1
  <2> QED BY <1>4, <2>2, DerivedSums
<1>14. Works(c)
  BY <1>2, <1>4, <1>5, <1>6, <1>10, <1>11, <1>13 DEF Works, AsSettled
<1> QED BY <1>8, <1>11, <1>12, <1>14, MovesRead, WorksAlone DEF IInv

LEMMA CrashKeeps ==
  ASSUME IInv, NEW c \in Console, Crash(c)
  PROVE  IInv'
<1> SUFFICES ASSUME NEW p, p = cons[c].plan PROVE IInv'
  OBVIOUS
<1> DEFINE new == [q \in DOMAIN plans |-> [plans[q] EXCEPT !.torn = plans[q].torn \/ c \in Applying(q)]]
<1>1. /\ Underway(c) /\ cons' = [cons EXCEPT ![c] = Idle] /\ plans' = new
      /\ used' = [used EXCEPT !.crashes = used.crashes + 1]
      /\ UNCHANGED <<policy, jobs, artifacts, findings, memory>>
  BY DEF Crash, Goto, Underway
<1>2. DOMAIN cons = Console /\ p \in DOMAIN plans
  BY <1>1 DEF IInv, Reads
<1>3. \A q \in DOMAIN plans : c \in Applying(q) <=> q = p
  BY <1>1, IsApplying
<1>4. ASSUME NEW q \in DOMAIN plans
      PROVE  /\ DOMAIN plans'[q] = PlanFields /\ plans'[q].torn = (plans[q].torn \/ q = p)
             /\ plans'[q].status = plans[q].status /\ plans'[q].rows = plans[q].rows
             /\ plans'[q].source = plans[q].source /\ plans'[q].policy = plans[q].policy
             /\ q # p => AsSettled(plans[q], plans'[q])
  <2>1. DOMAIN plans[q] = PlanFields /\ plans[q].torn \in BOOLEAN
    BY DEF IInv, PlansMade
  <2>2. plans'[q] = [plans[q] EXCEPT !.torn = plans[q].torn \/ c \in Applying(q)]
    BY <1>1
  <2>3. (plans[q].torn \/ c \in Applying(q)) = (plans[q].torn \/ q = p)
    BY <1>3
  <2>4. plans'[q] = [plans[q] EXCEPT !.torn = (plans[q].torn \/ q = p)]
    BY <2>2, <2>3
  <2>5. /\ DOMAIN plans'[q] = PlanFields /\ plans'[q].torn = (plans[q].torn \/ q = p)
        /\ plans'[q].status = plans[q].status /\ plans'[q].rows = plans[q].rows
        /\ plans'[q].source = plans[q].source /\ plans'[q].policy = plans[q].policy
    BY <2>1, <2>4 DEF PlanFields
  <2>6. q # p => AsSettled(plans[q], plans'[q])
    BY <2>1, <2>5 DEF AsSettled
  <2> QED BY <2>5, <2>6
<1>5. IsList(plans') /\ DOMAIN plans' = DOMAIN plans
  <2>1. Len(plans) \in Nat /\ DOMAIN plans = 1..Len(plans)
    BY ListDomain DEF IInv, Tables
  <2>2. DOMAIN new = 1..Len(plans) /\ new = [q \in 1..Len(plans) |-> new[q]]
    BY <2>1
  <2> HIDE DEF new
  <2> QED BY <1>1, <2>1, <2>2, ListOfFunction
<1> HIDE DEF new
<1>6. /\ DOMAIN cons' = Console /\ cons'[c] = Idle
      /\ \A d \in Console : d # c => cons'[d] = cons[d]
  BY <1>1, <1>2
<1>7. PlansKept
  <2>1. ASSUME NEW q \in DOMAIN plans PROVE SamePlan(plans[q], plans'[q])
    <3>1. (plans[q].torn \/ q = p) \in BOOLEAN
      OBVIOUS
    <3> QED BY <1>4, <3>1, SameRows
  <2> QED BY <1>5, <2>1 DEF PlansKept
<1>8. Tables'
  BY <1>1, <1>5 DEF IInv, Tables
<1>9. \A d \in Console : d # c => SameState(cons[d], cons'[d])
  BY <1>6 DEF SameState, IInv, Reads
<1>10. ~Underway(c)' /\ IsState(cons'[c])
  BY <1>6 DEF Underway, Idle, IsState, StateFields
<1>11. Moves(c)
  BY <1>6, <1>7, <1>8, <1>9, <1>10 DEF Moves
<1>12. JobsMade'
  <2>1. used'.applies = used.applies
    BY <1>1 DEF IInv, Tables
  <2> QED BY <1>1, <1>10, <1>11, <2>1, MovesJobs
<1>13. Works(c)
  <2>1. plans'[p].torn
    BY <1>2, <1>4
  <2> QED BY <1>1, <1>2, <1>4, <1>6, <1>10, <1>11, <2>1 DEF Works
<1> QED BY <1>8, <1>11, <1>12, <1>13, MovesRead, WorksAlone DEF IInv

LEMMA ApplyKeeps ==
  ASSUME IInv, NEW c \in Console, NEW p \in DOMAIN plans,
         NEW selection \in SUBSET Proposed(plans[p].rows), Apply(c, p, selection)
  PROVE  IInv'
<1> DEFINE rows == plans[p].rows
           taken == IF selection = {} THEN {i \in Proposed(rows) : rows[i].apply = "pending"}
                                      ELSE selection
           new == [plans[p] EXCEPT !.torn = plans[p].torn \/ Applying(p) # {}]
           state == [Idle EXCEPT !.pc = "apply", !.plan = p, !.rows = rows, !.policy = policy,
                                 !.todo = InOrder(taken), !.apply = used.applies + 1,
                                 !.alone = Applying(p) = {}]
           Other(d) == [cons[d] EXCEPT !.alone = cons[d].alone /\ d \notin Applying(p)]
<1>1. /\ cons[c].pc = "idle" /\ plans' = [plans EXCEPT ![p] = new]
      /\ cons' = [d \in Console |-> IF d = c THEN state ELSE Other(d)]
      /\ used' = [used EXCEPT !.applies = used.applies + 1]
      /\ UNCHANGED <<policy, jobs, artifacts, findings, memory>>
  BY DEF Apply
<1>2. AreDistinct(InOrder(taken), Proposed(rows))
  <2>1. taken \subseteq Proposed(rows)
    OBVIOUS
  <2>2. Proposed(rows) \subseteq DOMAIN rows /\ AreRows(rows)
    BY DEF IInv, PlansMade, Proposed
  <2> HIDE DEF taken, rows
  <2>3. taken \in SUBSET Nat /\ IsFiniteSet(taken)
    <3>1. taken \subseteq DOMAIN rows /\ IsFiniteSet(DOMAIN rows) /\ DOMAIN rows \in SUBSET Nat
      BY <2>1, <2>2 DEF AreRows
    <3> QED BY <3>1, FS_Subset
  <2>4. /\ InOrder(taken) \in Seq(taken) /\ Cardinality(taken) \in Nat
        /\ DOMAIN InOrder(taken) = 1..Cardinality(taken)
        /\ \A n \in 1..Cardinality(taken) : InOrder(taken)[n] \in taken
        /\ Len(InOrder(taken)) = Cardinality(taken)
    BY <2>3, InOrderMembers
  <2>5. InOrder(taken) \in Seq(Proposed(rows))
    <3>1. InOrder(taken) \in [1..Cardinality(taken) -> taken]
      BY <2>4, LenProperties
    <3> QED BY <2>1, <2>4, <3>1, SeqDef
  <2> QED BY <2>3, <2>5, InOrderDistinct DEF AreDistinct
<1> HIDE DEF taken
<1>3. /\ DOMAIN state = StateFields /\ state.pc = "apply" /\ state.plan = p /\ state.rows = rows
      /\ state.todo = InOrder(taken) /\ state.changed = FALSE
      /\ state.apply = used.applies + 1 /\ state.alone = (Applying(p) = {})
  <2> HIDE DEF rows
  <2> QED BY DEF Idle, StateFields
<1>4. /\ DOMAIN new = PlanFields /\ new.torn = (plans[p].torn \/ Applying(p) # {})
      /\ new.status = plans[p].status /\ new.rows = rows
      /\ new.source = plans[p].source /\ new.policy = plans[p].policy
  BY DEF IInv, PlansMade, PlanFields
<1> HIDE DEF new, state
<1>5. /\ IsList(plans') /\ DOMAIN plans' = DOMAIN plans /\ plans'[p] = new
      /\ \A q \in DOMAIN plans : q # p => plans'[q] = plans[q]
  <2>1. IsList(plans)
    BY DEF IInv, Tables
  <2> QED BY <1>1, <2>1, ListExcept
<1>6. DOMAIN cons' = Console /\ cons'[c] = state
  BY <1>1
<1>7. ASSUME NEW d \in Console, d # c
      PROVE  SameState(cons[d], cons'[d]) /\ cons'[d].alone = (cons[d].alone /\ d \notin Applying(p))
  <2>1. cons'[d] = Other(d) /\ DOMAIN cons[d] = StateFields
    BY <1>1, <1>7 DEF IInv, Reads
  <2>2. (cons[d].alone /\ d \notin Applying(p)) \in BOOLEAN
    OBVIOUS
  <2> QED BY <2>1, <2>2 DEF SameState, StateFields
<1>8. used'.applies = used.applies + 1 /\ DOMAIN used' = DOMAIN used /\ used.applies \in Nat
  BY <1>1 DEF IInv, Tables
<1>9. Tables'
  BY <1>1, <1>5, <1>8 DEF IInv, Tables
<1>10. PlansKept
  <2>1. (plans[p].torn \/ Applying(p) # {}) \in BOOLEAN
    OBVIOUS
  <2>2. SamePlan(plans[p], plans'[p])
    BY <1>4, <1>5, <2>1, SameRows DEF rows
  <2>3. ASSUME NEW q \in DOMAIN plans, q # p PROVE SamePlan(plans[q], plans'[q])
    BY <1>5, <2>3, SameRows DEF IInv, PlansMade
  <2> QED BY <1>5, <2>2, <2>3 DEF PlansKept
<1>11. IsState(state)
  <2>1. (Applying(p) = {}) \in BOOLEAN
    OBVIOUS
  <2> QED BY <1>3, <2>1 DEF IsState
<1>12. HasRead(state, rows)
  <2>1. AreRows(rows) /\ SameJobs(rows, rows)
    BY DEF IInv, PlansMade, SameJobs, Unchanged
  <2> HIDE DEF rows
  <2> QED BY <1>2, <1>3, <2>1 DEF HasRead
<1>13. Moves(c)
  BY <1>3, <1>4, <1>5, <1>6, <1>7, <1>9, <1>10, <1>11, <1>12 DEF Moves
<1> HIDE DEF rows
<1>14. /\ ~Underway(c) /\ Underway(c)'
       /\ \A d \in Console : d # c => (Underway(d)' <=> Underway(d)) /\ cons'[d].plan = cons[d].plan
  BY <1>1, <1>3, <1>6, <1>7 DEF Underway, SameState
<1>15. JobsMade'
  <2>1. \A k \in DOMAIN jobs :
          /\ DOMAIN jobs[k] = JobFields /\ jobs[k].named = 0
          /\ jobs[k].apply \in 1..used'.applies /\ jobs[k].apply # used.applies + 1
          /\ Precheck(jobs[k].tool, jobs[k].target, jobs[k].args, jobs[k].policy) = "proposed"
    <3>1. \A k \in DOMAIN jobs : jobs[k].apply \in 1..used.applies
      BY DEF IInv, JobsMade
    <3> QED BY <1>8, <3>1 DEF IInv, JobsMade
  <2>2. ASSUME NEW d \in Console, d # c, Underway(d)'
        PROVE  /\ Underway(d) /\ cons'[d].apply = cons[d].apply
               /\ cons'[d].apply \in 1..used'.applies /\ cons'[d].apply # used.applies + 1
               /\ Left(cons'[d]) = Left(cons[d])
    <3>1. Underway(d) /\ SameState(cons[d], cons'[d])
      BY <1>7, <1>14, <2>2
    <3>2. cons[d].apply \in 1..used.applies
      BY <3>1 DEF IInv, JobsMade
    <3>3. cons'[d].apply = cons[d].apply /\ Left(cons'[d]) = Left(cons[d])
      BY <3>1 DEF SameState, Left
    <3> QED BY <1>8, <3>1, <3>2, <3>3
  <2>3. cons'[c].apply = used.applies + 1 /\ cons'[c].apply \in 1..used'.applies
    BY <1>3, <1>6, <1>8
  <2>4. ASSUME NEW d \in Console, Underway(d)'
        PROVE  /\ cons'[d].apply \in 1..used'.applies
               /\ \A e \in Console : e # d /\ Underway(e)' => cons'[e].apply # cons'[d].apply
               /\ \A k \in DOMAIN jobs : jobs[k].apply = cons'[d].apply => jobs[k].row \notin Left(cons'[d])
    <3>1. CASE d = c
      BY <2>1, <2>2, <2>3, <3>1
    <3>2. CASE d # c
      BY <2>2, <2>3, <2>4, <3>2 DEF IInv, JobsMade
    <3> QED BY <3>1, <3>2
  <2>5. \A j, k \in DOMAIN jobs : j # k /\ jobs[j].apply = jobs[k].apply => jobs[j].row # jobs[k].row
    BY DEF IInv, JobsMade
  <2> QED BY <1>1, <2>1, <2>4, <2>5 DEF JobsMade
<1>16. ASSUME NEW q, q # p PROVE Applying(q)' = Applying(q)
  <2>1. ASSUME NEW d PROVE d \in Applying(q)' <=> d \in Applying(q)
    <3>1. CASE d = c
      BY <1>3, <1>6, <1>14, <1>16, <3>1, IsApplying
    <3>2. CASE d # c
      BY <1>14, <3>2, IsApplying
    <3> QED BY <3>1, <3>2
  <2> QED BY <2>1
<1>17. ASSUME NEW d PROVE d \in Applying(p)' <=> d = c \/ d \in Applying(p)
  <2>1. CASE d = c
    BY <1>3, <1>6, <1>14, <2>1, IsApplying
  <2>2. CASE d # c
    BY <1>14, <2>2, IsApplying
  <2> QED BY <2>1, <2>2
<1>18. ASSUME NEW d \in Console, Underway(d)', NEW q, q = cons'[d].plan
       PROVE  LET plan == plans'[q]
              IN /\ ~plan.torn => cons'[d].alone
                 /\ cons'[d].alone => Applying(q)' = {d}
                 /\ cons'[d].pc = "save" => cons'[d].changed /\ (cons'[d].alone => cons'[d].rows = plan.rows)
                 /\ cons'[d].changed => Proposed(plan.rows) # {}
                 /\ ~plan.torn /\ ~cons'[d].changed => Sums(plan)
  <2>1. CASE d = c
    <3>1. /\ q = p /\ cons'[d].alone = (Applying(p) = {}) /\ cons'[d].pc = "apply"
          /\ ~cons'[d].changed
      BY <1>3, <1>6, <1>18, <2>1
    <3>2. Applying(p) = {} => Applying(p)' = {d}
      BY <1>17, <2>1
    <3>3. ~plans'[p].torn => Applying(p) = {} /\ ~plans[p].torn
      BY <1>4, <1>5
    <3>4. ~plans'[p].torn => Sums(plans'[p])
      <4>1. Sums(plans'[p]) <=> Sums(plans[p])
        <5>1. plans'[p].rows = plans[p].rows /\ plans'[p].status = plans[p].status
          BY <1>4, <1>5 DEF rows
        <5> QED BY <5>1 DEF Sums
      <4> QED BY <3>3, <4>1 DEF IInv, Settled
    <3> QED BY <3>1, <3>2, <3>3, <3>4
  <2>2. CASE d # c /\ q = p
    <3>1. d \in Applying(p)
      BY <1>17, <1>18, <2>2, IsApplying
    <3>2. Underway(d) /\ cons[d].plan = p
      BY <3>1, IsApplying
    <3>3. /\ plans'[p].torn /\ ~cons'[d].alone /\ cons'[d].pc = cons[d].pc
          /\ cons'[d].changed = cons[d].changed /\ plans'[p].rows = plans[p].rows
      BY <1>4, <1>5, <1>7, <2>2, <3>1 DEF SameState, rows
    <3> QED BY <2>2, <3>2, <3>3 DEF IInv, Alone
  <2>3. CASE d # c /\ q # p
    <3>1. Underway(d) /\ cons[d].plan = q
      BY <1>14, <1>18, <2>3
    <3>2. d \notin Applying(p)
      BY <2>3, <3>1, IsApplying
    <3>3. /\ cons'[d].alone = cons[d].alone /\ cons'[d].pc = cons[d].pc
          /\ cons'[d].changed = cons[d].changed /\ cons'[d].rows = cons[d].rows
      <4>1. cons[d].alone \in BOOLEAN
        BY DEF IInv, Reads
      <4> QED BY <1>7, <2>3, <3>2, <4>1 DEF SameState
    <3>4. q \in DOMAIN plans /\ plans'[q] = plans[q] /\ Applying(q)' = Applying(q)
      BY <1>5, <1>16, <2>3, <3>1 DEF IInv, Reads
    <3> QED BY <3>1, <3>3, <3>4 DEF IInv, Alone
  <2> QED BY <2>1, <2>2, <2>3
<1>19. Alone'
  BY <1>18 DEF Alone
<1>20. Settled'
  <2> SUFFICES ASSUME NEW q \in DOMAIN plans, ~plans'[q].torn, Applying(q)' = {}
               PROVE  Sums(plans'[q])
    BY <1>5 DEF Settled
  <2>1. q # p
    BY <1>17
  <2> QED BY <1>5, <1>16, <2>1 DEF IInv, Settled
<1> QED BY <1>9, <1>13, <1>15, <1>19, <1>20, MovesRead DEF IInv


-----------------------------------------------------------------------------
(* The type invariant: what the rows refer to.                             *)

\* Applied rows name a job made of them.
AreLinked(table, p, rows) ==
  \A i \in DOMAIN rows :
    /\ rows[i].kind \in {"proposed", "skipped", "blocked"}
    /\ rows[i].apply \in {"pending", "applied", "skipped"}
    /\ rows[i].apply = "applied" =>
         /\ rows[i].job \in DOMAIN table
         /\ table[rows[i].job].plan = p /\ table[rows[i].job].row = i

\* A host that some job works on.
OfJob(table, host) == \E j \in DOMAIN table : host = table[j].target.host

\* What a console has read of rows that are linked, the job it is to link, and
\* the entries it is to store.
InTouch(table, state) ==
  /\ state.pc \in {"apply", "link", "save"} => AreLinked(table, state.plan, state.rows)
  /\ state.pc = "link" =>
       /\ state.job \in DOMAIN table
       /\ table[state.job].plan = state.plan /\ table[state.job].row = Head(state.todo)
  /\ state.pc = "remember" =>
       /\ IsList(state.entries)
       /\ \A n \in DOMAIN state.entries : OfJob(table, state.entries[n].key.host)

Statuses == {"proposed", "partially_applied", "applied"}

\* Evidence of what a job found.
IsEvidence(table, row) == "ref" \in DOMAIN row /\ OfJob(table, row.ref.host)
Evident(table, rows) == \A k \in DOMAIN rows : IsEvidence(table, rows[k])

Referred ==
  /\ \A k \in DOMAIN jobs : jobs[k].tool \in ToolName
  /\ \A p \in DOMAIN plans : plans[p].status \in Statuses /\ AreLinked(jobs, p, plans[p].rows)
  /\ \A c \in Console : InTouch(jobs, cons[c])
  /\ Evident(jobs, artifacts) /\ Evident(jobs, findings)
  /\ \A k \in DOMAIN memory : OfJob(jobs, memory[k].key.host)

-----------------------------------------------------------------------------
(* Steps, and what the rows refer to.                                      *)

\* Jobs keep what they are of, and new ones may come.
JobsGrow ==
  /\ DOMAIN jobs \subseteq DOMAIN jobs'
  /\ \A k \in DOMAIN jobs :
       /\ jobs'[k].plan = jobs[k].plan /\ jobs'[k].row = jobs[k].row
       /\ jobs'[k].target = jobs[k].target

LEMMA LinkedStay ==
  ASSUME JobsGrow, NEW p, NEW rows, AreLinked(jobs, p, rows)
  PROVE  AreLinked(jobs', p, rows)
BY DEF JobsGrow, AreLinked

LEMMA OfJobStays ==
  ASSUME JobsGrow, NEW host, OfJob(jobs, host)
  PROVE  OfJob(jobs', host)
BY DEF JobsGrow, OfJob

\* What a console goes on with.
SameTouch(state, other) ==
  /\ other.pc = state.pc /\ other.plan = state.plan /\ other.rows = state.rows
  /\ other.todo = state.todo /\ other.job = state.job /\ other.entries = state.entries

LEMMA InTouchStays ==
  ASSUME JobsGrow, NEW state, InTouch(jobs, state), NEW other, SameTouch(state, other)
  PROVE  InTouch(jobs', other)
<1>1. state.pc \in {"apply", "link", "save"} => AreLinked(jobs', state.plan, state.rows)
  BY LinkedStay DEF InTouch
<1>2. state.pc = "link" =>
        /\ state.job \in DOMAIN jobs'
        /\ jobs'[state.job].plan = state.plan /\ jobs'[state.job].row = Head(state.todo)
  BY DEF InTouch, JobsGrow
<1>3. state.pc = "remember" =>
        /\ IsList(state.entries)
        /\ \A n \in DOMAIN state.entries : OfJob(jobs', state.entries[n].key.host)
  BY OfJobStays DEF InTouch
<1> QED BY <1>1, <1>2, <1>3 DEF InTouch, SameTouch

\* What each step has to show: whatever is not as it was refers to a job.
Refers ==
  /\ JobsGrow /\ \A k \in DOMAIN jobs' : jobs'[k].tool \in ToolName
  /\ \A p \in DOMAIN plans' :
       \/ p \in DOMAIN plans /\ plans'[p].status = plans[p].status /\ plans'[p].rows = plans[p].rows
       \/ plans'[p].status \in Statuses /\ AreLinked(jobs', p, plans'[p].rows)
  /\ \A c \in Console : SameTouch(cons[c], cons'[c]) \/ InTouch(jobs', cons'[c])
  /\ \A k \in DOMAIN artifacts' :
       (\E i \in DOMAIN artifacts : artifacts'[k] = artifacts[i]) \/ IsEvidence(jobs', artifacts'[k])
  /\ \A k \in DOMAIN findings' :
       (\E i \in DOMAIN findings : findings'[k] = findings[i]) \/ IsEvidence(jobs', findings'[k])
  /\ \A k \in DOMAIN memory' :
       (\E i \in DOMAIN memory : memory'[k] = memory[i]) \/ OfJob(jobs', memory'[k].key.host)

LEMMA RefersStays ==
  ASSUME Referred, Refers
  PROVE  Referred'
<1>1. JobsGrow /\ \A k \in DOMAIN jobs' : jobs'[k].tool \in ToolName
  BY DEF Refers
<1>2. \A p \in DOMAIN plans' : plans'[p].status \in Statuses /\ AreLinked(jobs', p, plans'[p].rows)
  BY <1>1, LinkedStay DEF Refers, Referred
<1>3. \A c \in Console : InTouch(jobs', cons'[c])
  BY <1>1, InTouchStays DEF Refers, Referred
<1>4. \A row : IsEvidence(jobs, row) => IsEvidence(jobs', row)
  BY <1>1, OfJobStays DEF IsEvidence
<1>5. Evident(jobs', artifacts') /\ Evident(jobs', findings')
  BY <1>4 DEF Refers, Referred, Evident
<1>6. \A k \in DOMAIN memory' : OfJob(jobs', memory'[k].key.host)
  BY <1>1, OfJobStays DEF Refers, Referred
<1> QED BY <1>1, <1>2, <1>3, <1>5, <1>6 DEF Referred

\* A step that touches neither jobs nor evidence.
Keeps == UNCHANGED <<jobs, artifacts, findings>>

LEMMA KeepsRefers ==
  ASSUME Referred, Keeps,
         \A p \in DOMAIN plans' :
           \/ p \in DOMAIN plans /\ plans'[p].status = plans[p].status /\ plans'[p].rows = plans[p].rows
           \/ plans'[p].status \in Statuses /\ AreLinked(jobs', p, plans'[p].rows),
         \A c \in Console : SameTouch(cons[c], cons'[c]) \/ InTouch(jobs', cons'[c]),
         \A k \in DOMAIN memory' :
           (\E i \in DOMAIN memory : memory'[k] = memory[i]) \/ OfJob(jobs', memory'[k].key.host)
  PROVE  Referred'
<1>1. JobsGrow /\ \A k \in DOMAIN jobs' : jobs'[k].tool \in ToolName
  BY DEF Keeps, JobsGrow, Referred
<1>2. Refers
  BY <1>1 DEF Refers, Keeps
<1> QED BY <1>2, RefersStays

LEMMA IdleInTouch ==
  ASSUME NEW table, NEW state, state.pc \in {"idle", "derive"}
  PROVE  InTouch(table, state)
BY DEF InTouch

LEMMA LinkedExcept ==
  ASSUME NEW table, NEW p, NEW rows, AreLinked(table, p, rows), NEW i \in DOMAIN rows, NEW row,
         row.kind \in {"proposed", "skipped", "blocked"},
         row.apply \in {"pending", "applied", "skipped"},
         row.apply = "applied" =>
           /\ row.job \in DOMAIN table
           /\ table[row.job].plan = p /\ table[row.job].row = i
  PROVE  AreLinked(table, p, [rows EXCEPT ![i] = row])
<1> DEFINE new == [rows EXCEPT ![i] = row]
<1>1. DOMAIN new = DOMAIN rows /\ new[i] = row /\ \A j \in DOMAIN rows : j # i => new[j] = rows[j]
  OBVIOUS
<1> HIDE DEF new
<1>2. AreLinked(table, p, new)
  BY <1>1 DEF AreLinked
<1> QED BY <1>2 DEF new

-----------------------------------------------------------------------------
LEMMA CreatePlanRefers ==
  ASSUME IInv, Referred, NEW c \in Console, NEW answer \in Answers, CreatePlan(c, answer)
  PROVE  Referred'
<1> DEFINE built == BuiltPlan(Context, answer)
           new == NewPlan(built)
<1>1. /\ plans' = Append(plans, new) /\ cons' = [cons EXCEPT ![c] = [Idle EXCEPT !.pc = "derive"]]
      /\ UNCHANGED <<policy, jobs, artifacts, findings, memory, used>>
  BY DEF CreatePlan, Goto
<1>2. \A i \in DOMAIN built.rows : Fresh(built.rows[i])
  <2> HIDE DEF built
  <2>1. built = BuiltPlan(Context, answer)
    BY DEF built
  <2> QED BY <2>1, NewRows
<1> HIDE DEF built
<1>3. new.status \in Statuses /\ \A p : AreLinked(jobs', p, new.rows)
  BY <1>2 DEF NewPlan, Statuses, AreLinked, Fresh
<1> HIDE DEF new
<1>4. \A p \in DOMAIN plans' : plans'[p] = new \/ (p \in DOMAIN plans /\ plans'[p] = plans[p])
  <2>1. /\ Len(plans) \in Nat /\ DOMAIN plans = 1..Len(plans)
        /\ DOMAIN plans' = 1..(Len(plans) + 1) /\ plans'[Len(plans) + 1] = new
        /\ \A p \in DOMAIN plans : plans'[p] = plans[p]
    BY <1>1, ListDomain, ListAppend DEF IInv, Tables
  <2>2. \A p \in DOMAIN plans' : p \in DOMAIN plans \/ p = Len(plans) + 1
    BY <2>1
  <2> QED BY <2>1, <2>2
<1>5. ASSUME NEW d \in Console PROVE SameTouch(cons[d], cons'[d]) \/ InTouch(jobs', cons'[d])
  <2>1. CASE d = c
    <3>1. cons'[d].pc = "derive"
      BY <1>1, <2>1 DEF Idle, IInv, Reads
    <3> QED BY <3>1, IdleInTouch
  <2>2. CASE d # c
    BY <1>1, <2>2 DEF SameTouch, IInv, Reads
  <2> QED BY <2>1, <2>2
<1> QED BY <1>1, <1>3, <1>4, <1>5, KeepsRefers DEF Keeps

\* Only one console moves, and it refers to what there is.
LEMMA GotoRefers ==
  ASSUME IInv, Referred, Keeps, NEW c \in Console, NEW state, cons' = [cons EXCEPT ![c] = state],
         InTouch(jobs, state),
         \A p \in DOMAIN plans' :
           \/ p \in DOMAIN plans /\ plans'[p].status = plans[p].status /\ plans'[p].rows = plans[p].rows
           \/ plans'[p].status \in Statuses /\ AreLinked(jobs', p, plans'[p].rows),
         \A k \in DOMAIN memory' :
           (\E i \in DOMAIN memory : memory'[k] = memory[i]) \/ OfJob(jobs', memory'[k].key.host)
  PROVE  Referred'
<1>1. jobs' = jobs
  BY DEF Keeps
<1>2. \A d \in Console : SameTouch(cons[d], cons'[d]) \/ InTouch(jobs', cons'[d])
  BY <1>1 DEF SameTouch, IInv, Reads
<1> QED BY <1>2, KeepsRefers

-----------------------------------------------------------------------------
(* The memory that is made of the facts.                                   *)

LEMMA EntryHost ==
  ASSUME NEW type, NEW ref, NEW origin
  PROVE  Entry(type, ref, origin).key.host = ref.host
BY DEF Entry, TlsTarget, Plain, Socket

LEMMA NumberedField ==
  ASSUME NEW row, NEW i, NEW f \in DOMAIN row, f # "id"
  PROVE  Numbered(row, i)[f] = row[f]
BY DEF Numbered

LEMMA MemoryOfJobs ==
  ASSUME IInv, Referred
  PROVE  /\ IsList(MemoryOf(Context))
         /\ \A n \in DOMAIN MemoryOf(Context) : OfJob(jobs, MemoryOf(Context)[n].key.host)
<1> DEFINE A == [i \in DOMAIN Context.jobs |->
                   Entry(TypeOfTool[Context.jobs[i].tool], Context.jobs[i].target,
                         <<"job", Context.jobs[i].id>>)]
           B == [i \in DOMAIN Context.artifacts |->
                   Entry(TypeOfEvidence[Context.artifacts[i].type], Context.artifacts[i].ref,
                         <<"artifact", Context.artifacts[i].id>>)]
           C == [i \in DOMAIN Context.findings |->
                   Entry(TypeOfFinding(Context.findings[i]), Context.findings[i].ref,
                         <<"finding", Context.findings[i].id>>)]
<1>1. MemoryOf(Context) = (A \o B) \o C
  BY DEF MemoryOf
<1>2. /\ ReadOf(Context.jobs, jobs) /\ ReadOf(Context.artifacts, artifacts)
      /\ ReadOf(Context.findings, findings)
  BY ContextLists DEF IInv
<1>3. \A i \in DOMAIN Context.jobs : OfJob(jobs, Context.jobs[i].target.host)
  <2> SUFFICES ASSUME NEW i \in DOMAIN Context.jobs
               PROVE  OfJob(jobs, Context.jobs[i].target.host)
    OBVIOUS
  <2>1. PICK k \in DOMAIN jobs : Context.jobs[i] = Numbered(jobs[k], k)
    BY <1>2 DEF ReadOf
  <2>2. "target" \in DOMAIN jobs[k]
    BY DEF IInv, JobsMade, JobFields
  <2>3. Numbered(jobs[k], k).target = jobs[k].target
    BY <2>2, NumberedField
  <2> QED BY <2>1, <2>3 DEF OfJob
<1>4. ASSUME NEW list, NEW rows, ReadOf(list, rows), Evident(jobs, rows), NEW i \in DOMAIN list
      PROVE  OfJob(jobs, list[i].ref.host)
  <2>1. PICK k \in DOMAIN rows : list[i] = Numbered(rows[k], k)
    BY <1>4 DEF ReadOf
  <2>2. "ref" \in DOMAIN rows[k] /\ OfJob(jobs, rows[k].ref.host)
    BY <1>4 DEF Evident, IsEvidence
  <2>3. Numbered(rows[k], k).ref = rows[k].ref
    BY <2>2, NumberedField
  <2> QED BY <2>1, <2>2, <2>3
<1>5. \A i \in DOMAIN Context.artifacts : OfJob(jobs, Context.artifacts[i].ref.host)
  BY <1>2, <1>4 DEF Referred
<1>6. \A i \in DOMAIN Context.findings : OfJob(jobs, Context.findings[i].ref.host)
  BY <1>2, <1>4 DEF Referred
<1>7. /\ DOMAIN A = DOMAIN Context.jobs /\ A = [i \in DOMAIN Context.jobs |-> A[i]]
      /\ DOMAIN B = DOMAIN Context.artifacts /\ B = [i \in DOMAIN Context.artifacts |-> B[i]]
      /\ DOMAIN C = DOMAIN Context.findings /\ C = [i \in DOMAIN Context.findings |-> C[i]]
  OBVIOUS
<1>8. \A i \in DOMAIN A : OfJob(jobs, A[i].key.host)
  BY <1>3, EntryHost
<1>9. \A i \in DOMAIN B : OfJob(jobs, B[i].key.host)
  BY <1>5, EntryHost
<1>10. \A i \in DOMAIN C : OfJob(jobs, C[i].key.host)
  BY <1>6, EntryHost
<1> HIDE DEF A, B, C
<1>11. ASSUME NEW list, NEW rows, ReadOf(list, rows), NEW s, DOMAIN s = DOMAIN list,
              s = [i \in DOMAIN list |-> s[i]]
       PROVE  IsList(s)
  <2>1. Len(list) \in Nat /\ DOMAIN list = 1..Len(list)
    BY <1>11, ListDomain DEF ReadOf
  <2> QED BY <1>11, <2>1, ListOfFunction
<1>12. IsList(A) /\ IsList(B) /\ IsList(C)
  BY <1>2, <1>7, <1>11
<1> DEFINE AB == A \o B
           ABC == AB \o C
<1>13. AB = A \o B /\ ABC = AB \o C
  OBVIOUS
<1> HIDE DEF AB, ABC
<1>14. IsList(AB) /\ \A i \in DOMAIN AB : OfJob(jobs, AB[i].key.host)
  <2>1. IsList(AB) /\ IsOf(AB, A, B)
    BY <1>12, <1>13, ListJoined
  <2> QED BY <1>8, <1>9, <2>1 DEF IsOf
<1>15. IsList(ABC) /\ \A i \in DOMAIN ABC : OfJob(jobs, ABC[i].key.host)
  <2>1. IsList(ABC) /\ IsOf(ABC, AB, C)
    BY <1>12, <1>13, <1>14, ListJoined
  <2> QED BY <1>10, <1>14, <2>1 DEF IsOf
<1> QED BY <1>1, <1>13, <1>15

LEMMA DeriveRefers ==
  ASSUME IInv, Referred, NEW c \in Console, Derive(c)
  PROVE  Referred'
<1> DEFINE state == [cons[c] EXCEPT !.pc = "remember", !.entries = MemoryOf(Context)]
<1>1. /\ cons' = [cons EXCEPT ![c] = state]
      /\ UNCHANGED <<policy, jobs, artifacts, findings, memory, plans, used>>
  BY DEF Derive, Goto
<1>2. state.pc = "remember" /\ state.entries = MemoryOf(Context)
  BY DEF IInv, Reads, StateFields
<1> HIDE DEF state
<1>3. InTouch(jobs, state)
  BY <1>2, MemoryOfJobs DEF InTouch
<1> QED BY <1>1, <1>3, GotoRefers DEF Keeps

LEMMA ListTail ==
  ASSUME NEW s, IsList(s), s # <<>>
  PROVE  /\ IsList(Tail(s)) /\ 1 \in DOMAIN s /\ Head(s) = s[1]
         /\ \A n \in DOMAIN Tail(s) : n + 1 \in DOMAIN s /\ Tail(s)[n] = s[n + 1]
<1> DEFINE S == ToSet(s)
<1>1. s \in Seq(S) /\ Len(s) \in Nat /\ DOMAIN s = 1..Len(s)
  BY ListDomain DEF IsList
<1> HIDE DEF S
<1>2. Len(s) # 0
  BY <1>1, EmptySeq
<1>3. /\ Tail(s) \in Seq(S) /\ Len(Tail(s)) = Len(s) - 1
      /\ \A i \in 1..Len(Tail(s)) : Tail(s)[i] = s[i + 1]
      /\ Head(s) = s[1]
  BY <1>1, <1>2, HeadTailProperties
<1>4. DOMAIN Tail(s) = 1..(Len(s) - 1) /\ Tail(s) \in [1..(Len(s) - 1) -> S]
  BY <1>3, LenProperties
<1>5. IsList(Tail(s))
  <2> DEFINE t == Tail(s)
             n == Len(s) - 1
  <2>1. n \in Nat /\ DOMAIN t = 1..n /\ t \in [1..n -> S]
    BY <1>1, <1>2, <1>4
  <2> HIDE DEF t, n
  <2>2. t = [i \in 1..n |-> t[i]]
    BY <2>1
  <2>3. IsList(t)
    BY <2>1, <2>2, ListOfFunction
  <2> QED BY <2>3 DEF t
<1> QED BY <1>1, <1>2, <1>3, <1>4, <1>5

LEMMA RememberRefers ==
  ASSUME IInv, Referred, NEW c \in Console, Remember(c)
  PROVE  Referred'
<1> DEFINE entries == cons[c].entries
           state == [cons[c] EXCEPT !.entries = Tail(entries)]
<1>1. /\ cons[c].pc = "remember" /\ entries # <<>> /\ memory' = Append(memory, Head(entries))
      /\ cons' = [cons EXCEPT ![c] = state]
      /\ UNCHANGED <<policy, jobs, artifacts, findings, plans, used>>
  BY DEF Remember, Goto
<1>2. IsList(entries) /\ \A n \in DOMAIN entries : OfJob(jobs, entries[n].key.host)
  BY <1>1 DEF Referred, InTouch
<1>3. state.pc = "remember" /\ state.entries = Tail(entries)
  BY <1>1 DEF IInv, Reads, StateFields
<1> HIDE DEF entries, state
<1>4. InTouch(jobs, state)
  BY <1>1, <1>2, <1>3, ListTail DEF InTouch
<1>5. OfJob(jobs, Head(entries).key.host)
  BY <1>1, <1>2, ListTail
<1>6. ASSUME NEW k \in DOMAIN memory'
      PROVE  (\E i \in DOMAIN memory : memory'[k] = memory[i]) \/ OfJob(jobs', memory'[k].key.host)
  <2>1. /\ Len(memory) \in Nat /\ DOMAIN memory = 1..Len(memory)
        /\ DOMAIN memory' = 1..(Len(memory) + 1) /\ memory'[Len(memory) + 1] = Head(entries)
        /\ \A i \in DOMAIN memory : memory'[i] = memory[i]
    BY <1>1, ListDomain, ListAppend DEF IInv, Tables
  <2> QED BY <1>1, <1>5, <2>1
<1> QED BY <1>1, <1>4, <1>6, GotoRefers DEF Keeps

LEMMA EndWritebackRefers ==
  ASSUME IInv, Referred, NEW c \in Console, EndWriteback(c)
  PROVE  Referred'
<1>1. /\ cons' = [cons EXCEPT ![c] = Idle]
      /\ UNCHANGED <<policy, jobs, artifacts, findings, memory, plans, used>>
  BY DEF EndWriteback, Goto
<1>2. InTouch(jobs, Idle)
  BY IdleInTouch DEF Idle
<1> QED BY <1>1, <1>2, GotoRefers DEF Keeps

-----------------------------------------------------------------------------
(* An apply, and the rest of the system.                                   *)

LEMMA ApplyRefers ==
  ASSUME IInv, Referred, NEW c \in Console, NEW p \in DOMAIN plans,
         NEW selection \in SUBSET Proposed(plans[p].rows), Apply(c, p, selection)
  PROVE  Referred'
<1> DEFINE rows == plans[p].rows
           taken == IF selection = {} THEN {i \in Proposed(rows) : rows[i].apply = "pending"}
                                      ELSE selection
           torn == plans[p].torn \/ Applying(p) # {}
           state == [Idle EXCEPT !.pc = "apply", !.plan = p, !.rows = rows, !.policy = policy,
                                 !.todo = InOrder(taken), !.apply = used.applies + 1,
                                 !.alone = Applying(p) = {}]
           Other(d) == [cons[d] EXCEPT !.alone = cons[d].alone /\ d \notin Applying(p)]
<1>1. /\ plans' = [plans EXCEPT ![p].torn = torn]
      /\ cons' = [d \in Console |-> IF d = c THEN state ELSE Other(d)]
      /\ UNCHANGED <<policy, jobs, artifacts, findings, memory>>
  BY DEF Apply
<1>2. state.pc = "apply" /\ state.plan = p /\ state.rows = rows
  <2> HIDE DEF rows, taken
  <2> QED BY DEF Idle
<1> HIDE DEF torn, state
<1>3. InTouch(jobs, state)
  BY <1>2 DEF InTouch, Referred
<1>4. ASSUME NEW d \in Console PROVE SameTouch(cons[d], cons'[d]) \/ InTouch(jobs', cons'[d])
  <2>1. CASE d = c
    BY <1>1, <1>3, <2>1
  <2>2. CASE d # c
    <3>1. cons'[d] = Other(d) /\ DOMAIN cons[d] = StateFields
      BY <1>1, <2>2 DEF IInv, Reads
    <3> QED BY <3>1 DEF SameTouch, StateFields
  <2> QED BY <2>1, <2>2
<1>5. \A q \in DOMAIN plans' : /\ q \in DOMAIN plans /\ plans'[q].status = plans[q].status
                              /\ plans'[q].rows = plans[q].rows
  <2>1. \A q \in DOMAIN plans : DOMAIN plans[q] = PlanFields
    BY DEF IInv, PlansMade
  <2> QED BY <1>1, <2>1 DEF PlanFields
<1> QED BY <1>1, <1>4, <1>5, KeepsRefers DEF Keeps

LEMMA SkipAppliedRefers ==
  ASSUME IInv, Referred, NEW c \in Console, SkipApplied(c)
  PROVE  Referred'
<1> DEFINE state == [cons[c] EXCEPT !.todo = Tail(cons[c].todo)]
<1>1. /\ cons[c].pc = "apply" /\ cons' = [cons EXCEPT ![c] = state]
      /\ UNCHANGED <<policy, jobs, artifacts, findings, memory, plans, used>>
  BY DEF SkipApplied, Goto
<1>2. state.pc = "apply" /\ state.plan = cons[c].plan /\ state.rows = cons[c].rows
  BY <1>1 DEF IInv, Reads, StateFields
<1> HIDE DEF state
<1>3. InTouch(jobs, state)
  BY <1>1, <1>2 DEF InTouch, Referred
<1> QED BY <1>1, <1>3, GotoRefers DEF Keeps

\* A console that saves a row, of the plan and of what it has read.
SavesRow(c, i, row, state) ==
  /\ Keeps /\ memory' = memory /\ Underway(c) /\ cons[c].todo # <<>> /\ i = Head(cons[c].todo)
  /\ plans' = SaveRow(cons[c].plan, i, row) /\ cons' = [cons EXCEPT ![c] = state]
  /\ state.pc = "apply" /\ state.plan = cons[c].plan
  /\ state.rows = [cons[c].rows EXCEPT ![i] = row]
  /\ row.kind \in {"proposed", "skipped", "blocked"}
  /\ row.apply \in {"pending", "applied", "skipped"}
  /\ row.apply = "applied" =>
       /\ row.job \in DOMAIN jobs
       /\ jobs[row.job].plan = cons[c].plan /\ jobs[row.job].row = i

LEMMA SaveRefers ==
  ASSUME IInv, Referred, NEW c \in Console, NEW i, NEW row, NEW state, SavesRow(c, i, row, state)
  PROVE  Referred'
<1>a. /\ Keeps /\ memory' = memory /\ Underway(c) /\ cons[c].todo # <<>> /\ i = Head(cons[c].todo)
      /\ plans' = SaveRow(cons[c].plan, i, row) /\ cons' = [cons EXCEPT ![c] = state]
      /\ state.pc = "apply" /\ state.plan = cons[c].plan
      /\ state.rows = [cons[c].rows EXCEPT ![i] = row]
  BY DEF SavesRow
<1>b. /\ row.kind \in {"proposed", "skipped", "blocked"}
      /\ row.apply \in {"pending", "applied", "skipped"}
      /\ row.apply = "applied" =>
           /\ row.job \in DOMAIN jobs
           /\ jobs[row.job].plan = cons[c].plan /\ jobs[row.job].row = i
  BY DEF SavesRow
<1> SUFFICES ASSUME NEW p, p = cons[c].plan PROVE Referred'
  OBVIOUS
<1>1. /\ p \in DOMAIN plans /\ HasRead(cons[c], plans[p].rows)
      /\ DOMAIN plans[p] = PlanFields
  BY <1>a DEF IInv, Reads, PlansMade
<1>2. i \in DOMAIN cons[c].rows /\ i \in DOMAIN plans[p].rows
  <2>1. i \in Proposed(cons[c].rows)
    BY <1>a, <1>1, TodoTail DEF HasRead
  <2> QED BY <1>1, <2>1 DEF HasRead, SameJobs, Proposed
<1>3. AreLinked(jobs, p, cons[c].rows) /\ AreLinked(jobs, p, plans[p].rows) /\ plans[p].status \in Statuses
  BY <1>a, <1>1 DEF Referred, InTouch, Underway
<1>4. InTouch(jobs, state)
  <2>1. AreLinked(jobs, p, state.rows)
    BY <1>a, <1>b, <1>2, <1>3, LinkedExcept
  <2> QED BY <1>a, <2>1 DEF InTouch
<1>5. AreLinked(jobs, p, [plans[p].rows EXCEPT ![i] = row])
  BY <1>b, <1>2, <1>3, LinkedExcept
<1> DEFINE saved == [plans[p].rows EXCEPT ![i] = row]
<1>6. plans' = [plans EXCEPT ![p] = [plans[p] EXCEPT !.rows = saved]]
  BY <1>a, <1>1 DEF SaveRow
<1> HIDE DEF saved
<1>7. ASSUME NEW q \in DOMAIN plans'
      PROVE  \/ q \in DOMAIN plans /\ plans'[q].status = plans[q].status /\ plans'[q].rows = plans[q].rows
             \/ plans'[q].status \in Statuses /\ AreLinked(jobs', q, plans'[q].rows)
  <2>1. CASE q = p
    <3>1. plans'[q].rows = saved /\ plans'[q].status = plans[p].status
      BY <1>1, <1>6, <2>1 DEF PlanFields
    <3> QED BY <1>a, <1>3, <1>5, <2>1, <3>1 DEF Keeps, saved
  <2>2. CASE q # p
    BY <1>6, <2>2
  <2> QED BY <2>1, <2>2
<1> QED BY <1>a, <1>4, <1>7, GotoRefers

\* What a console that is to save a row knows of it.
LEMMA RowLinked ==
  ASSUME IInv, Referred, NEW c \in Console, Underway(c), cons[c].todo # <<>>,
         NEW row, row = cons[c].rows[Head(cons[c].todo)]
  PROVE  /\ DOMAIN row = Fields /\ row.kind \in {"proposed", "skipped", "blocked"}
         /\ row.apply \in {"pending", "applied", "skipped"}
<1>1. HasRead(cons[c], plans[cons[c].plan].rows)
  BY DEF IInv, Reads
<1>2. Head(cons[c].todo) \in DOMAIN cons[c].rows
  <2>1. Head(cons[c].todo) \in Proposed(cons[c].rows)
    BY <1>1, TodoTail DEF HasRead
  <2> QED BY <2>1 DEF Proposed
<1>3. AreLinked(jobs, cons[c].plan, cons[c].rows)
  BY DEF Referred, InTouch, Underway
<1> QED BY <1>1, <1>2, <1>3 DEF HasRead, AreRows, AreLinked

LEMMA SkipInvalidRefers ==
  ASSUME IInv, Referred, NEW c \in Console, SkipInvalid(c)
  PROVE  Referred'
<1> DEFINE i == Head(cons[c].todo)
           row == cons[c].rows[i]
           skipped == [row EXCEPT !.apply = "skipped"]
           read == [cons[c].rows EXCEPT ![i] = skipped]
           state == [cons[c] EXCEPT !.todo = Tail(cons[c].todo), !.changed = TRUE, !.rows = read]
<1>1. /\ cons[c].pc = "apply" /\ cons[c].todo # <<>>
      /\ plans' = SaveRow(cons[c].plan, i, skipped)
      /\ UNCHANGED <<policy, jobs, artifacts, findings, memory, used>>
  BY DEF SkipInvalid
<1>2. Underway(c) /\ DOMAIN cons[c] = StateFields /\ DOMAIN cons = Console
  BY <1>1 DEF Underway, IInv, Reads
<1>3. cons' = [cons EXCEPT ![c] = state]
  BY <1>2 DEF SkipInvalid, Goto
<1>4. DOMAIN row = Fields /\ row.kind \in {"proposed", "skipped", "blocked"}
  BY <1>1, <1>2, RowLinked
<1> HIDE DEF row
<1>5. skipped.kind \in {"proposed", "skipped", "blocked"} /\ skipped.apply = "skipped"
  BY <1>4 DEF Fields
<1> HIDE DEF skipped
<1>6. state.pc = "apply" /\ state.plan = cons[c].plan /\ state.rows = read
  <2> HIDE DEF read
  <2> QED BY <1>1, <1>2 DEF StateFields
<1> HIDE DEF state
<1>7. SavesRow(c, i, skipped, state)
  BY <1>1, <1>2, <1>3, <1>5, <1>6 DEF SavesRow, Keeps
<1> QED BY <1>7, SaveRefers

LEMMA CreateJobRefers ==
  ASSUME IInv, Referred, NEW c \in Console, CreateJob(c)
  PROVE  Referred'
<1> DEFINE i == Head(cons[c].todo)
           row == cons[c].rows[i]
           job == NewJob(c, i, row)
           state == [cons[c] EXCEPT !.pc = "link", !.job = Len(jobs) + 1]
<1>1. /\ cons[c].pc = "apply" /\ cons' = [cons EXCEPT ![c] = state]
      /\ StillValid(cons[c].policy, row) /\ jobs' = Append(jobs, job)
      /\ UNCHANGED <<policy, artifacts, findings, memory, plans, used>>
  BY DEF CreateJob, Goto
<1>2. /\ state.pc = "link" /\ state.plan = cons[c].plan /\ state.rows = cons[c].rows
      /\ state.todo = cons[c].todo /\ state.job = Len(jobs) + 1
  BY <1>1 DEF IInv, Reads, StateFields
<1>3. job.tool \in ToolName /\ job.plan = cons[c].plan /\ job.row = i
  <2>1. Precheck(row.tool, row.target, row.args, cons[c].policy) = "proposed"
    BY <1>1 DEF StillValid, Revalidated
  <2>2. row.tool \in ToolName
    BY <2>1 DEF Precheck, Validate
  <2> QED BY <2>2 DEF NewJob
<1> HIDE DEF state, job
<1>4. /\ Len(jobs) \in Nat /\ DOMAIN jobs = 1..Len(jobs)
      /\ DOMAIN jobs' = 1..(Len(jobs) + 1) /\ jobs'[Len(jobs) + 1] = job
      /\ \A k \in DOMAIN jobs : jobs'[k] = jobs[k]
  BY <1>1, ListDomain, ListAppend DEF IInv, Tables
<1>5. JobsGrow /\ \A k \in DOMAIN jobs' : jobs'[k].tool \in ToolName
  <2>1. JobsGrow
    BY <1>4 DEF JobsGrow
  <2>2. \A k \in DOMAIN jobs' : k \in DOMAIN jobs \/ k = Len(jobs) + 1
    BY <1>4
  <2> QED BY <1>3, <1>4, <2>1, <2>2 DEF Referred
<1>6. InTouch(jobs', state)
  <2>1. AreLinked(jobs, cons[c].plan, cons[c].rows)
    BY <1>1 DEF Referred, InTouch
  <2>2. AreLinked(jobs', state.plan, state.rows)
    BY <1>2, <1>5, <2>1, LinkedStay
  <2>3. state.job \in DOMAIN jobs'
    BY <1>2, <1>4
  <2>4. jobs'[state.job].plan = state.plan /\ jobs'[state.job].row = Head(state.todo)
    BY <1>2, <1>3, <1>4
  <2> QED BY <1>2, <2>2, <2>3, <2>4 DEF InTouch
<1>7. \A d \in Console : SameTouch(cons[d], cons'[d]) \/ InTouch(jobs', cons'[d])
  BY <1>1, <1>6 DEF SameTouch, IInv, Reads
<1>8. Refers
  BY <1>1, <1>5, <1>7 DEF Refers
<1> QED BY <1>8, RefersStays

LEMMA LinkRefers ==
  ASSUME IInv, Referred, NEW c \in Console, Link(c)
  PROVE  Referred'
<1> DEFINE i == Head(cons[c].todo)
           row == cons[c].rows[i]
           linked == Linked(row, cons[c].job)
           read == [cons[c].rows EXCEPT ![i] = linked]
           state == [cons[c] EXCEPT !.pc = "apply", !.todo = Tail(cons[c].todo),
                                    !.changed = TRUE, !.rows = read]
<1>1. /\ cons[c].pc = "link" /\ plans' = SaveRow(cons[c].plan, i, linked)
      /\ UNCHANGED <<policy, jobs, artifacts, findings, memory, used>>
  BY DEF Link
<1>2. Underway(c) /\ DOMAIN cons[c] = StateFields /\ DOMAIN cons = Console
  BY <1>1 DEF Underway, IInv, Reads
<1>3. cons' = [cons EXCEPT ![c] = state]
  <2> HIDE DEF linked
  <2>1. cons' = [cons EXCEPT ![c] = [cons[c] EXCEPT !.pc = "apply", !.todo = Tail(cons[c].todo),
                                     !.changed = TRUE, !.rows[i] = linked]]
    BY DEF Link, Goto, linked
  <2> QED BY <1>2, <2>1
<1>4. cons[c].todo # <<>>
  BY <1>1, <1>2 DEF IInv, Reads, HasRead
<1>5. /\ cons[c].job \in DOMAIN jobs
      /\ jobs[cons[c].job].plan = cons[c].plan /\ jobs[cons[c].job].row = i
  BY <1>1 DEF Referred, InTouch
<1>6. DOMAIN row = Fields /\ row.kind \in {"proposed", "skipped", "blocked"}
  BY <1>2, <1>4, RowLinked
<1> HIDE DEF row
<1>7. /\ linked.kind \in {"proposed", "skipped", "blocked"} /\ linked.apply = "applied"
      /\ linked.job = cons[c].job
  BY <1>6 DEF Fields, Linked
<1> HIDE DEF linked
<1>8. state.pc = "apply" /\ state.plan = cons[c].plan /\ state.rows = read
  <2> HIDE DEF read
  <2> QED BY <1>1, <1>2 DEF StateFields
<1> HIDE DEF state
<1>9. SavesRow(c, i, linked, state)
  BY <1>1, <1>2, <1>3, <1>4, <1>5, <1>7, <1>8 DEF SavesRow, Keeps
<1> QED BY <1>9, SaveRefers

LEMMA ListRowsRefers ==
  ASSUME IInv, Referred, NEW c \in Console, ListRows(c)
  PROVE  Referred'
<1> DEFINE rows == plans[cons[c].plan].rows
           read == [cons[c] EXCEPT !.pc = "save", !.rows = rows]
           state == IF cons[c].changed THEN read ELSE Idle
<1>1. /\ cons[c].pc = "apply" /\ cons' = [cons EXCEPT ![c] = state]
      /\ UNCHANGED <<policy, jobs, artifacts, findings, memory, plans, used>>
  BY DEF ListRows, Goto
<1>2. cons[c].plan \in DOMAIN plans /\ DOMAIN cons[c] = StateFields
  BY <1>1 DEF IInv, Reads, Underway
<1>3. read.pc = "save" /\ read.plan = cons[c].plan /\ read.rows = rows
  <2> HIDE DEF rows
  <2> QED BY <1>2 DEF StateFields
<1> HIDE DEF read
<1>4. InTouch(jobs, read)
  BY <1>2, <1>3 DEF InTouch, Referred
<1>5. InTouch(jobs, state)
  BY <1>4, IdleInTouch DEF Idle
<1> HIDE DEF state
<1> QED BY <1>1, <1>5, GotoRefers DEF Keeps

LEMMA SavePlanRefers ==
  ASSUME IInv, Referred, NEW c \in Console, SavePlan(c)
  PROVE  Referred'
<1> SUFFICES ASSUME NEW p, p = cons[c].plan PROVE Referred'
  OBVIOUS
<1> DEFINE status == Derived(plans[p].status, cons[c].rows)
           torn == plans[p].torn /\ ~cons[c].alone
           new == [plans[p] EXCEPT !.status = status, !.torn = torn]
<1>1. /\ cons[c].pc = "save" /\ cons' = [cons EXCEPT ![c] = Idle]
      /\ UNCHANGED <<policy, jobs, artifacts, findings, memory, used>>
  BY DEF SavePlan, Goto
<1>2. p \in DOMAIN plans /\ DOMAIN plans[p] = PlanFields
  BY <1>1 DEF Underway, IInv, Reads, PlansMade
<1>3. plans' = [plans EXCEPT ![p] = new]
  <2> HIDE DEF status, torn
  <2>1. plans' = [plans EXCEPT ![p].status = status, ![p].torn = torn]
    BY DEF SavePlan, status, torn
  <2> QED BY <1>2, <2>1 DEF PlanFields
<1>4. new.status \in Statuses /\ new.rows = plans[p].rows /\ AreLinked(jobs, p, new.rows)
  <2>1. plans[p].status \in Statuses /\ AreLinked(jobs, p, plans[p].rows)
    BY <1>2 DEF Referred
  <2>2. status \in Statuses
    BY <2>1 DEF Derived, Statuses
  <2> HIDE DEF status, torn
  <2> QED BY <1>2, <2>1, <2>2 DEF PlanFields
<1> HIDE DEF new
<1>5. ASSUME NEW q \in DOMAIN plans'
      PROVE  \/ q \in DOMAIN plans /\ plans'[q].status = plans[q].status /\ plans'[q].rows = plans[q].rows
             \/ plans'[q].status \in Statuses /\ AreLinked(jobs', q, plans'[q].rows)
  <2>1. CASE q = p
    BY <1>1, <1>2, <1>3, <1>4, <2>1
  <2>2. CASE q # p
    BY <1>3, <2>2
  <2> QED BY <2>1, <2>2
<1>6. InTouch(jobs, Idle)
  BY IdleInTouch DEF Idle
<1> QED BY <1>1, <1>5, <1>6, GotoRefers DEF Keeps

LEMMA CrashRefers ==
  ASSUME IInv, Referred, NEW c \in Console, Crash(c)
  PROVE  Referred'
<1>1. /\ cons' = [cons EXCEPT ![c] = Idle]
      /\ plans' = [q \in DOMAIN plans |-> [plans[q] EXCEPT !.torn = plans[q].torn \/ c \in Applying(q)]]
      /\ UNCHANGED <<policy, jobs, artifacts, findings, memory>>
  BY DEF Crash, Goto
<1>2. \A q \in DOMAIN plans' : /\ q \in DOMAIN plans /\ plans'[q].status = plans[q].status
                              /\ plans'[q].rows = plans[q].rows
  <2>1. \A q \in DOMAIN plans : DOMAIN plans[q] = PlanFields
    BY DEF IInv, PlansMade
  <2> QED BY <1>1, <2>1 DEF PlanFields
<1>3. InTouch(jobs, Idle)
  BY IdleInTouch DEF Idle
<1> QED BY <1>1, <1>2, <1>3, GotoRefers DEF Keeps

LEMMA UnchangedRefers ==
  ASSUME IInv, Referred, Keeps, UNCHANGED <<plans, cons, memory>>
  PROVE  Referred'
BY KeepsRefers DEF SameTouch

\* The evidence of a job is of the host that it worked on.
LEMMA EvidenceHost ==
  ASSUME NEW tool \in ToolName, NEW target, NEW args
  PROVE  /\ "ref" \in DOMAIN Evidence(tool, target, args)
         /\ Evidence(tool, target, args).ref.host = target.host
<1>1. /\ DnsEvidence(target) = Artifact("dns_response", target)
      /\ HttpEvidence(target) = Artifact("http_response", target)
      /\ \E r : TlsEvidence(target, args) = Artifact("tls_certificate", r) /\ r.host = target.host
      /\ \E r : ScanEvidence(target) = Artifact("port_scan", r) /\ r.host = target.host
      /\ \E r : BannerEvidence(target) = Artifact("banner", r) /\ r.host = target.host
  <2>1. \A port : Socket(target.host, port).host = target.host
    BY DEF Socket
  <2> QED BY <2>1 DEF DnsEvidence, HttpEvidence, TlsEvidence, ScanEvidence, BannerEvidence, Plain, Socket
<1>2. \A type, r : "ref" \in DOMAIN Artifact(type, r) /\ Artifact(type, r).ref = r
  BY DEF Artifact
<1>3. \/ Evidence(tool, target, args) = DnsEvidence(target) \/ Evidence(tool, target, args) = HttpEvidence(target)
      \/ Evidence(tool, target, args) = TlsEvidence(target, args) \/ Evidence(tool, target, args) = ScanEvidence(target)
      \/ Evidence(tool, target, args) = BannerEvidence(target)
  BY DEF Evidence, ToolName
<1> QED BY <1>1, <1>2, <1>3

LEMMA SucceedRefers ==
  ASSUME IInv, Referred, NEW k \in DOMAIN jobs, NEW flaws, flaws = {} \/ \E f : flaws = {f},
         Succeed(k, flaws)
  PROVE  Referred'
<1> DEFINE found == Findings(jobs[k].tool, jobs[k].target, jobs[k].args, flaws)
           left == Evidence(jobs[k].tool, jobs[k].target, jobs[k].args)
           listed == SetToSeq(found)
           done == [jobs[k] EXCEPT !.done = TRUE]
<1>1. /\ jobs' = [jobs EXCEPT ![k] = done] /\ artifacts' = Append(artifacts, left)
      /\ findings' = findings \o listed
      /\ UNCHANGED <<policy, memory, plans, cons, used>>
  BY DEF Succeed
<1>2. JobsGrow /\ \A j \in DOMAIN jobs' : jobs'[j].tool \in ToolName
  <2>1. \A j \in DOMAIN jobs : DOMAIN jobs[j] = JobFields
    BY DEF IInv, JobsMade
  <2>2. /\ done.plan = jobs[k].plan /\ done.row = jobs[k].row /\ done.target = jobs[k].target
        /\ done.tool = jobs[k].tool
    BY <2>1 DEF JobFields
  <2> HIDE DEF done
  <2>3. /\ DOMAIN jobs' = DOMAIN jobs /\ jobs'[k] = done
        /\ \A j \in DOMAIN jobs : j # k => jobs'[j] = jobs[j]
    BY <1>1
  <2> QED BY <2>2, <2>3 DEF JobsGrow, Referred
<1>3. "ref" \in DOMAIN left /\ left.ref.host = jobs[k].target.host
  BY EvidenceHost DEF Referred
<1>4. OfJob(jobs', jobs[k].target.host)
  BY <1>2 DEF JobsGrow, OfJob
<1>5. IsEvidence(jobs', left)
  <2> HIDE DEF left
  <2> QED BY <1>3, <1>4 DEF IsEvidence
<1>6. \A f \in found : IsEvidence(jobs', f)
  <2> SUFFICES ASSUME NEW f \in found PROVE IsEvidence(jobs', f)
    OBVIOUS
  <2>1. PICK type : f = Finding(type, left.ref)
    BY DEF Findings
  <2> HIDE DEF left
  <2>2. "ref" \in DOMAIN f /\ f.ref = left.ref
    BY <2>1 DEF Finding
  <2> QED BY <1>3, <1>4, <2>2 DEF IsEvidence
<1>7. IsFiniteSet(found)
  <2>1. found = {} \/ \E f : found = {f}
    BY DEF Findings
  <2> HIDE DEF found
  <2> QED BY <2>1, FS_EmptySet, FS_Singleton
<1> HIDE DEF found, left
<1>8. IsList(listed) /\ \A i \in DOMAIN listed : listed[i] \in found
  BY <1>7, SetList
<1> HIDE DEF listed
<1>9. ASSUME NEW n \in DOMAIN artifacts'
      PROVE  (\E i \in DOMAIN artifacts : artifacts'[n] = artifacts[i]) \/ IsEvidence(jobs', artifacts'[n])
  <2>1. /\ Len(artifacts) \in Nat /\ DOMAIN artifacts = 1..Len(artifacts)
        /\ DOMAIN artifacts' = 1..(Len(artifacts) + 1) /\ artifacts'[Len(artifacts) + 1] = left
        /\ \A i \in DOMAIN artifacts : artifacts'[i] = artifacts[i]
    BY <1>1, ListDomain, ListAppend DEF IInv, Tables
  <2> QED BY <1>5, <2>1
<1>10. ASSUME NEW n \in DOMAIN findings'
       PROVE  (\E i \in DOMAIN findings : findings'[n] = findings[i]) \/ IsEvidence(jobs', findings'[n])
  <2>1. IsList(findings)
    BY DEF IInv, Tables
  <2>2. findings' = findings \o listed
    BY <1>1
  <2>3. IsOf(findings', findings, listed)
    BY <1>8, <2>1, <2>2, ListJoined
  <2> QED BY <1>6, <1>8, <2>3 DEF IsOf
<1>11. Refers
  BY <1>1, <1>2, <1>9, <1>10 DEF Refers, SameTouch
<1> QED BY <1>11, RefersStays

LEMMA CloseFindingRefers ==
  ASSUME IInv, Referred, NEW k \in DOMAIN findings, CloseFinding(k)
  PROVE  Referred'
<1> DEFINE closed == [findings[k] EXCEPT !.open = FALSE]
<1>1. /\ findings' = [findings EXCEPT ![k] = closed]
      /\ UNCHANGED <<policy, jobs, artifacts, memory, plans, cons, used>>
  BY DEF CloseFinding
<1>2. IsEvidence(jobs', closed)
  <2>1. "ref" \in DOMAIN findings[k] /\ OfJob(jobs, findings[k].ref.host)
    BY DEF Referred, Evident, IsEvidence
  <2>2. "ref" \in DOMAIN closed /\ closed.ref = findings[k].ref
    BY <2>1
  <2> HIDE DEF closed
  <2> QED BY <1>1, <2>1, <2>2 DEF IsEvidence
<1> HIDE DEF closed
<1>3. \A n \in DOMAIN findings' :
        (\E i \in DOMAIN findings : findings'[n] = findings[i]) \/ IsEvidence(jobs', findings'[n])
  BY <1>1, <1>2
<1>4. JobsGrow /\ \A j \in DOMAIN jobs' : jobs'[j].tool \in ToolName
  BY <1>1 DEF JobsGrow, Referred
<1>5. Refers
  BY <1>1, <1>3, <1>4 DEF Refers, SameTouch
<1> QED BY <1>5, RefersStays

LEMMA InitRefers ==
  ASSUME Init
  PROVE  Referred
<1>1. /\ DOMAIN plans = {} /\ DOMAIN jobs = {} /\ DOMAIN artifacts = {} /\ DOMAIN findings = {}
      /\ DOMAIN memory = {} /\ \A c \in Console : cons[c].pc = "idle"
  BY DEF Init, Idle
<1> QED BY <1>1, IdleInTouch DEF Referred, Evident

LEMMA StepRefers ==
  ASSUME IInv, Referred, [Next]_vars
  PROVE  Referred'
<1>1. CASE UNCHANGED vars
  BY <1>1, UnchangedRefers DEF vars, Keeps
<1>2. ASSUME NEW c \in Console, Planning(c) PROVE Referred'
  BY <1>2, CreatePlanRefers, DeriveRefers, RememberRefers, EndWritebackRefers DEF Planning
<1>3. ASSUME NEW c \in Console, Application(c) PROVE Referred'
  BY <1>3, ApplyRefers, SkipAppliedRefers, SkipInvalidRefers, CreateJobRefers, LinkRefers,
     ListRowsRefers, SavePlanRefers DEF Application
<1>4. ASSUME NEW c \in Console, Crash(c) PROVE Referred'
  BY <1>4, CrashRefers
<1>5. ASSUME NEW p \in Policies, SavePolicy(p) PROVE Referred'
  BY <1>5, UnchangedRefers DEF SavePolicy, Keeps
<1>6. ASSUME NEW k \in DOMAIN jobs, Succeed(k, {}) \/ Succeed(k, {"tls_expired_certificate"})
      PROVE  Referred'
  <2>1. CASE Succeed(k, {})
    BY <2>1, SucceedRefers
  <2>2. CASE Succeed(k, {"tls_expired_certificate"})
    <3> DEFINE flaws == {"tls_expired_certificate"}
    <3>1. \E f : flaws = {f}
      OBVIOUS
    <3>2. Succeed(k, flaws)
      BY <2>2
    <3> HIDE DEF flaws
    <3> QED BY <3>1, <3>2, SucceedRefers
  <2> QED BY <1>6, <2>1, <2>2
<1>7. ASSUME NEW k \in DOMAIN findings, CloseFinding(k) PROVE Referred'
  BY <1>7, CloseFindingRefers
<1> QED BY <1>1, <1>2, <1>3, <1>4, <1>5, <1>6, <1>7 DEF Next

-----------------------------------------------------------------------------
(* The theorems.                                                           *)

LEMMA InitHolds ==
  ASSUME Init
  PROVE  IInv
<1>1. /\ DOMAIN plans = {} /\ DOMAIN jobs = {}
      /\ \A c \in Console : cons[c] = Idle
      /\ DOMAIN cons = Console
  BY DEF Init
<1>2. Tables
  <2>1. IsList(<<>>)
    BY EmptySeq DEF IsList
  <2> QED BY <2>1, PlannerAssumption DEF Init, Tables
<1>3. \A c \in Console : ~Underway(c)
  BY <1>1 DEF Underway, Idle
<1>4. Reads
  <2>1. /\ DOMAIN Idle = StateFields /\ Idle.pc = "idle"
        /\ Idle.alone = TRUE /\ Idle.changed = FALSE
    BY DEF Idle, StateFields
  <2> QED BY <1>1, <1>3, <2>1 DEF Reads
<1>5. PlansMade /\ JobsMade /\ Alone /\ Settled
  BY <1>1, <1>3 DEF PlansMade, JobsMade, Alone, Settled
<1> QED BY <1>2, <1>4, <1>5 DEF IInv

\* Every step keeps the invariant: those of CreatePlan and what follows it, of
\* SavePolicy, Succeed and CloseFinding because nobody applies a plan in them,
\* those of an apply one by one.
LEMMA StepHolds ==
  ASSUME IInv, [Next]_vars
  PROVE  IInv'
<1>1. CASE UNCHANGED vars
  BY <1>1, NothingChanges, QuietSteps
<1>2. ASSUME NEW c \in Console, Planning(c) PROVE IInv'
  BY <1>2, CreatePlanQuiet, DeriveQuiet, RememberQuiet, EndWritebackQuiet, QuietSteps DEF Planning
<1>3. ASSUME NEW c \in Console, Application(c) PROVE IInv'
  BY <1>3, ApplyKeeps, SkipAppliedKeeps, SkipInvalidKeeps, CreateJobKeeps, LinkKeeps,
     ListRowsKeeps, SavePlanKeeps DEF Application
<1>4. ASSUME NEW c \in Console, Crash(c) PROVE IInv'
  BY <1>4, CrashKeeps
<1>5. ASSUME NEW p \in Policies, SavePolicy(p) PROVE IInv'
  BY <1>5, SavePolicyQuiet, QuietSteps
<1>6. ASSUME NEW k \in DOMAIN jobs, Succeed(k, {}) \/ Succeed(k, {"tls_expired_certificate"})
      PROVE  IInv'
  <2>1. CASE Succeed(k, {})
    BY <2>1, SucceedQuiet, QuietSteps
  <2>2. CASE Succeed(k, {"tls_expired_certificate"})
    <3> DEFINE flaws == {"tls_expired_certificate"}
    <3>1. \E f : flaws = {f}
      OBVIOUS
    <3>2. Succeed(k, flaws)
      BY <2>2
    <3> HIDE DEF flaws
    <3> QED BY <3>1, <3>2, SucceedQuiet, QuietSteps
  <2> QED BY <1>6, <2>1, <2>2
<1>7. ASSUME NEW k \in DOMAIN findings, CloseFinding(k) PROVE IInv'
  BY <1>7, CloseFindingQuiet, QuietSteps
<1> QED BY <1>1, <1>2, <1>3, <1>4, <1>5, <1>6, <1>7 DEF Next

\* The inductive invariant holds in every state, whatever the policies, the
\* answers of the model and the bounds.
THEOREM PlannerInvariance == Spec => []IInv
<1>1. Init => IInv
  BY InitHolds
<1>2. IInv /\ [Next]_vars => IInv'
  BY StepHolds
<1> QED BY <1>1, <1>2, PTL DEF Spec

\* Whatever the model answers, a plan proposes what the policy of that moment
\* allows, at most MaxProposed jobs and numbered from 1, and the fallback none
\* twice; and no job is created that the policy, as the apply read it, does not
\* allow (planner_runtime.py:484, planner_service.py:126).
THEOREM JobsHold == Spec => []JobsAllowed
<1>1. IInv => PlanSound
  BY DEF IInv, PlansMade, Sound, PlanSound
<1>2. IInv => JobsWereAllowed
  BY DEF IInv, JobsMade, JobsWereAllowed
<1> QED BY <1>1, <1>2, PlannerInvariance, PTL DEF JobsAllowed

\* Two jobs of one proposal are of two applies that did not see each other, and
\* a plan that nobody applies and that no apply left torn has the status that
\* its proposals add up to (planner_service.py:123 and 159).
THEOREM ApplyHolds == Spec => []ApplyKept
<1>1. IInv => TwiceOnlyByRace
  <2> SUFFICES ASSUME IInv, NEW j \in DOMAIN jobs, NEW k \in DOMAIN jobs, j < k,
                      jobs[j].plan = jobs[k].plan, jobs[j].row = jobs[k].row
               PROVE  jobs[j].apply # jobs[k].apply /\ jobs[k].named = 0
    BY DEF TwiceOnlyByRace
  <2>1. j # k
    <3>1. j \in Nat /\ k \in Nat
      <4>1. DOMAIN jobs = 1..Len(jobs) /\ Len(jobs) \in Nat
        BY ListDomain DEF IInv, Tables
      <4> QED BY <4>1
    <3> QED BY <3>1
  <2> QED BY <2>1 DEF IInv, JobsMade
<1>2. IInv => StatusSumsUp
  BY DEF IInv, Settled, Sums, StatusSumsUp
<1> QED BY <1>1, <1>2, PlannerInvariance, PTL DEF ApplyKept

\* In every state an applied proposal names a job that was made of it, and a
\* memory entry is of a host that some job worked on, as are the artifacts and
\* findings it is made of (planner_service.py:140, planner_runtime.py:344).
THEOREM PlannerTyped == Spec => []TypeOK
<1>1. Init => Referred
  BY InitRefers
<1>2. IInv /\ Referred /\ [Next]_vars => Referred'
  BY StepRefers
<1>3. IInv /\ Referred => TypeOK
  BY DEF IInv, Tables, Referred, Statuses, AreLinked, OfJob, TypeOK
<1> QED BY <1>1, <1>2, <1>3, PlannerInvariance, PTL DEF Spec
=============================================================================
