---------------------------- MODULE RequestsProofs ----------------------------
(***************************************************************************)
(* The builder of template specs, the options and the listings, for any    *)
(* calls, options, resources and page size.  Induction over sequences and  *)
(* finite sets goes through a least counterexample (Least).                *)
(***************************************************************************)
EXTENDS Requests, FiniteSetTheorems, WellFoundedInduction, TLAPS

-----------------------------------------------------------------------------
(* Numbers and finite sets of them.                                        *)

\* Every non-empty set of natural numbers has a least element.
LEMMA Least ==
  ASSUME NEW T \in SUBSET Nat, T # {}
  PROVE  \E n \in T : \A m \in T : n <= m
<1>1. PICK n \in T : \A m \in T : ~(<<m, n>> \in OpToRel(<, Nat))
  BY WFMin, NatLessThanWellFounded
<1>2. ASSUME NEW m \in T PROVE n <= m
  <2>1. n \in Nat /\ m \in Nat
    OBVIOUS
  <2>2. m < n => <<m, n>> \in OpToRel(<, Nat)
    BY <2>1 DEF OpToRel
  <2>3. ~(m < n)
    BY <1>1, <2>2
  <2> QED BY <2>1, <2>3
<1> QED BY <1>2

\* A finite set of natural numbers that is not empty has a greatest element.
LEMMA Greatest ==
  ASSUME NEW S \in SUBSET Nat, IsFiniteSet(S), S # {}
  PROVE  Max(S) \in S /\ \A m \in S : m <= Max(S)
<1> DEFINE HasMax(U) == \E x \in U : \A y \in U : x >= y
           Bad == {n \in Nat : \E U \in SUBSET S : U # {} /\ Cardinality(U) = n /\ ~HasMax(U)}
<1>1. Bad = {}
  <2> SUFFICES ASSUME Bad # {} PROVE FALSE
    OBVIOUS
  <2>1. PICK n \in Bad : \A m \in Bad : n <= m
    BY Least
  <2>2. PICK U \in SUBSET S : U # {} /\ Cardinality(U) = n /\ ~HasMax(U)
    OBVIOUS
  <2>3. PICK x \in U : TRUE
    BY <2>2
  <2> DEFINE V == U \ {x}
  <2>4. IsFiniteSet(U) /\ IsFiniteSet(V) /\ Cardinality(V) = n - 1 /\ n \in Nat
    BY <2>2, FS_Subset, FS_RemoveElement
  <2>5. n - 1 \in Nat
    BY <2>4, FS_CardinalityType
  <2>6. V # {} => HasMax(V)
    <3>1. n - 1 \notin Bad
      <4>1. ~(n <= n - 1)
        BY <2>4
      <4> HIDE DEF Bad
      <4> QED BY <2>1, <4>1
    <3>2. V \in SUBSET S
      OBVIOUS
    <3> HIDE DEF HasMax, V
    <3> QED BY <2>4, <2>5, <3>1, <3>2
  <2>7. \A y \in U : y \in Nat
    OBVIOUS
  <2>8. HasMax(U)
    BY <2>6, <2>7
  <2> QED BY <2>2, <2>8
<1>2. HasMax(S)
  <2>1. Cardinality(S) \in Nat
    BY FS_CardinalityType
  <2> QED BY <1>1, <2>1
<1>3. Max(S) \in S /\ \A y \in S : Max(S) >= y
  BY <1>2 DEF Max
<1>4. \A y \in S : y \in Nat
  OBVIOUS
<1> QED BY <1>3, <1>4

\* A number that bounds a set and is in it is its greatest element.
LEMMA MaxIs ==
  ASSUME NEW S \in SUBSET Nat, NEW n \in S, \A m \in S : m <= n
  PROVE  Max(S) = n
<1>1. \A x, y \in S : x \in Nat /\ y \in Nat
  OBVIOUS
<1>2. \E x \in S : \A y \in S : x >= y
  <2>1. \A y \in S : n >= y
    BY <1>1
  <2> QED BY <2>1
<1>3. Max(S) \in S /\ \A y \in S : Max(S) >= y
  BY <1>2 DEF Max
<1>4. PICK k \in S : k = Max(S)
  BY <1>3
<1>5. k \in Nat /\ n \in Nat /\ k <= n /\ k >= n
  BY <1>1, <1>3, <1>4
<1> QED BY <1>4, <1>5

-----------------------------------------------------------------------------
(* The listings.                                                           *)

\* What has been collected before the token: everything that matches and has
\* been there all the time, once, and nothing else, nor anything after it.
ListedTo(t) ==
  \A i \in Items :
    /\ i \in steady /\ i <= t /\ (filter => i \in tagged) => listed[i] = 1
    /\ listed[i] \in 0..1
    /\ listed[i] = 1 => i <= t /\ (filter => i \in tagged)

ListInv ==
  /\ items \in SUBSET Items /\ steady \in SUBSET items
  /\ listed \in [Items -> Nat] /\ token \in Nat /\ method \in Filtering \cup Dropping
  /\ listing = "idle" => listed = NothingListed /\ token = 0
  /\ listing = "running" => ListedTo(token)
  /\ ListExact

\* The matching items up to one of a page are of the page.
LEMMA PageIsPrefix ==
  ASSUME items \in SUBSET Items, token \in Nat, NEW i \in Page, NEW j \in Matching, j <= i
  PROVE  j \in Page
<1> DEFINE Below(k) == {m \in Matching : m < k}
<1>1. Matching \in SUBSET Nat /\ IsFiniteSet(Matching)
  BY ListingAssumption, FS_Subset DEF Matching
<1>2. i \in Nat /\ j \in Nat /\ i \in Matching
  BY <1>1 DEF Page
<1>3. Below(j) \in SUBSET Below(i)
  <2>1. ASSUME NEW m \in Matching, m < j PROVE m < i
    <3>1. m \in Nat
      BY <1>1
    <3> QED BY <1>2, <2>1, <3>1
  <2> QED BY <2>1
<1>4. IsFiniteSet(Below(i)) /\ IsFiniteSet(Below(j))
  BY <1>1, FS_Subset
<1>5. Cardinality(Below(j)) <= Cardinality(Below(i))
  BY <1>3, <1>4, FS_Subset
<1>6. Cardinality(Below(i)) \in Nat /\ Cardinality(Below(j)) \in Nat
  BY <1>4, FS_CardinalityType
<1>7. Cardinality(Below(i)) < PageSize
  BY DEF Page
<1>8. Cardinality(Below(j)) < PageSize
  <2> HIDE DEF Below
  <2> QED BY <1>5, <1>6, <1>7, ListingAssumption
<1> QED BY <1>8 DEF Page

\* A page that is not full is all there is, and one that is has a last item.
LEMMA PageEnds ==
  ASSUME items \in SUBSET Items, token \in Nat
  PROVE  /\ NextToken = 0 => Page = Matching
         /\ NextToken # 0 => NextToken \in Page /\ \A i \in Page : i <= NextToken
<1> DEFINE Below(k) == {m \in Matching : m < k}
<1>1. Matching \in SUBSET Nat /\ IsFiniteSet(Matching) /\ 0 \notin Matching
  BY ListingAssumption, FS_Subset DEF Matching
<1>2. Cardinality(Matching) \in Nat /\ PageSize \in Nat /\ PageSize > 0
  BY <1>1, FS_CardinalityType, ListingAssumption
<1>3. Page \in SUBSET Matching
  BY DEF Page
<1>4. CASE Cardinality(Matching) > PageSize
  <2>1. Matching # {}
    BY <1>2, <1>4, FS_EmptySet
  <2>2. PICK i \in Matching : \A j \in Matching : i <= j
    BY <1>1, <2>1, Least
  <2>3. Below(i) = {}
    <3>1. ASSUME NEW j \in Matching PROVE ~(j < i)
      <4>1. i \in Nat /\ j \in Nat /\ i <= j
        BY <1>1, <2>2
      <4> QED BY <4>1
    <3> QED BY <3>1
  <2>4. i \in Page
    BY <1>2, <2>3, FS_EmptySet DEF Page
  <2>5. Page \in SUBSET Nat /\ IsFiniteSet(Page) /\ Page # {}
    BY <1>1, <1>3, <2>4, FS_Subset
  <2>6. Max(Page) \in Page /\ \A m \in Page : m <= Max(Page)
    BY <2>5, Greatest
  <2>7. NextToken = Max(Page)
    BY <1>4 DEF NextToken
  <2> QED BY <1>1, <1>3, <2>6, <2>7
<1>5. CASE ~(Cardinality(Matching) > PageSize)
  <2>1. NextToken = 0
    BY <1>5 DEF NextToken
  <2>2. ASSUME NEW i \in Matching PROVE i \in Page
    <3>1. Below(i) \in SUBSET Matching /\ i \notin Below(i)
      BY <1>1
    <3>2. Below(i) # Matching
      BY <3>1
    <3>3. IsFiniteSet(Below(i)) /\ Cardinality(Below(i)) <= Cardinality(Matching)
          /\ Cardinality(Matching) # Cardinality(Below(i))
      BY <1>1, <3>1, <3>2, FS_Subset
    <3>4. Cardinality(Below(i)) \in Nat
      BY <3>3, FS_CardinalityType
    <3>5. Cardinality(Below(i)) < PageSize
      <4> HIDE DEF Below
      <4> QED BY <1>2, <1>5, <3>3, <3>4
    <3> QED BY <3>5 DEF Page
  <2> QED BY <1>3, <2>1, <2>2
<1> QED BY <1>4, <1>5

\* A page adds what matches between the old token and the new one.
LEMMA ListPageStep ==
  ASSUME ListInv, ListPage
  PROVE  ListInv'
<1>1. items \in SUBSET Items /\ token \in Nat /\ listed \in [Items -> Nat]
      /\ steady \in SUBSET items /\ ListedTo(token) /\ listing = "running"
      /\ method \in Filtering \cup Dropping
  BY DEF ListInv, ListPage
<1>2. UNCHANGED <<items, steady, tagged, method, wants>> /\ filter' = filter
  BY DEF ListPage, filter
<1>3. \A i \in Items : i \in Nat
  BY ListingAssumption
<1>4. PICK next \in {NextToken} \cup ({token} \ {0}) :
        /\ listed' = IF Stalled(next) THEN NothingListed
                     ELSE [i \in Items |-> IF i \in Page THEN listed[i] + 1 ELSE listed[i]]
        /\ token' = IF Stalled(next) THEN token ELSE next
        /\ listing' = IF Stalled(next) THEN "stalled" ELSE IF next = 0 THEN "ok" ELSE "running"
  BY DEF ListPage
<1>5. CASE Stalled(next)
  BY <1>1, <1>2, <1>4, <1>5 DEF ListInv, ListExact, NothingListed
<1>6. CASE ~Stalled(next)
  <2>1. next = NextToken
    BY <1>4, <1>6 DEF Stalled
  <2>2. listed' = [i \in Items |-> IF i \in Page THEN listed[i] + 1 ELSE listed[i]]
    BY <1>4, <1>6
  <2>3. listed' \in [Items -> Nat]
    BY <1>1, <2>2
  <2>4. token' = NextToken /\ listing' = IF NextToken = 0 THEN "ok" ELSE "running"
    BY <1>4, <1>6, <2>1
  <2>5. Page \in SUBSET Matching /\ Matching \in SUBSET Items
        /\ \A i \in Matching : i > token /\ (filter => i \in tagged)
    BY <1>1 DEF Page, Matching
  <2>6. NextToken \in Nat
    BY <1>1, <1>3, <2>5, PageEnds
  <2>7. ASSUME NEW i \in Items
        PROVE  /\ i \in Page => listed[i] = 0 /\ listed'[i] = 1
               /\ i \notin Page => listed'[i] = listed[i]
    <3>1. i \in Page => ~(i <= token)
      BY <1>1, <1>3, <2>5
    <3>2. listed[i] \in 0..1
      BY <1>1 DEF ListedTo
    <3>3. i \in Page => listed[i] = 0
      BY <1>1, <3>1, <3>2 DEF ListedTo
    <3> QED BY <2>2, <3>3
  <2>8. ASSUME NEW i \in Items, i \in steady, filter => i \in tagged,
               NextToken = 0 \/ i <= NextToken
        PROVE  listed'[i] = 1
    <3>1. CASE i <= token
      <4>1. listed[i] = 1
        BY <1>1, <2>8, <3>1 DEF ListedTo
      <4> QED BY <2>7, <4>1
    <3>2. CASE ~(i <= token)
      <4>1. i \in Matching
        BY <1>1, <1>3, <2>8, <3>2 DEF Matching
      <4>2. i \in Page
        BY <1>1, <2>8, <4>1, PageEnds, PageIsPrefix
      <4> QED BY <2>7, <4>2
    <3> QED BY <3>1, <3>2
  <2>9. ASSUME NEW i \in Items
        PROVE  /\ listed'[i] \in 0..1
               /\ listed'[i] = 1 => (filter => i \in tagged)
               /\ listed'[i] = 1 /\ NextToken # 0 => i <= NextToken
    <3>1. CASE i \in Page
      BY <1>1, <2>5, <2>7, <3>1, PageEnds
    <3>2. CASE i \notin Page
      <4>1. listed'[i] = listed[i] /\ listed[i] \in 0..1
        BY <1>1, <2>7, <3>2 DEF ListedTo
      <4>2. listed[i] = 1 => i <= token /\ (filter => i \in tagged)
        BY <1>1 DEF ListedTo
      <4>3. NextToken # 0 => NextToken > token
        BY <1>1, <2>5, PageEnds
      <4> QED BY <1>1, <1>3, <2>6, <4>1, <4>2, <4>3
    <3> QED BY <3>1, <3>2
  <2>10. listing' = "running" => ListedTo(token)'
    BY <1>2, <2>4, <2>8, <2>9 DEF ListedTo
  <2>11. ListExact'
    <3> SUFFICES ASSUME listing' = "ok", NEW i \in Items
                 PROVE  /\ i \in steady' /\ (wants' => i \in tagged') => listed'[i] = 1
                        /\ listed'[i] <= 1
                        /\ wants' /\ listed'[i] > 0 => i \in tagged' \/ method' \in Dropping
      BY DEF ListExact
    <3>1. NextToken = 0
      BY <2>4
    <3>2. listed'[i] \in 0..1 /\ (listed'[i] = 1 => (filter => i \in tagged))
      BY <2>9
    <3>3. (filter => wants) /\ (wants => filter \/ method \in Dropping)
      BY <1>1 DEF filter
    <3> QED BY <1>2, <2>8, <3>1, <3>2, <3>3
  <2> QED BY <1>1, <1>2, <2>3, <2>4, <2>6, <2>10, <2>11 DEF ListInv
<1> QED BY <1>5, <1>6

LEMMA ListInitial == ListInit => ListInv
<1> SUFFICES ASSUME ListInit PROVE ListInv
  OBVIOUS
<1>1. items = {} /\ steady = {} /\ listed = NothingListed /\ token = 0 /\ listing = "idle"
      /\ method \in Filtering
  BY DEF ListInit, Filtering
<1> QED BY <1>1 DEF ListInv, ListExact, NothingListed

LEMMA ListBeginStep ==
  ASSUME ListInv, NEW m \in Filtering \cup Dropping, NEW filtered, ListBegin(m, filtered)
  PROVE  ListInv'
<1>1. listed' = NothingListed /\ token' = 0 /\ listing' = "running"
  BY DEF ListInv, ListBegin
<1>2. items' \in SUBSET Items /\ steady' = items' /\ method' \in Filtering \cup Dropping
  BY DEF ListBegin
<1>3. \A i \in Items : ~(i <= 0)
  BY ListingAssumption
<1>4. ListedTo(token)'
  BY <1>1, <1>3 DEF ListedTo, NothingListed
<1> QED BY <1>1, <1>2, <1>4 DEF ListInv, ListExact, NothingListed

LEMMA ListFailsStep ==
  ASSUME ListInv, ListFails
  PROVE  ListInv'
BY DEF ListInv, ListFails, ListExact, NothingListed

LEMMA ChurnStep ==
  ASSUME ListInv, Churn
  PROVE  ListInv'
<1>1. PICK i \in Items : items' = (items \ {i}) \cup ({i} \ items) /\ steady' = steady \ {i}
  BY DEF Churn
<1>2. UNCHANGED <<tagged, method, wants, token, listed, listing>> /\ filter' = filter /\ listing = "running"
  BY DEF Churn, filter
<1>3. items' \in SUBSET Items /\ steady' \in SUBSET items' /\ steady' \in SUBSET steady
  BY <1>1 DEF ListInv
<1>4. ListedTo(token)'
  BY <1>2, <1>3 DEF ListInv, ListedTo
<1> QED BY <1>2, <1>3, <1>4 DEF ListInv, ListExact

LEMMA ListSame ==
  ASSUME ListInv, UNCHANGED listVars
  PROVE  ListInv'
BY DEF ListInv, listVars, ListedTo, ListExact, NothingListed, filter

LEMMA ListStep ==
  ASSUME ListInv, [Next]_vars
  PROVE  ListInv'
<1>1. CASE Build
  BY <1>1, ListSame DEF Build
<1>2. CASE Give
  BY <1>2, ListSame DEF Give
<1>3. CASE Submit
  BY <1>3, ListSame DEF Submit
<1>4. CASE List
  BY <1>4, ListBeginStep DEF List
<1>5. CASE Listed
  BY <1>5, ListPageStep, ListFailsStep, ChurnStep DEF Listed, ListNext
<1>6. CASE UNCHANGED vars
  BY <1>6, ListSame DEF vars
<1> QED BY <1>1, <1>2, <1>3, <1>4, <1>5, <1>6 DEF Next

\* A list that is returned has every matching resource that was there all the
\* time, none twice and nothing the filter excludes unless the method drops it,
\* for any resources, page size and changes between the pages.
THEOREM ListCorrect == Spec => []ListExact
<1>1. Init => ListInv
  BY ListInitial DEF Init
<1>2. ListInv => ListExact
  BY DEF ListInv
<1> QED BY <1>1, <1>2, ListStep, PTL DEF Spec

-----------------------------------------------------------------------------
(* Sequences that grow, and what their calls give.                         *)

IsSeq(s) == s \in Seq({s[n] : n \in DOMAIN s})

LEMMA SeqFacts ==
  ASSUME NEW s, IsSeq(s)
  PROVE  Len(s) \in Nat /\ DOMAIN s = 1..Len(s) /\ s = [n \in 1..Len(s) |-> s[n]]
BY DEF IsSeq

LEMMA AppendFacts ==
  ASSUME NEW s, IsSeq(s), NEW x
  PROVE  /\ IsSeq(Append(s, x))
         /\ Len(Append(s, x)) = Len(s) + 1 /\ DOMAIN Append(s, x) = 1..(Len(s) + 1)
         /\ \A n \in 1..Len(s) : Append(s, x)[n] = s[n]
         /\ Append(s, x)[Len(s) + 1] = x
<1> DEFINE S == {s[n] : n \in DOMAIN s} \cup {x}
           t == Append(s, x)
<1>1. s \in Seq(S) /\ x \in S
  <2>1. \A n \in 1..Len(s) : s[n] \in S
    BY SeqFacts
  <2> HIDE DEF S
  <2>2. s \in Seq(S)
    BY <2>1, SeqFacts
  <2> QED BY <2>2 DEF S
<1>2. /\ t \in Seq(S) /\ Len(t) = Len(s) + 1 /\ DOMAIN t = 1..(Len(s) + 1)
      /\ \A n \in 1..Len(s) : t[n] = s[n]
      /\ t[Len(s) + 1] = x
  <2> HIDE DEF S
  <2> QED BY <1>1
<1>3. IsSeq(t)
  <2> HIDE DEF t
  <2>1. \A n \in 1..Len(t) : t[n] \in {t[m] : m \in DOMAIN t}
    BY <1>2, SeqFacts
  <2>2. Len(t) \in Nat /\ t = [n \in 1..Len(t) |-> t[n]]
    <3> HIDE DEF S
    <3> QED BY <1>2
  <2>3. ASSUME NEW U, \A n \in 1..Len(t) : t[n] \in U PROVE t \in Seq(U)
    BY <2>2, <2>3
  <2> QED BY <2>1, <2>3 DEF IsSeq
<1> QED BY <1>2, <1>3

LEMMA GiversFacts ==
  ASSUME NEW h, IsSeq(h), NEW f
  PROVE  /\ Givers(h, f) \in SUBSET (1..Len(h)) /\ Givers(h, f) \in SUBSET Nat
         /\ IsFiniteSet(Givers(h, f))
         /\ Givers(h, f) # {} =>
              Max(Givers(h, f)) \in Givers(h, f) /\ \A m \in Givers(h, f) : m <= Max(Givers(h, f))
<1>1. Givers(h, f) \in SUBSET (1..Len(h))
  BY SeqFacts DEF Givers
<1>2. Givers(h, f) \in SUBSET Nat
  BY <1>1, SeqFacts
<1>3. IsFiniteSet(Givers(h, f))
  <2>1. IsFiniteSet(1..Len(h))
    BY SeqFacts, FS_Interval
  <2> QED BY <1>1, <2>1, FS_Subset
<1> QED BY <1>1, <1>2, <1>3, Greatest

LEMMA GiversAppend ==
  ASSUME NEW h, IsSeq(h), NEW c, NEW f
  PROVE  /\ Gives(c, f) => Givers(Append(h, c), f) = Givers(h, f) \cup {Len(h) + 1}
         /\ ~Gives(c, f) => Givers(Append(h, c), f) = Givers(h, f)
<1>1. \A n \in 1..Len(h) : n \in DOMAIN h /\ Append(h, c)[n] = h[n]
  BY SeqFacts, AppendFacts
<1>2. DOMAIN Append(h, c) = 1..Len(h) \cup {Len(h) + 1} /\ Append(h, c)[Len(h) + 1] = c
  BY SeqFacts, AppendFacts
<1>3. DOMAIN h = 1..Len(h)
  BY SeqFacts
<1> QED BY <1>1, <1>2, <1>3 DEF Givers

\* The last value given is the new call's, if it gives one.
LEMMA LastAppend ==
  ASSUME NEW h, IsSeq(h), NEW c, NEW f, NEW otherwise
  PROVE  LastGiven(Append(h, c), f, otherwise) =
           IF Gives(c, f) THEN c.gives[f] ELSE LastGiven(h, f, otherwise)
<1> DEFINE n == Len(h) + 1
           G == Givers(Append(h, c), f)
<1>1. Len(h) \in Nat /\ Append(h, c)[n] = c /\ \A m \in 1..Len(h) : Append(h, c)[m] = h[m]
  BY SeqFacts, AppendFacts
<1>2. CASE Gives(c, f)
  <2>1. G = Givers(h, f) \cup {n}
    BY <1>2, GiversAppend
  <2>2. \A m \in G : m \in Nat /\ m <= n
    BY <1>1, <2>1, GiversFacts
  <2>3. Max(G) = n /\ G # {}
    BY <2>1, <2>2, MaxIs
  <2> QED BY <1>1, <1>2, <2>3 DEF LastGiven
<1>3. CASE ~Gives(c, f)
  <2>1. G = Givers(h, f)
    BY <1>3, GiversAppend
  <2>2. G # {} => Append(h, c)[Max(G)] = h[Max(G)]
    BY <1>1, <2>1, GiversFacts
  <2> QED BY <1>3, <2>1, <2>2 DEF LastGiven
<1> QED BY <1>2, <1>3

\* The merged map has the entries of the new call over the others.
LEMMA MergedAppend ==
  ASSUME NEW h, IsSeq(h), NEW c, NEW f
  PROVE  /\ Gives(c, f) => Merged(Append(h, c), f) = Put(c.gives[f], Merged(h, f))
         /\ ~Gives(c, f) => Merged(Append(h, c), f) = Merged(h, f)
<1> DEFINE n == Len(h) + 1
           g == Append(h, c)
           Of(s, k) == {m \in Givers(s, f) : k \in DOMAIN s[m].gives[f]}
           Keys(s) == UNION {DOMAIN s[m].gives[f] : m \in Givers(s, f)}
<1>1. Len(h) \in Nat /\ g[n] = c /\ \A m \in 1..Len(h) : g[m] = h[m]
  BY SeqFacts, AppendFacts
<1>2. \A m \in Givers(h, f) : m \in 1..Len(h) /\ g[m] = h[m]
  BY <1>1, GiversFacts
<1>3. ASSUME NEW s PROVE Merged(s, f) = [k \in Keys(s) |-> s[Max(Of(s, k))].gives[f][k]]
  BY DEF Merged
<1>4. ASSUME NEW k \in Keys(h)
      PROVE  Max(Of(h, k)) \in Of(h, k) /\ g[Max(Of(h, k))] = h[Max(Of(h, k))]
  <2>1. Of(h, k) # {}
    OBVIOUS
  <2>2. Of(h, k) \in SUBSET Givers(h, f)
    OBVIOUS
  <2>3. Of(h, k) \in SUBSET Nat /\ IsFiniteSet(Of(h, k))
    <3> HIDE DEF Of
    <3> QED BY <2>2, GiversFacts, FS_Subset
  <2>4. Max(Of(h, k)) \in Of(h, k)
    <3> HIDE DEF Of
    <3> QED BY <2>1, <2>3, Greatest
  <2>5. Max(Of(h, k)) \in Givers(h, f)
    <3> HIDE DEF Of
    <3> QED BY <2>2, <2>4
  <2> QED BY <1>2, <2>4, <2>5
<1>5. CASE Gives(c, f)
  <2>1. Givers(g, f) = Givers(h, f) \cup {n}
    BY <1>5, GiversAppend
  <2>2. Keys(g) = DOMAIN c.gives[f] \cup Keys(h)
    BY <1>1, <1>2, <2>1
  <2>3. ASSUME NEW k \in DOMAIN c.gives[f] PROVE Max(Of(g, k)) = n
    <3>1. n \in Of(g, k)
      BY <1>1, <2>1
    <3>2. \A m \in Of(g, k) : m \in Nat /\ m <= n
      BY <1>1, <1>2, <2>1
    <3> HIDE DEF Of
    <3> QED BY <3>1, <3>2, MaxIs
  <2>4. ASSUME NEW k \in Keys(h), k \notin DOMAIN c.gives[f] PROVE Of(g, k) = Of(h, k)
    BY <1>1, <1>2, <2>1, <2>4
  <2>5. Merged(h, f) = [k \in Keys(h) |-> h[Max(Of(h, k))].gives[f][k]]
    BY <1>3
  <2>6. Merged(g, f) = [k \in Keys(g) |-> g[Max(Of(g, k))].gives[f][k]]
    BY <1>3
  <2>7. ASSUME NEW k \in DOMAIN c.gives[f] \cup Keys(h)
        PROVE  g[Max(Of(g, k))].gives[f][k]
                 = IF k \in DOMAIN c.gives[f] THEN c.gives[f][k] ELSE Merged(h, f)[k]
    <3>1. CASE k \in DOMAIN c.gives[f]
      BY <1>1, <2>3, <3>1
    <3>2. CASE k \notin DOMAIN c.gives[f]
      <4>1. k \in Keys(h)
        BY <3>2
      <4>2. Merged(h, f)[k] = h[Max(Of(h, k))].gives[f][k]
        <5> HIDE DEF Keys, Of
        <5> QED BY <2>5, <4>1
      <4>3. g[Max(Of(g, k))] = h[Max(Of(h, k))]
        <5> HIDE DEF Keys, Of, g
        <5> QED BY <1>4, <2>4, <3>2, <4>1
      <4> QED BY <3>2, <4>2, <4>3
    <3> QED BY <3>1, <3>2
  <2>8. DOMAIN Merged(h, f) = Keys(h)
    <3> HIDE DEF Keys
    <3> QED BY <2>5
  <2>9. Merged(g, f) = Put(c.gives[f], Merged(h, f))
    <3> HIDE DEF Keys, Of, g
    <3> QED BY <2>2, <2>6, <2>7, <2>8 DEF Put
  <2> QED BY <1>5, <2>9
<1>6. CASE ~Gives(c, f)
  <2>1. Givers(g, f) = Givers(h, f)
    BY <1>6, GiversAppend
  <2>2. Keys(g) = Keys(h)
    BY <1>2, <2>1
  <2>3. ASSUME NEW k \in Keys(h) PROVE Of(g, k) = Of(h, k)
    BY <1>2, <2>1
  <2>4. ASSUME NEW k \in Keys(h)
        PROVE  g[Max(Of(g, k))].gives[f][k] = h[Max(Of(h, k))].gives[f][k]
    <3> HIDE DEF Keys, Of, g
    <3> QED BY <1>4, <2>3
  <2>5. Merged(h, f) = [k \in Keys(h) |-> h[Max(Of(h, k))].gives[f][k]]
    BY <1>3
  <2>6. Merged(g, f) = [k \in Keys(g) |-> g[Max(Of(g, k))].gives[f][k]]
    BY <1>3
  <2>7. Merged(g, f) = Merged(h, f)
    <3> HIDE DEF Keys, Of, g
    <3> QED BY <2>2, <2>4, <2>5, <2>6
  <2> QED BY <1>6, <2>7
<1> QED BY <1>5, <1>6

\* The elements of a finite set of numbers have the ranks 1, 2, ...
LEMMA Ranks ==
  ASSUME NEW S \in SUBSET (Nat \ {0}), IsFiniteSet(S)
  PROVE  /\ \A n \in 1..Cardinality(S) : \E m \in S : Cardinality({k \in S : k <= m}) = n
         /\ \A m1, m2 \in S :
              Cardinality({k \in S : k <= m1}) = Cardinality({k \in S : k <= m2}) => m1 = m2
<1> DEFINE UpTo(m) == {k \in S : k <= m}
<1>1. \A m \in Nat : IsFiniteSet(UpTo(m)) /\ Cardinality(UpTo(m)) \in Nat
  <2> SUFFICES ASSUME NEW m \in Nat PROVE IsFiniteSet(UpTo(m)) /\ Cardinality(UpTo(m)) \in Nat
    OBVIOUS
  <2>1. UpTo(m) \in SUBSET S
    OBVIOUS
  <2> HIDE DEF UpTo
  <2> QED BY <2>1, FS_Subset, FS_CardinalityType
<1>2. ASSUME NEW n \in 1..Cardinality(S) PROVE \E m \in S : Cardinality(UpTo(m)) = n
  <2> DEFINE T == {m \in Nat : Cardinality(UpTo(m)) >= n}
  <2>1. Cardinality(S) \in Nat /\ n \in Nat /\ n > 0 /\ n <= Cardinality(S)
    BY FS_CardinalityType
  <2>2. S # {}
    BY <2>1, FS_EmptySet
  <2>3. Max(S) \in Nat /\ UpTo(Max(S)) = S
    BY <2>2, Greatest
  <2>4. Max(S) \in T
    BY <2>1, <2>3
  <2>5. PICK m \in T : \A l \in T : m <= l
    <3>1. T \in SUBSET Nat /\ T # {}
      BY <2>4
    <3> HIDE DEF T
    <3> QED BY <3>1, Least
  <2>6. m \in Nat /\ Cardinality(UpTo(m)) >= n
    OBVIOUS
  <2>7. m # 0
    <3>1. UpTo(0) = {}
      <4>1. \A k \in S : ~(k <= 0)
        OBVIOUS
      <4> QED BY <4>1
    <3> QED BY <2>1, <2>6, <3>1, FS_EmptySet
  <2>8. m - 1 \in Nat /\ ~(m <= m - 1)
    BY <2>6, <2>7
  <2>9. ~(Cardinality(UpTo(m - 1)) >= n)
    BY <2>5, <2>8
  <2>10. \A k \in S : (k <= m <=> k <= m - 1 \/ k = m) /\ ~(m <= m - 1)
    BY <2>6, <2>8
  <2>11. CASE m \notin S
    <3>1. UpTo(m) = UpTo(m - 1)
      BY <2>11, <2>10
    <3> QED BY <2>6, <2>9, <3>1
  <2>12. CASE m \in S
    <3>1. UpTo(m) = UpTo(m - 1) \cup {m} /\ m \notin UpTo(m - 1)
      BY <2>12, <2>10
    <3>2. Cardinality(UpTo(m)) = Cardinality(UpTo(m - 1)) + 1
      <4> HIDE DEF UpTo
      <4> QED BY <1>1, <2>8, <3>1, FS_AddElement
    <3>3. Cardinality(UpTo(m)) = n
      <4> HIDE DEF UpTo, T
      <4> QED BY <1>1, <2>1, <2>6, <2>8, <2>9, <3>2
    <3> QED BY <2>12, <3>3
  <2> QED BY <2>11, <2>12
<1>3. ASSUME NEW m1 \in S, NEW m2 \in S, m1 < m2
      PROVE  Cardinality(UpTo(m1)) # Cardinality(UpTo(m2))
  <2>1. m1 \in Nat /\ m2 \in Nat /\ \A k \in S : k \in Nat
    OBVIOUS
  <2>2. UpTo(m1) \in SUBSET UpTo(m2)
    <3>1. \A k \in S : k <= m1 => k <= m2
      BY <1>3, <2>1
    <3> QED BY <3>1
  <2>3. m2 \in UpTo(m2) /\ m2 \notin UpTo(m1)
    BY <1>3, <2>1
  <2> HIDE DEF UpTo
  <2> QED BY <1>1, <2>1, <2>2, <2>3, FS_Subset
<1>4. ASSUME NEW m1 \in S, NEW m2 \in S, Cardinality(UpTo(m1)) = Cardinality(UpTo(m2))
      PROVE  m1 = m2
  <2>1. ~(m1 < m2) /\ ~(m2 < m1)
    BY <1>3, <1>4
  <2>2. m1 \in Nat /\ m2 \in Nat
    OBVIOUS
  <2> QED BY <2>1, <2>2
<1> QED BY <1>2, <1>4

StepOf(c) ==
  LET step == c.gives.step IN
  [kind |-> step.kind, ok |-> step.ok, secs |-> IF step.timeout > 0 THEN Seconds(step.timeout) ELSE 0]
AskedSteps(h) == [n \in 1..Cardinality(Givers(h, "step")) |-> StepOf(h[StepCall(h, n)])]

\* There is exactly one n-th call that adds a step.
LEMMA StepCallFacts ==
  ASSUME NEW h, IsSeq(h), NEW n \in 1..Cardinality(Givers(h, "step"))
  PROVE  /\ StepCall(h, n) \in Givers(h, "step")
         /\ Cardinality({k \in Givers(h, "step") : k <= StepCall(h, n)}) = n
         /\ \A m \in Givers(h, "step") :
              Cardinality({k \in Givers(h, "step") : k <= m}) = n => m = StepCall(h, n)
<1> DEFINE G == Givers(h, "step")
<1>1. G \in SUBSET (Nat \ {0}) /\ IsFiniteSet(G)
  BY GiversFacts
<1>2. \E m \in G : Cardinality({k \in G : k <= m}) = n
  BY <1>1, Ranks
<1>3. StepCall(h, n) \in G /\ Cardinality({k \in G : k <= StepCall(h, n)}) = n
  BY <1>2 DEF StepCall
<1> HIDE DEF G
<1>4. ASSUME NEW m \in G, Cardinality({k \in G : k <= m}) = n PROVE m = StepCall(h, n)
  <2>1. \A m1, m2 \in G : Cardinality({k \in G : k <= m1}) = Cardinality({k \in G : k <= m2}) => m1 = m2
    BY <1>1, Ranks
  <2> QED BY <1>3, <1>4, <2>1
<1> QED BY <1>3, <1>4 DEF G

LEMMA FcnIsSeq ==
  ASSUME NEW n \in Nat, NEW s, DOMAIN s = 1..n, s = [i \in 1..n |-> s[i]]
  PROVE  IsSeq(s) /\ Len(s) = n
<1>1. ASSUME NEW U, \A i \in 1..n : s[i] \in U PROVE s \in Seq(U) /\ Len(s) = n
  BY <1>1
<1>2. \A i \in 1..n : s[i] \in {s[m] : m \in DOMAIN s}
  OBVIOUS
<1> QED BY <1>1, <1>2 DEF IsSeq

\* Two sequences with the same elements are the same.
LEMMA SameSeq ==
  ASSUME NEW s, IsSeq(s), NEW n \in Nat, Len(s) = n, NEW t, t = [i \in 1..n |-> t[i]],
         \A i \in 1..n : s[i] = t[i]
  PROVE  s = t
<1>1. s = [i \in 1..n |-> s[i]]
  BY SeqFacts
<1> QED BY <1>1

\* The steps are those of before, and the new call's if it adds one.
LEMMA StepsAppend ==
  ASSUME NEW h, IsSeq(h), NEW c
  PROVE  /\ Gives(c, "step") => AskedSteps(Append(h, c)) = Append(AskedSteps(h), StepOf(c))
         /\ ~Gives(c, "step") => AskedSteps(Append(h, c)) = AskedSteps(h)
<1> DEFINE n == Len(h) + 1
           g == Append(h, c)
           G == Givers(h, "step")
           H == Givers(g, "step")
           N == Cardinality(G)
<1>1. IsSeq(g) /\ Len(h) \in Nat /\ g[n] = c /\ \A m \in 1..Len(h) : g[m] = h[m]
  BY SeqFacts, AppendFacts
<1>2. G \in SUBSET (1..Len(h)) /\ IsFiniteSet(G) /\ N \in Nat
  BY GiversFacts, FS_CardinalityType
<1>3. ASSUME NEW r \in 1..N PROVE g[StepCall(g, r)] = h[StepCall(h, r)]
  <2> DEFINE m == StepCall(h, r)
  <2>1. m \in G /\ Cardinality({k \in G : k <= m}) = r
    BY StepCallFacts
  <2>2. H = G \/ H = G \cup {n}
    BY GiversAppend
  <2>3. IsFiniteSet(H) /\ m \in H
    BY <1>2, <2>1, <2>2, FS_AddElement
  <2>4. {k \in H : k <= m} = {k \in G : k <= m}
    <3>1. ~(n <= m)
      BY <1>1, <1>2, <2>1
    <3> HIDE DEF n, m, H, G
    <3> QED BY <2>2, <3>1
  <2>5. Cardinality(H) \in Nat /\ N <= Cardinality(H)
    <3>1. G \in SUBSET H
      BY <2>2
    <3> QED BY <2>3, <3>1, FS_Subset, FS_CardinalityType
  <2>6. r \in 1..Cardinality(H)
    BY <1>2, <2>5
  <2>7. m = StepCall(g, r)
    <3>1. Cardinality({k \in H : k <= m}) = r
      BY <2>1, <2>4
    <3> HIDE DEF m
    <3> QED BY <1>1, <2>3, <2>6, <3>1, StepCallFacts
  <2> QED BY <1>1, <1>2, <2>1, <2>7
<1>4. CASE Gives(c, "step")
  <2>1. H = G \cup {n} /\ n \notin G
    BY <1>1, <1>2, <1>4, GiversAppend
  <2>2. Cardinality(H) = N + 1
    BY <1>2, <2>1, FS_AddElement
  <2>3. StepCall(g, N + 1) = n
    <3>1. \A k \in H : k <= n
      BY <1>1, <1>2, <2>1
    <3>2. {k \in H : k <= n} = H /\ n \in H
      <4> HIDE DEF H, n
      <4> QED BY <2>1, <3>1
    <3>3. N + 1 \in 1..Cardinality(H)
      BY <1>2, <2>2
    <3> QED BY <1>1, <2>2, <3>2, <3>3, StepCallFacts
  <2> DEFINE A == AskedSteps(h)
             B == AskedSteps(g)
             C == Append(A, StepOf(c))
  <2>4. IsSeq(A) /\ Len(A) = N /\ \A r \in 1..N : A[r] = StepOf(h[StepCall(h, r)])
    <3>1. DOMAIN A = 1..N /\ A = [r \in 1..N |-> A[r]]
      BY DEF AskedSteps
    <3>2. \A r \in 1..N : A[r] = StepOf(h[StepCall(h, r)])
      BY DEF AskedSteps
    <3> HIDE DEF A, N
    <3> QED BY <1>2, <3>1, <3>2, FcnIsSeq
  <2>5. IsSeq(C) /\ Len(C) = N + 1 /\ (\A r \in 1..N : C[r] = A[r]) /\ C[N + 1] = StepOf(c)
    <3> HIDE DEF A, N
    <3> QED BY <2>4, AppendFacts
  <2>6. B = [r \in 1..(N + 1) |-> B[r]] /\ \A r \in 1..(N + 1) : B[r] = StepOf(g[StepCall(g, r)])
    BY <2>2 DEF AskedSteps
  <2>7. \A r \in 1..(N + 1) : C[r] = B[r]
    <3>1. \A r \in 1..(N + 1) : r \in 1..N \/ r = N + 1
      BY <1>2
    <3>2. B[N + 1] = StepOf(c)
      <4>1. N + 1 \in 1..(N + 1)
        BY <1>2
      <4> QED BY <1>1, <2>3, <2>6, <4>1
    <3>3. \A r \in 1..N : r \in 1..(N + 1)
      BY <1>2
    <3> HIDE DEF A, B, C, N, g
    <3> QED BY <1>3, <2>4, <2>5, <2>6, <3>1, <3>2, <3>3
  <2>8. C = B
    <3> HIDE DEF A, B, C, N, g
    <3> QED BY <1>2, <2>5, <2>6, <2>7, SameSeq
  <2> QED BY <1>4, <2>8
<1>5. CASE ~Gives(c, "step")
  <2>1. H = G
    BY <1>5, GiversAppend
  <2>2. AskedSteps(g) = AskedSteps(h)
    BY <1>3, <2>1 DEF AskedSteps
  <2> QED BY <1>5, <2>2
<1> QED BY <1>4, <1>5

-----------------------------------------------------------------------------
(* What one more call asks for.                                            *)

AskedEntries(h) == {h[n].gives.entry : n \in {m \in Givers(h, "entry") : m = Max(Givers(h, "entry"))}}
AskedReady(h) ==
  IF Givers(h, "ready") = {} THEN {} ELSE {readyWhenToProto(LastGiven(h, "ready", {}))}

\* The entrypoint asked for is the new call's, if it gives one.
LEMMA EntriesAppend ==
  ASSUME NEW h, IsSeq(h), NEW c
  PROVE  AskedEntries(Append(h, c)) = IF Gives(c, "entry") THEN {c.gives.entry} ELSE AskedEntries(h)
<1> DEFINE n == Len(h) + 1
           g == Append(h, c)
           G == Givers(g, "entry")
<1>1. Len(h) \in Nat /\ g[n] = c /\ \A m \in 1..Len(h) : g[m] = h[m]
  BY SeqFacts, AppendFacts
<1>2. Givers(h, "entry") \in SUBSET (1..Len(h))
  BY GiversFacts
<1>3. CASE Gives(c, "entry")
  <2>1. G = Givers(h, "entry") \cup {n}
    BY <1>3, GiversAppend
  <2>2. \A m \in G : m \in Nat /\ m <= n
    BY <1>1, <1>2, <2>1
  <2>3. Max(G) = n
    BY <2>1, <2>2, MaxIs
  <2>4. {m \in G : m = Max(G)} = {n}
    BY <2>1, <2>3
  <2> QED BY <1>1, <1>3, <2>4 DEF AskedEntries
<1>4. CASE ~Gives(c, "entry")
  <2>1. G = Givers(h, "entry")
    BY <1>4, GiversAppend
  <2>2. \A m \in Givers(h, "entry") : g[m] = h[m]
    BY <1>1, <1>2
  <2> QED BY <1>4, <2>1, <2>2 DEF AskedEntries
<1> QED BY <1>3, <1>4

\* So is the readiness contract.
LEMMA ReadyAppend ==
  ASSUME NEW h, IsSeq(h), NEW c
  PROVE  AskedReady(Append(h, c))
           = IF Gives(c, "ready") THEN {readyWhenToProto(c.gives.ready)} ELSE AskedReady(h)
<1>1. CASE Gives(c, "ready")
  <2>1. Givers(Append(h, c), "ready") # {}
    BY <1>1, GiversAppend
  <2>2. LastGiven(Append(h, c), "ready", {}) = c.gives["ready"]
    BY <1>1, LastAppend
  <2> QED BY <1>1, <2>1, <2>2 DEF AskedReady
<1>2. CASE ~Gives(c, "ready")
  <2>1. Givers(Append(h, c), "ready") = Givers(h, "ready")
    BY <1>2, GiversAppend
  <2>2. LastGiven(Append(h, c), "ready", {}) = LastGiven(h, "ready", {})
    BY <1>2, LastAppend
  <2> QED BY <1>2, <2>1, <2>2 DEF AskedReady
<1> QED BY <1>1, <1>2

LEMMA RemainderSmall ==
  ASSUME NEW n \in Nat, NEW w \in Nat, n < w
  PROVE  n % w = n
OBVIOUS

\* A setting nobody gave is the one of a new runtime.
LEMMA NothingAsked ==
  ASSUME NEW h, ~AsksRuntime(h)
  PROVE  AskedRuntime(h) = NewRuntime
<1>1. Merged(h, "env") = NoMap /\ \A f \in RuntimeFields : Givers(h, f) = {}
  BY DEF AsksRuntime
<1>2. \A f \in RuntimeFields : \A otherwise : LastGiven(h, f, otherwise) = otherwise
  BY <1>1 DEF LastGiven
<1>3. ToProto("runAt", "") = Unspecified
  BY DEF ToProto, Enums
<1>4. ToProto("restart", "") = Unspecified
  BY DEF ToProto, Enums
<1>5. ToProto("mode", "") = Unspecified
  BY DEF ToProto, Enums
<1>6. Seconds(0) = 0
  <2>1. Word \in Nat /\ 0 < Word
    BY TemplateSpecAssumption
  <2>2. 0 % Word = 0
    BY <2>1, RemainderSmall
  <2> QED BY <2>2 DEF Seconds
<1>7. {"entry", "secretEnv", "files", "runAt", "restart", "mode", "ready", "grace"} \subseteq RuntimeFields
  BY DEF RuntimeFields
<1>8. {h[n].gives.entry : n \in {m \in Givers(h, "entry") : m = Max(Givers(h, "entry"))}} = {}
  BY <1>1, <1>7
<1> QED BY <1>1, <1>2, <1>3, <1>4, <1>5, <1>6, <1>7, <1>8 DEF AskedRuntime, NewRuntime

LEMMA EnsureAsked ==
  ASSUME NEW h
  PROVE  EnsureRuntime(Asked(h)) = AskedRuntime(h)
<1>1. Asked(h).runtime = IF AsksRuntime(h) THEN {AskedRuntime(h)} ELSE {}
  BY DEF Asked
<1>2. CASE AsksRuntime(h)
  BY <1>1, <1>2 DEF EnsureRuntime
<1>3. CASE ~AsksRuntime(h)
  BY <1>1, <1>3, NothingAsked DEF EnsureRuntime
<1> QED BY <1>2, <1>3

RuntimeWith(r, c) ==
  [entry |-> IF Gives(c, "entry") THEN {c.gives.entry} ELSE r.entry,
   env |-> IF Gives(c, "env") THEN Put(c.gives.env, r.env) ELSE r.env,
   secretEnv |-> Optional(c, "secretEnv", r.secretEnv),
   files |-> Optional(c, "files", r.files),
   runAt |-> IF Gives(c, "runAt") THEN ToProto("runAt", c.gives.runAt) ELSE r.runAt,
   restart |-> IF Gives(c, "restart") THEN ToProto("restart", c.gives.restart) ELSE r.restart,
   mode |-> IF Gives(c, "mode") THEN ToProto("mode", c.gives.mode) ELSE r.mode,
   ready |-> IF Gives(c, "ready") THEN {readyWhenToProto(c.gives.ready)} ELSE r.ready,
   grace |-> IF Gives(c, "grace") THEN Seconds(c.gives.grace) ELSE r.grace]

\* The runtime asked for, after one more call.
LEMMA RuntimeAppend ==
  ASSUME NEW h, IsSeq(h), NEW c
  PROVE  AskedRuntime(Append(h, c)) = RuntimeWith(AskedRuntime(h), c)
<1>1. ASSUME NEW s
      PROVE  AskedRuntime(s) =
               [entry |-> AskedEntries(s), env |-> Merged(s, "env"),
                secretEnv |-> LastGiven(s, "secretEnv", NoMap), files |-> LastGiven(s, "files", ""),
                runAt |-> ToProto("runAt", LastGiven(s, "runAt", "")),
                restart |-> ToProto("restart", LastGiven(s, "restart", "")),
                mode |-> ToProto("mode", LastGiven(s, "mode", "")),
                ready |-> AskedReady(s), grace |-> Seconds(LastGiven(s, "grace", 0))]
  BY DEF AskedRuntime, AskedEntries, AskedReady
<1>2. Merged(Append(h, c), "env") = IF Gives(c, "env") THEN Put(c.gives["env"], Merged(h, "env")) ELSE Merged(h, "env")
  BY MergedAppend
<1>3. \A f, otherwise : LastGiven(Append(h, c), f, otherwise)
                          = IF Gives(c, f) THEN c.gives[f] ELSE LastGiven(h, f, otherwise)
  BY LastAppend
<1> QED BY <1>1, <1>2, <1>3, EntriesAppend, ReadyAppend DEF RuntimeWith, Optional

\* c changes the runtime
Touches(c) ==
  \/ Gives(c, "env") /\ c.gives.env # NoMap
  \/ \E f \in RuntimeFields : Gives(c, f)

\* A runtime is asked for by a call before or by the new one.
LEMMA AsksAppend ==
  ASSUME NEW h, IsSeq(h), NEW c \in Calls
  PROVE  AsksRuntime(Append(h, c)) <=> AsksRuntime(h) \/ Touches(c)
<1>1. \A f \in RuntimeFields : Givers(Append(h, c), f) # {} <=> Givers(h, f) # {} \/ Gives(c, f)
  BY GiversAppend
<1>2. Merged(Append(h, c), "env") # NoMap
        <=> Merged(h, "env") # NoMap \/ (Gives(c, "env") /\ c.gives.env # NoMap)
  <2>1. CASE ~Gives(c, "env")
    BY <2>1, MergedAppend
  <2>2. CASE Gives(c, "env")
    <3> DEFINE new == c.gives["env"]
               old == Merged(h, "env")
    <3>1. Merged(Append(h, c), "env") = Put(new, old)
      BY <2>2, MergedAppend
    <3>2. new = [k \in DOMAIN new |-> new[k]]
      BY <2>2, CallsAssumption DEF Gives, IsMap
    <3>3. old = [k \in DOMAIN old |-> old[k]]
      BY DEF Merged
    <3>4. Put(new, old) = NoMap <=> new = NoMap /\ old = NoMap
      <4> HIDE DEF new, old
      <4>1. Put(new, old) = NoMap <=> DOMAIN new \cup DOMAIN old = {}
        BY DEF Put, NoMap
      <4>2. new = NoMap <=> DOMAIN new = {}
        BY <3>2 DEF NoMap
      <4>3. old = NoMap <=> DOMAIN old = {}
        BY <3>3 DEF NoMap
      <4> QED BY <4>1, <4>2, <4>3
    <3> QED BY <2>2, <3>1, <3>4
  <2> QED BY <2>1, <2>2
<1> QED BY <1>1, <1>2 DEF AsksRuntime, Touches

\* The whole message, after one more call.
LEMMA AskedAppend ==
  ASSUME NEW h, IsSeq(h), NEW c \in Calls
  PROVE  Asked(Append(h, c)) =
           [base |-> Optional(c, "base", Asked(h).base),
            context |-> Optional(c, "context", Asked(h).context),
            workdir |-> Optional(c, "workdir", Asked(h).workdir),
            build |-> IF Gives(c, "build") THEN Put(c.gives.build, Asked(h).build) ELSE Asked(h).build,
            steps |-> IF Gives(c, "step") THEN Append(Asked(h).steps, StepOf(c)) ELSE Asked(h).steps,
            runtime |-> IF AsksRuntime(h) \/ Touches(c) THEN {RuntimeWith(AskedRuntime(h), c)} ELSE {},
            resources |-> Optional(c, "resources", Asked(h).resources)]
<1>1. ASSUME NEW s
      PROVE  Asked(s) =
               [base |-> LastGiven(s, "base", defaultTemplateSpecProto.base),
                context |-> LastGiven(s, "context", ""), workdir |-> LastGiven(s, "workdir", ""),
                build |-> Merged(s, "build"), steps |-> AskedSteps(s),
                runtime |-> IF AsksRuntime(s) THEN {AskedRuntime(s)} ELSE {},
                resources |-> LastGiven(s, "resources", "")]
  BY DEF Asked, AskedSteps, StepOf
<1>2. \A f, otherwise : LastGiven(Append(h, c), f, otherwise)
                          = IF Gives(c, f) THEN c.gives[f] ELSE LastGiven(h, f, otherwise)
  BY LastAppend
<1>3. Merged(Append(h, c), "build")
        = IF Gives(c, "build") THEN Put(c.gives["build"], Merged(h, "build")) ELSE Merged(h, "build")
  BY MergedAppend
<1>4. AskedSteps(Append(h, c))
        = IF Gives(c, "step") THEN Append(AskedSteps(h), StepOf(c)) ELSE AskedSteps(h)
  BY StepsAppend
<1>5. (IF AsksRuntime(Append(h, c)) THEN {AskedRuntime(Append(h, c))} ELSE {})
        = IF AsksRuntime(h) \/ Touches(c) THEN {RuntimeWith(AskedRuntime(h), c)} ELSE {}
  BY AsksAppend, RuntimeAppend
<1> QED BY <1>1, <1>2, <1>3, <1>4, <1>5 DEF Optional

\* the fields of a spec's message and of its runtime that a call leaves alone
LEMMA GivesOnly ==
  ASSUME NEW c \in Calls, NEW f
  PROVE  Gives(c, f) => f \in Takes[c.op] \/ (c.op = "Start" /\ f \in EntrypointOptions)
BY CallsAssumption DEF Gives

\* A call that does not touch the runtime leaves it as it is.
LEMMA Untouched ==
  ASSUME NEW h, NEW c, ~Touches(c), ~Gives(c, "env")
  PROVE  (IF AsksRuntime(h) \/ Touches(c) THEN {RuntimeWith(AskedRuntime(h), c)} ELSE {})
           = Asked(h).runtime
<1>1. RuntimeWith(AskedRuntime(h), c) = AskedRuntime(h)
  <2>1. \A f \in RuntimeFields : ~Gives(c, f)
    BY DEF Touches
  <2> QED BY <2>1 DEF RuntimeWith, RuntimeFields, Optional, AskedRuntime
<1> QED BY <1>1 DEF Asked

LEMMA MutateCases ==
  ASSUME NEW p, NEW c
  PROVE  /\ c.op = "From" => Mutate(p, c) = Base(p, c)
         /\ c.op = "WithGitContext" => Mutate(p, c) = WithGitContext(p, c)
         /\ c.op = "Workdir" => Mutate(p, c) = Workdir(p, c)
         /\ c.op = "Resources" => Mutate(p, c) = Resources(p, c)
         /\ c.op = "BuildEnv" => Mutate(p, c) = BuildEnv(p, c)
         /\ c.op = "Step" => Mutate(p, c) = appendStep(p, c)
         /\ c.op = "RuntimeEnv" => Mutate(p, c) = RuntimeEnv(p, c)
         /\ c.op = "Start" => Mutate(p, c) = Entrypoint(p, c)
         /\ c.op = "RuntimeRunAt" => Mutate(p, c) = Policy(p, c, "runAt")
         /\ c.op = "RestartPolicy" => Mutate(p, c) = Policy(p, c, "restart")
         /\ c.op = "SnapshotMode" => Mutate(p, c) = Policy(p, c, "mode")
         /\ c.op = "ReadyWhen" => Mutate(p, c) = ReadyWhen(p, c)
         /\ c.op = "StopGrace" => Mutate(p, c) = StopGrace(p, c)
BY DEF Mutate

LEMMA AskedShape ==
  ASSUME NEW h
  PROVE  /\ Asked(h) = [base |-> Asked(h).base, context |-> Asked(h).context,
                         workdir |-> Asked(h).workdir, build |-> Asked(h).build,
                         steps |-> Asked(h).steps, runtime |-> Asked(h).runtime,
                         resources |-> Asked(h).resources]
         /\ AskedRuntime(h) = [entry |-> AskedRuntime(h).entry, env |-> AskedRuntime(h).env,
                                secretEnv |-> AskedRuntime(h).secretEnv, files |-> AskedRuntime(h).files,
                                runAt |-> AskedRuntime(h).runAt, restart |-> AskedRuntime(h).restart,
                                mode |-> AskedRuntime(h).mode, ready |-> AskedRuntime(h).ready,
                                grace |-> AskedRuntime(h).grace]
BY DEF Asked, AskedRuntime

\* Start, StartArgs and ProcessCompose set what they give and keep the rest.
LEMMA EntrypointWith ==
  ASSUME NEW r, NEW c, Gives(c, "entry"), ~Gives(c, "env"), ~Gives(c, "mode"), ~Gives(c, "grace"),
         r = [entry |-> r.entry, env |-> r.env, secretEnv |-> r.secretEnv, files |-> r.files,
              runAt |-> r.runAt, restart |-> r.restart, mode |-> r.mode, ready |-> r.ready,
              grace |-> r.grace]
  PROVE  [r EXCEPT !.entry = {c.gives.entry},
                   !.runAt = IF Gives(c, "runAt") THEN ToProto("runAt", c.gives.runAt) ELSE @,
                   !.restart = IF Gives(c, "restart") THEN ToProto("restart", c.gives.restart) ELSE @,
                   !.secretEnv = Optional(c, "secretEnv", @),
                   !.files = Optional(c, "files", @),
                   !.ready = IF Gives(c, "ready") THEN {readyWhenToProto(c.gives.ready)} ELSE @]
           = RuntimeWith(r, c)
<1>1. PICK q : q = RuntimeWith(r, c)
  OBVIOUS
<1>2. q = [entry |-> {c.gives.entry}, env |-> r.env, secretEnv |-> q.secretEnv,
           files |-> q.files, runAt |-> q.runAt, restart |-> q.restart, mode |-> r.mode,
           ready |-> q.ready, grace |-> r.grace]
  BY <1>1 DEF RuntimeWith
<1>3. [r EXCEPT !.entry = {c.gives.entry}, !.runAt = q.runAt, !.restart = q.restart,
                !.secretEnv = q.secretEnv, !.files = q.files, !.ready = q.ready]
        = [entry |-> {c.gives.entry}, env |-> r.env, secretEnv |-> q.secretEnv,
           files |-> q.files, runAt |-> q.runAt, restart |-> q.restart, mode |-> r.mode,
           ready |-> q.ready, grace |-> r.grace]
  <2>1. PICK x1 : x1 = [r EXCEPT !.entry = {c.gives.entry}]
    OBVIOUS
  <2>2. PICK x2 : x2 = [x1 EXCEPT !.runAt = q.runAt]
    OBVIOUS
  <2>3. PICK x3 : x3 = [x2 EXCEPT !.restart = q.restart]
    OBVIOUS
  <2>4. PICK x4 : x4 = [x3 EXCEPT !.secretEnv = q.secretEnv]
    OBVIOUS
  <2>5. PICK x5 : x5 = [x4 EXCEPT !.files = q.files]
    OBVIOUS
  <2>6. PICK x6 : x6 = [x5 EXCEPT !.ready = q.ready]
    OBVIOUS
  <2>7. x1 = [entry |-> {c.gives.entry}, env |-> r.env, secretEnv |-> r.secretEnv, files |-> r.files,
             runAt |-> r.runAt, restart |-> r.restart, mode |-> r.mode, ready |-> r.ready, grace |-> r.grace]
    BY <2>1
  <2>8. x2 = [entry |-> {c.gives.entry}, env |-> r.env, secretEnv |-> r.secretEnv, files |-> r.files,
             runAt |-> q.runAt, restart |-> r.restart, mode |-> r.mode, ready |-> r.ready, grace |-> r.grace]
    BY <2>2, <2>7
  <2>9. x3 = [entry |-> {c.gives.entry}, env |-> r.env, secretEnv |-> r.secretEnv, files |-> r.files,
             runAt |-> q.runAt, restart |-> q.restart, mode |-> r.mode, ready |-> r.ready, grace |-> r.grace]
    BY <2>3, <2>8
  <2>10. x4 = [entry |-> {c.gives.entry}, env |-> r.env, secretEnv |-> q.secretEnv, files |-> r.files,
             runAt |-> q.runAt, restart |-> q.restart, mode |-> r.mode, ready |-> r.ready, grace |-> r.grace]
    BY <2>4, <2>9
  <2>11. x5 = [entry |-> {c.gives.entry}, env |-> r.env, secretEnv |-> q.secretEnv, files |-> q.files,
             runAt |-> q.runAt, restart |-> q.restart, mode |-> r.mode, ready |-> r.ready, grace |-> r.grace]
    BY <2>5, <2>10
  <2>12. x6 = [entry |-> {c.gives.entry}, env |-> r.env, secretEnv |-> q.secretEnv, files |-> q.files,
             runAt |-> q.runAt, restart |-> q.restart, mode |-> r.mode, ready |-> q.ready, grace |-> r.grace]
    BY <2>6, <2>11
  <2> QED BY <2>1, <2>2, <2>3, <2>4, <2>5, <2>6, <2>12
<1>4. /\ q.runAt = IF Gives(c, "runAt") THEN ToProto("runAt", c.gives.runAt) ELSE r.runAt
      /\ q.restart = IF Gives(c, "restart") THEN ToProto("restart", c.gives.restart) ELSE r.restart
      /\ q.secretEnv = Optional(c, "secretEnv", r.secretEnv)
      /\ q.files = Optional(c, "files", r.files)
      /\ q.ready = IF Gives(c, "ready") THEN {readyWhenToProto(c.gives.ready)} ELSE r.ready
  BY <1>1 DEF RuntimeWith
<1> QED BY <1>1, <1>2, <1>3, <1>4

\* A call changes what the calls before it asked for into what they all ask for.
LEMMA MutateAsked ==
  ASSUME NEW h, IsSeq(h), NEW c \in Calls
  PROVE  Mutate(Asked(h), c) = Asked(Append(h, c))
<1> DEFINE p == Asked(h)
           r == AskedRuntime(h)
<1>1. c.op \in DOMAIN Takes /\ Takes[c.op] \subseteq DOMAIN c.gives
  BY CallsAssumption
<1>2. EnsureRuntime(p) = r
  BY EnsureAsked
<1>p. p = [base |-> p.base, context |-> p.context, workdir |-> p.workdir, build |-> p.build,
           steps |-> p.steps, runtime |-> p.runtime, resources |-> p.resources]
  BY AskedShape
<1>3. CASE c.op = "From"
  <2>1. Gives(c, "base") /\ \A f : f # "base" => ~Gives(c, f)
    BY <1>1, <1>3, GivesOnly DEF Takes, Gives
  <2>2. ~Touches(c) /\ ~Gives(c, "env")
    BY <2>1 DEF Touches, RuntimeFields
  <2>3. Mutate(p, c) = Base(p, c)
    BY <1>3, MutateCases
  <2>4. (IF AsksRuntime(h) \/ Touches(c) THEN {RuntimeWith(r, c)} ELSE {}) = p.runtime
    BY <2>2, Untouched
  <2>5. Asked(Append(h, c)) =
          [base |-> c.gives.base, context |-> p.context, workdir |-> p.workdir, build |-> p.build,
           steps |-> p.steps, runtime |-> p.runtime, resources |-> p.resources]
    BY <2>1, <2>4, AskedAppend DEF Optional
  <2>6. Base(p, c) =
          [base |-> c.gives.base, context |-> p.context, workdir |-> p.workdir, build |-> p.build,
           steps |-> p.steps, runtime |-> p.runtime, resources |-> p.resources]
    <3> HIDE DEF p
    <3> QED BY <1>p DEF Base
  <2> QED BY <2>3, <2>5, <2>6
<1>4. CASE c.op = "WithGitContext"
  <2>1. Gives(c, "context") /\ \A f : f # "context" => ~Gives(c, f)
    BY <1>1, <1>4, GivesOnly DEF Takes, Gives
  <2>2. ~Touches(c) /\ ~Gives(c, "env")
    BY <2>1 DEF Touches, RuntimeFields
  <2>3. Mutate(p, c) = WithGitContext(p, c)
    BY <1>4, MutateCases
  <2>4. (IF AsksRuntime(h) \/ Touches(c) THEN {RuntimeWith(r, c)} ELSE {}) = p.runtime
    BY <2>2, Untouched
  <2>5. Asked(Append(h, c)) =
          [base |-> p.base, context |-> c.gives.context, workdir |-> p.workdir, build |-> p.build,
           steps |-> p.steps, runtime |-> p.runtime, resources |-> p.resources]
    BY <2>1, <2>4, AskedAppend DEF Optional
  <2>6. WithGitContext(p, c) =
          [base |-> p.base, context |-> c.gives.context, workdir |-> p.workdir, build |-> p.build,
           steps |-> p.steps, runtime |-> p.runtime, resources |-> p.resources]
    <3> HIDE DEF p
    <3> QED BY <1>p DEF WithGitContext
  <2> QED BY <2>3, <2>5, <2>6
<1>5. CASE c.op = "Workdir"
  <2>1. Gives(c, "workdir") /\ \A f : f # "workdir" => ~Gives(c, f)
    BY <1>1, <1>5, GivesOnly DEF Takes, Gives
  <2>2. ~Touches(c) /\ ~Gives(c, "env")
    BY <2>1 DEF Touches, RuntimeFields
  <2>3. Mutate(p, c) = Workdir(p, c)
    BY <1>5, MutateCases
  <2>4. (IF AsksRuntime(h) \/ Touches(c) THEN {RuntimeWith(r, c)} ELSE {}) = p.runtime
    BY <2>2, Untouched
  <2>5. Asked(Append(h, c)) =
          [base |-> p.base, context |-> p.context, workdir |-> c.gives.workdir, build |-> p.build,
           steps |-> p.steps, runtime |-> p.runtime, resources |-> p.resources]
    BY <2>1, <2>4, AskedAppend DEF Optional
  <2>6. Workdir(p, c) =
          [base |-> p.base, context |-> p.context, workdir |-> c.gives.workdir, build |-> p.build,
           steps |-> p.steps, runtime |-> p.runtime, resources |-> p.resources]
    <3> HIDE DEF p
    <3> QED BY <1>p DEF Workdir
  <2> QED BY <2>3, <2>5, <2>6
<1>6. CASE c.op = "Resources"
  <2>1. Gives(c, "resources") /\ \A f : f # "resources" => ~Gives(c, f)
    BY <1>1, <1>6, GivesOnly DEF Takes, Gives
  <2>2. ~Touches(c) /\ ~Gives(c, "env")
    BY <2>1 DEF Touches, RuntimeFields
  <2>3. Mutate(p, c) = Resources(p, c)
    BY <1>6, MutateCases
  <2>4. (IF AsksRuntime(h) \/ Touches(c) THEN {RuntimeWith(r, c)} ELSE {}) = p.runtime
    BY <2>2, Untouched
  <2>5. Asked(Append(h, c)) =
          [base |-> p.base, context |-> p.context, workdir |-> p.workdir, build |-> p.build,
           steps |-> p.steps, runtime |-> p.runtime, resources |-> c.gives.resources]
    BY <2>1, <2>4, AskedAppend DEF Optional
  <2>6. Resources(p, c) =
          [base |-> p.base, context |-> p.context, workdir |-> p.workdir, build |-> p.build,
           steps |-> p.steps, runtime |-> p.runtime, resources |-> c.gives.resources]
    <3> HIDE DEF p
    <3> QED BY <1>p DEF Resources
  <2> QED BY <2>3, <2>5, <2>6
<1>7. CASE c.op = "BuildEnv"
  <2>1. Gives(c, "build") /\ \A f : f # "build" => ~Gives(c, f)
    BY <1>1, <1>7, GivesOnly DEF Takes, Gives
  <2>2. ~Touches(c) /\ ~Gives(c, "env")
    BY <2>1 DEF Touches, RuntimeFields
  <2>3. Mutate(p, c) = BuildEnv(p, c)
    BY <1>7, MutateCases
  <2>4. (IF AsksRuntime(h) \/ Touches(c) THEN {RuntimeWith(r, c)} ELSE {}) = p.runtime
    BY <2>2, Untouched
  <2>5. Asked(Append(h, c)) =
          [base |-> p.base, context |-> p.context, workdir |-> p.workdir, build |-> Put(c.gives.build, p.build),
           steps |-> p.steps, runtime |-> p.runtime, resources |-> p.resources]
    BY <2>1, <2>4, AskedAppend DEF Optional
  <2>6. BuildEnv(p, c) =
          [base |-> p.base, context |-> p.context, workdir |-> p.workdir, build |-> Put(c.gives.build, p.build),
           steps |-> p.steps, runtime |-> p.runtime, resources |-> p.resources]
    <3> HIDE DEF p
    <3> QED BY <1>p DEF BuildEnv
  <2> QED BY <2>3, <2>5, <2>6
<1>8. CASE c.op = "Step"
  <2>1. Gives(c, "step") /\ \A f : f # "step" => ~Gives(c, f)
    BY <1>1, <1>8, GivesOnly DEF Takes, Gives
  <2>2. ~Touches(c) /\ ~Gives(c, "env")
    BY <2>1 DEF Touches, RuntimeFields
  <2>3. Mutate(p, c) = appendStep(p, c)
    BY <1>8, MutateCases
  <2>4. (IF AsksRuntime(h) \/ Touches(c) THEN {RuntimeWith(r, c)} ELSE {}) = p.runtime
    BY <2>2, Untouched
  <2>5. Asked(Append(h, c)) =
          [base |-> p.base, context |-> p.context, workdir |-> p.workdir, build |-> p.build,
           steps |-> Append(p.steps, StepOf(c)), runtime |-> p.runtime, resources |-> p.resources]
    BY <2>1, <2>4, AskedAppend DEF Optional
  <2>6. appendStep(p, c) =
          [base |-> p.base, context |-> p.context, workdir |-> p.workdir, build |-> p.build,
           steps |-> Append(p.steps, StepOf(c)), runtime |-> p.runtime, resources |-> p.resources]
    <3>1. appendStep(p, c) = [p EXCEPT !.steps = Append(@, StepOf(c))]
      BY DEF appendStep, StepOf
    <3> HIDE DEF p
    <3> QED BY <1>p, <3>1
  <2> QED BY <2>3, <2>5, <2>6
<1>9. CASE c.op = "RuntimeRunAt"
  <2>1. Gives(c, "runAt") /\ \A f : f # "runAt" => ~Gives(c, f)
    BY <1>1, <1>9, GivesOnly DEF Takes, Gives
  <2>2. Touches(c)
    BY <2>1 DEF Touches, RuntimeFields
  <2>3. Mutate(p, c) = Policy(p, c, "runAt")
    BY <1>9, MutateCases
  <2>4. Mutate(p, c) = [p EXCEPT !.runtime = {RuntimeWith(r, c)}]
    BY <1>2, <2>1, <2>3, AskedShape DEF Policy, RuntimeWith, Optional
  <2> QED BY <2>1, <2>2, <2>4, AskedAppend, AskedShape DEF Optional
<1>10. CASE c.op = "RestartPolicy"
  <2>1. Gives(c, "restart") /\ \A f : f # "restart" => ~Gives(c, f)
    BY <1>1, <1>10, GivesOnly DEF Takes, Gives
  <2>2. Touches(c)
    BY <2>1 DEF Touches, RuntimeFields
  <2>3. Mutate(p, c) = Policy(p, c, "restart")
    BY <1>10, MutateCases
  <2>4. Mutate(p, c) = [p EXCEPT !.runtime = {RuntimeWith(r, c)}]
    BY <1>2, <2>1, <2>3, AskedShape DEF Policy, RuntimeWith, Optional
  <2> QED BY <2>1, <2>2, <2>4, AskedAppend, AskedShape DEF Optional
<1>11. CASE c.op = "SnapshotMode"
  <2>1. Gives(c, "mode") /\ \A f : f # "mode" => ~Gives(c, f)
    BY <1>1, <1>11, GivesOnly DEF Takes, Gives
  <2>2. Touches(c)
    BY <2>1 DEF Touches, RuntimeFields
  <2>3. Mutate(p, c) = Policy(p, c, "mode")
    BY <1>11, MutateCases
  <2>4. Mutate(p, c) = [p EXCEPT !.runtime = {RuntimeWith(r, c)}]
    BY <1>2, <2>1, <2>3, AskedShape DEF Policy, RuntimeWith, Optional
  <2> QED BY <2>1, <2>2, <2>4, AskedAppend, AskedShape DEF Optional
<1>12. CASE c.op = "ReadyWhen"
  <2>1. Gives(c, "ready") /\ \A f : f # "ready" => ~Gives(c, f)
    BY <1>1, <1>12, GivesOnly DEF Takes, Gives
  <2>2. Touches(c)
    BY <2>1 DEF Touches, RuntimeFields
  <2>3. Mutate(p, c) = ReadyWhen(p, c)
    BY <1>12, MutateCases
  <2>4. Mutate(p, c) = [p EXCEPT !.runtime = {RuntimeWith(r, c)}]
    BY <1>2, <2>1, <2>3, AskedShape DEF ReadyWhen, RuntimeWith, Optional
  <2> QED BY <2>1, <2>2, <2>4, AskedAppend, AskedShape DEF Optional
<1>13. CASE c.op = "StopGrace"
  <2>1. Gives(c, "grace") /\ \A f : f # "grace" => ~Gives(c, f)
    BY <1>1, <1>13, GivesOnly DEF Takes, Gives
  <2>2. Touches(c)
    BY <2>1 DEF Touches, RuntimeFields
  <2>3. Mutate(p, c) = StopGrace(p, c)
    BY <1>13, MutateCases
  <2>4. Mutate(p, c) = [p EXCEPT !.runtime = {RuntimeWith(r, c)}]
    BY <1>2, <2>1, <2>3, AskedShape DEF StopGrace, RuntimeWith, Optional
  <2> QED BY <2>1, <2>2, <2>4, AskedAppend, AskedShape DEF Optional
<1>14. CASE c.op = "RuntimeEnv"
  <2>1. Gives(c, "env") /\ \A f : f # "env" => ~Gives(c, f)
    BY <1>1, <1>14, GivesOnly DEF Takes, Gives
  <2>2. Touches(c) <=> c.gives.env # NoMap
    BY <2>1 DEF Touches, RuntimeFields
  <2>3. Mutate(p, c) = RuntimeEnv(p, c)
    BY <1>14, MutateCases
  <2>4. CASE c.gives.env # NoMap
    <3>1. Mutate(p, c) = [p EXCEPT !.runtime = {RuntimeWith(r, c)}]
      BY <1>2, <2>1, <2>3, <2>4, AskedShape DEF RuntimeEnv, RuntimeWith, Optional
    <3> QED BY <2>1, <2>2, <2>4, <3>1, AskedAppend, AskedShape DEF Optional
  <2>5. CASE c.gives.env = NoMap
    <3>1. Mutate(p, c) = p
      BY <2>3, <2>5 DEF RuntimeEnv
    <3>2. Put(c.gives.env, r.env) = r.env
      <4>1. r.env = [k \in DOMAIN r.env |-> r.env[k]]
        BY DEF AskedRuntime, Merged
      <4>2. DOMAIN c.gives.env = {}
        BY <2>5 DEF NoMap
      <4> HIDE DEF r
      <4> QED BY <4>1, <4>2 DEF Put
    <3>3. RuntimeWith(r, c) = r
      BY <2>1, <3>2, AskedShape DEF RuntimeWith, Optional
    <3>4. p.runtime = IF AsksRuntime(h) THEN {r} ELSE {}
      BY DEF Asked
    <3> QED BY <2>1, <2>2, <2>5, <3>1, <3>3, <3>4, AskedAppend, AskedShape DEF Optional
  <2> QED BY <2>4, <2>5
<1>15. CASE c.op = "Start"
  <2>1. Gives(c, "entry") /\ \A f : Gives(c, f) => f \in {"entry"} \cup EntrypointOptions
    BY <1>1, <1>15, GivesOnly DEF Takes, Gives
  <2>2. Touches(c)
    BY <2>1 DEF Touches, RuntimeFields
  <2>3. \A f \in {"base", "context", "workdir", "build", "step", "resources", "env", "mode", "grace"} : ~Gives(c, f)
    BY <2>1 DEF EntrypointOptions
  <2>4. Mutate(p, c) = Entrypoint(p, c)
    BY <1>15, MutateCases
  <2>5. Mutate(p, c) = [p EXCEPT !.runtime = {RuntimeWith(r, c)}]
    <3>1. [r EXCEPT !.entry = {c.gives.entry},
                    !.runAt = IF Gives(c, "runAt") THEN ToProto("runAt", c.gives.runAt) ELSE @,
                    !.restart = IF Gives(c, "restart") THEN ToProto("restart", c.gives.restart) ELSE @,
                    !.secretEnv = Optional(c, "secretEnv", @),
                    !.files = Optional(c, "files", @),
                    !.ready = IF Gives(c, "ready") THEN {readyWhenToProto(c.gives.ready)} ELSE @]
            = RuntimeWith(r, c)
      BY <2>1, <2>3, AskedShape, EntrypointWith
    <3> HIDE DEF p, r
    <3> QED BY <1>2, <2>4, <3>1 DEF Entrypoint
  <2> QED BY <2>2, <2>3, <2>5, AskedAppend, AskedShape DEF Optional
<1> QED BY <1>1, <1>3, <1>4, <1>5, <1>6, <1>7, <1>8, <1>9, <1>10, <1>11, <1>12, <1>13, <1>14, <1>15 DEF Takes

-----------------------------------------------------------------------------
(* The round trip through JSON.                                            *)

\* An enumeration's name becomes one of its values or UNSPECIFIED.
LEMMA ToProtoRange ==
  ASSUME NEW field, NEW name, ToProto(field, name) # Unspecified
  PROVE  \E short \in DOMAIN Enums[field] : Enums[field][short] = ToProto(field, name)
BY DEF ToProto

\* A path of the document has the table of its enumeration, that of a variable none.
LEMMA EnumPath ==
  ASSUME NEW f
  PROVE  /\ Len(<<"runtime", f>>) = 2 /\ <<"runtime", f>>[2] = f
         /\ Table(<<"runtime", f>>) = Enums[f]
BY DEF Table

LEMMA EnvPath ==
  ASSUME NEW k
  PROVE  /\ Len(<<"runtime", "env", k>>) = 3 /\ <<"runtime", "env", k>>[3] = k
         /\ Table(<<"runtime", "env", k>>) = NoMap
BY DEF Table

\* A runtime that calls ask for comes back from JSON as it was.
LEMMA JSONSame ==
  ASSUME NEW h
  PROVE  FromJSON(AskedRuntime(h), ToJSON(AskedRuntime(h))) = AskedRuntime(h)
<1>1. PICK r : r = AskedRuntime(h)
  OBVIOUS
<1> DEFINE doc == ToJSON(r)
           paths == {<<"runtime", f>> : f \in {g \in EnumFields : r[g] # Unspecified}}
                      \cup {<<"runtime", "env", k>> : k \in DOMAIN r.env}
<1>2. EnumFields = {"runAt", "restart", "mode"}
  BY DEF EnumFields, Enums
<1>3. \A f \in EnumFields : r[f] # Unspecified => \E short \in DOMAIN Enums[f] : Enums[f][short] = r[f]
  <2>1. /\ r.runAt = ToProto("runAt", LastGiven(h, "runAt", ""))
        /\ r.restart = ToProto("restart", LastGiven(h, "restart", ""))
        /\ r.mode = ToProto("mode", LastGiven(h, "mode", ""))
    BY <1>1 DEF AskedRuntime
  <2>2. \A f \in EnumFields : \E name : r[f] = ToProto(f, name)
    <3>1. \E name : r["runAt"] = ToProto("runAt", name)
      BY <2>1
    <3>2. \E name : r["restart"] = ToProto("restart", name)
      BY <2>1
    <3>3. \E name : r["mode"] = ToProto("mode", name)
      BY <2>1
    <3> QED BY <1>2, <3>1, <3>2, <3>3
  <2> QED BY <2>2, ToProtoRange
<1>4. r.env = [k \in DOMAIN r.env |-> r.env[k]]
  BY <1>1 DEF AskedRuntime, Merged
<1>5. DOMAIN Leaves(r) = paths /\ DOMAIN doc = paths
  BY DEF Leaves, ToJSON
<1>6. ASSUME NEW f \in EnumFields
      PROVE  /\ <<"runtime", f>> \in paths <=> r[f] # Unspecified
             /\ r[f] # Unspecified => FromAuthored(<<"runtime", f>>, doc[<<"runtime", f>>]) = r[f]
  <2>1. \A k : <<"runtime", f>> # <<"runtime", "env", k>>
    BY EnumPath, EnvPath
  <2>2. \A g : <<"runtime", f>> = <<"runtime", g>> => f = g
    OBVIOUS
  <2>3. <<"runtime", f>> \in paths <=> r[f] # Unspecified
    BY <2>1, <2>2
  <2>4. ASSUME r[f] # Unspecified
        PROVE  FromAuthored(<<"runtime", f>>, doc[<<"runtime", f>>]) = r[f]
    <3>1. Leaves(r)[<<"runtime", f>>] = r[f]
      <4>1. <<"runtime", f>> \in paths
        BY <2>3, <2>4
      <4> QED BY <4>1, EnumPath DEF Leaves
    <3>2. doc[<<"runtime", f>>] = ToAuthored(<<"runtime", f>>, r[f])
      BY <1>5, <2>3, <2>4, <3>1 DEF ToJSON
    <3>3. PICK short \in DOMAIN Enums[f] :
            Enums[f][short] = r[f] /\ ToAuthored(<<"runtime", f>>, r[f]) = short
      BY <1>3, <2>4, EnumPath DEF ToAuthored
    <3> QED BY <3>2, <3>3, EnumPath DEF FromAuthored
  <2> QED BY <2>3, <2>4
<1>7. ASSUME NEW k \in DOMAIN r.env
      PROVE  /\ <<"runtime", "env", k>> \in paths
             /\ FromAuthored(<<"runtime", "env", k>>, doc[<<"runtime", "env", k>>]) = r.env[k]
  <2>1. <<"runtime", "env", k>> \in paths
    OBVIOUS
  <2>2. Leaves(r)[<<"runtime", "env", k>>] = r.env[k]
    BY <2>1, EnvPath DEF Leaves
  <2>3. doc[<<"runtime", "env", k>>] = ToAuthored(<<"runtime", "env", k>>, r.env[k])
    BY <1>5, <2>1, <2>2 DEF ToJSON
  <2>4. DOMAIN Table(<<"runtime", "env", k>>) = {}
    BY EnvPath DEF NoMap
  <2>5. ToAuthored(<<"runtime", "env", k>>, r.env[k]) = r.env[k]
    BY <2>4 DEF ToAuthored
  <2> QED BY <2>1, <2>3, <2>4, <2>5 DEF FromAuthored
<1> DEFINE read == [path \in DOMAIN doc |-> FromAuthored(path, doc[path])]
           enum(f) == IF <<"runtime", f>> \in DOMAIN doc THEN read[<<"runtime", f>>] ELSE Unspecified
<1>8. \A f \in EnumFields : enum(f) = r[f]
  <2> SUFFICES ASSUME NEW f \in EnumFields PROVE enum(f) = r[f]
    OBVIOUS
  <2> HIDE DEF doc, paths
  <2> QED BY <1>5, <1>6
<1>9. [k \in DOMAIN r.env |-> read[<<"runtime", "env", k>>]] = r.env
  <2>1. \A k \in DOMAIN r.env : read[<<"runtime", "env", k>>] = r.env[k]
    <3> HIDE DEF doc, paths
    <3> QED BY <1>5, <1>7
  <2> HIDE DEF read
  <2> QED BY <1>4, <2>1
<1>10. FromJSON(r, doc) =
         [r EXCEPT !.runAt = enum("runAt"), !.restart = enum("restart"), !.mode = enum("mode"),
                   !.env = [k \in DOMAIN r.env |-> read[<<"runtime", "env", k>>]]]
  BY DEF FromJSON
<1>11. FromJSON(r, doc) = [r EXCEPT !.runAt = r.runAt, !.restart = r.restart, !.mode = r.mode, !.env = r.env]
  <2>1. enum("runAt") = r.runAt /\ enum("restart") = r.restart /\ enum("mode") = r.mode
    <3> HIDE DEF enum
    <3> QED BY <1>2, <1>8
  <2> HIDE DEF enum, read, doc
  <2> QED BY <1>9, <1>10, <2>1
<1>12. r = [r EXCEPT !.runAt = r.runAt, !.restart = r.restart, !.mode = r.mode, !.env = r.env]
  BY <1>1, AskedShape
<1> QED BY <1>1, <1>11, <1>12

-----------------------------------------------------------------------------
(* The specs and their messages.                                           *)

SpecInv ==
  /\ IsSeq(specs) /\ IsSeq(heap) /\ IsSeq(hist) /\ Len(hist) = Len(specs)
  /\ \A i \in DOMAIN specs :
       /\ IsSeq(hist[i])
       /\ specs[i].runtime \in 0..Len(heap)
  /\ BuiltAsAsked

SpecsSame == \A i \in DOMAIN specs : Load(specs[i])' = Load(specs[i])

\* A message is written where there was none.
LEMMA WrittenFacts ==
  ASSUME IsSeq(heap), NEW q
  PROVE  LET new == Written(q, Len(heap) + 1) IN
         /\ IsSeq(new) /\ Len(heap) \in Nat
         /\ \A n \in 1..Len(heap) : new[n] = heap[n]
         /\ Len(new) = Len(heap) + (IF q.runtime = {} THEN 0 ELSE 1)
         /\ q.runtime # {} => new[Len(heap) + 1] = EnsureRuntime(q)
<1> DEFINE a == Len(heap) + 1
           new == Written(q, a)
<1>1. Len(heap) \in Nat /\ DOMAIN heap = 1..Len(heap)
  BY SeqFacts
<1>2. CASE q.runtime = {}
  BY <1>1, <1>2 DEF Written
<1>3. CASE q.runtime # {}
  <2>1. new = [n \in 1..a |-> IF n = a THEN EnsureRuntime(q) ELSE heap[n]]
    BY <1>1, <1>3 DEF Written
  <2>2. DOMAIN new = 1..a /\ new = [n \in 1..a |-> new[n]] /\ a \in Nat
    BY <1>1, <2>1
  <2>3. (\A n \in 1..Len(heap) : new[n] = heap[n]) /\ new[a] = EnsureRuntime(q)
    BY <1>1, <2>1
  <2>4. IsSeq(new) /\ Len(new) = a
    <3> HIDE DEF new, a
    <3> QED BY <2>2, FcnIsSeq
  <2> QED BY <1>1, <1>3, <2>3, <2>4
<1> QED BY <1>2, <1>3

\* While the messages there are stay where they are, so do the specs.
LEMMA HeapGrows ==
  ASSUME SpecInv, Len(heap') \in Nat, Len(heap) <= Len(heap'),
         \A n \in 1..Len(heap) : heap'[n] = heap[n],
         \A i \in DOMAIN specs : specs'[i] = specs[i]
  PROVE  SpecsSame /\ \A i \in DOMAIN specs : specs'[i].runtime \in 0..Len(heap')
<1>1. Len(heap) \in Nat
  BY SeqFacts DEF SpecInv
<1> SUFFICES ASSUME NEW i \in DOMAIN specs
             PROVE  Load(specs[i])' = Load(specs[i]) /\ specs'[i].runtime \in 0..Len(heap')
  BY DEF SpecsSame
<1>2. specs[i].runtime \in 0..Len(heap) /\ specs'[i] = specs[i]
  BY DEF SpecInv
<1>3. specs[i].runtime # 0 => heap'[specs[i].runtime] = heap[specs[i].runtime]
  BY <1>1, <1>2
<1>4. Load(specs[i])' = Load(specs[i])
  BY <1>2, <1>3 DEF Load
<1> QED BY <1>1, <1>2, <1>4

LEMMA SpecSame ==
  ASSUME SpecInv, UNCHANGED specVars
  PROVE  SpecInv' /\ SpecsSame
<1>1. SpecsSame
  BY DEF SpecsSame, specVars, Load
<1> QED BY <1>1 DEF SpecInv, BuiltAsAsked, Load, specVars

\* A new spec with a message of its own leaves the others alone.
LEMMA DeriveStep ==
  ASSUME SpecInv, NEW i \in DOMAIN specs, NEW h, IsSeq(h), Derive(i, Asked(h), h)
  PROVE  SpecInv' /\ SpecsSame
<1> DEFINE q == Asked(h)
<1>a. PICK a : a = Len(heap) + 1
  OBVIOUS
<1>n. PICK n : n = Len(specs) + 1
  OBVIOUS
<1>1. heap' = Written(q, a) /\ specs' = Append(specs, Stored(q, a)) /\ hist' = Append(hist, h)
  BY <1>a DEF Derive, CloneAt
<1>2. /\ IsSeq(specs) /\ IsSeq(heap) /\ IsSeq(hist) /\ Len(hist) = Len(specs)
      /\ Len(specs) \in Nat /\ Len(heap) \in Nat /\ DOMAIN specs = 1..Len(specs)
  BY SeqFacts DEF SpecInv
<1>3. /\ IsSeq(specs') /\ Len(specs') = n /\ DOMAIN specs' = 1..n
      /\ (\A j \in 1..Len(specs) : specs'[j] = specs[j]) /\ specs'[n] = Stored(q, a)
  BY <1>1, <1>2, <1>n, AppendFacts
<1>4. /\ IsSeq(hist') /\ Len(hist') = n
      /\ (\A j \in 1..Len(specs) : hist'[j] = hist[j]) /\ hist'[n] = h
  BY <1>1, <1>2, <1>n, AppendFacts
<1>5. /\ IsSeq(heap') /\ \A m \in 1..Len(heap) : heap'[m] = heap[m]
      /\ Len(heap') = Len(heap) + (IF q.runtime = {} THEN 0 ELSE 1)
      /\ q.runtime # {} => heap'[a] = EnsureRuntime(q)
  BY <1>1, <1>2, <1>a, WrittenFacts
<1>6. Len(heap') \in Nat /\ Len(heap) <= Len(heap')
  BY <1>2, <1>5
<1>7. SpecsSame /\ \A j \in DOMAIN specs : specs'[j].runtime \in 0..Len(heap')
  BY <1>2, <1>3, <1>5, <1>6, HeapGrows
<1>8. specs'[n].runtime = (IF q.runtime = {} THEN 0 ELSE a) /\ specs'[n].runtime \in 0..Len(heap')
  <2>1. specs'[n].runtime = IF q.runtime = {} THEN 0 ELSE a
    BY <1>3, AskedShape DEF Stored
  <2> HIDE DEF q
  <2> QED BY <1>2, <1>5, <1>a, <2>1
<1>9. Load(specs[n])' = q
  <2>1. q.runtime = {} \/ q.runtime = {AskedRuntime(h)}
    BY DEF Asked
  <2>2. q.runtime # {} => heap'[a] = AskedRuntime(h)
    BY <1>5, EnsureAsked
  <2>3. Load(specs[n])' = [specs'[n] EXCEPT !.runtime = q.runtime]
    <3>1. specs'[n].runtime = 0 => q.runtime = {}
      BY <1>2, <1>8, <1>a
    <3>2. specs'[n].runtime # 0 => specs'[n].runtime = a /\ q.runtime # {}
      BY <1>8
    <3> HIDE DEF q
    <3> QED BY <2>1, <2>2, <3>1, <3>2 DEF Load
  <2>4. [Stored(q, a) EXCEPT !.runtime = q.runtime] = q
    BY AskedShape DEF Stored
  <2> QED BY <1>3, <2>3, <2>4
<1>10. BuiltAsAsked'
  <2> SUFFICES ASSUME NEW j \in DOMAIN specs' PROVE Load(specs[j])' = Asked(hist'[j])
    BY DEF BuiltAsAsked
  <2>1. CASE j = n
    BY <1>4, <1>9, <2>1
  <2>2. CASE j # n
    <3>1. j \in 1..Len(specs) /\ hist'[j] = hist[j]
      BY <1>2, <1>3, <1>4, <1>n, <2>2
    <3>2. Load(specs[j])' = Load(specs[j]) /\ Load(specs[j]) = Asked(hist[j])
      BY <1>2, <1>7, <3>1 DEF SpecsSame, SpecInv, BuiltAsAsked
    <3> QED BY <3>1, <3>2
  <2> QED BY <2>1, <2>2
<1>11. ASSUME NEW j \in DOMAIN specs' PROVE IsSeq(hist'[j]) /\ specs'[j].runtime \in 0..Len(heap')
  <2>1. CASE j = n
    BY <1>4, <1>8, <2>1
  <2>2. CASE j # n
    <3>1. j \in 1..Len(specs) /\ hist'[j] = hist[j]
      BY <1>2, <1>3, <1>4, <1>n, <2>2
    <3> QED BY <1>2, <1>7, <3>1 DEF SpecInv
  <2> QED BY <2>1, <2>2
<1>12. IsSeq(heap)' /\ IsSeq(specs)' /\ IsSeq(hist)'
  BY <1>3, <1>4, <1>5 DEF IsSeq
<1> QED BY <1>3, <1>4, <1>7, <1>10, <1>11, <1>12 DEF SpecInv, IsSeq

LEMMA BuildStep ==
  ASSUME SpecInv, Build
  PROVE  SpecInv' /\ SpecsSame
<1>1. PICK i \in DOMAIN specs : ThroughJSON(i) \/ \E c \in Calls : Call(i, c)
  BY DEF Build
<1>2. IsSeq(hist[i]) /\ Load(specs[i]) = Asked(hist[i])
  BY DEF SpecInv, BuiltAsAsked
<1>3. ASSUME NEW c \in Calls, Call(i, c) PROVE SpecInv' /\ SpecsSame
  <2>1. Derive(i, Asked(Append(hist[i], c)), Append(hist[i], c))
    BY <1>2, <1>3, MutateAsked DEF Call
  <2>2. IsSeq(Append(hist[i], c))
    BY <1>2, AppendFacts
  <2> QED BY <2>1, <2>2, DeriveStep
<1>4. ASSUME ThroughJSON(i) PROVE SpecInv' /\ SpecsSame
  <2>1. PICK p : p = Asked(hist[i])
    OBVIOUS
  <2>2. {FromJSON(r, ToJSON(r)) : r \in p.runtime} = p.runtime
    <3>1. p.runtime = {} \/ p.runtime = {AskedRuntime(hist[i])}
      BY <2>1 DEF Asked
    <3>2. \A r \in p.runtime : FromJSON(r, ToJSON(r)) = r
      BY <3>1, JSONSame
    <3> QED BY <3>2
  <2>3. [p EXCEPT !.runtime = p.runtime] = p
    BY <2>1, AskedShape
  <2>4. Derive(i, Asked(hist[i]), hist[i])
    BY <1>2, <1>4, <2>1, <2>2, <2>3 DEF ThroughJSON
  <2> QED BY <1>2, <2>4, DeriveStep
<1> QED BY <1>1, <1>3, <1>4

\* An operation writes at most the runtime it sends.
LEMMA SubmitWrites ==
  ASSUME Submit
  PROVE  UNCHANGED specVars \/ (UNCHANGED <<specs, hist>> /\ \E q : heap' = Written(q, Len(heap) + 1))
<1>1. CASE Create
  BY <1>1 DEF Create, Refuse, CloneAt, specVars
<1>2. CASE CreateTemplate
  BY <1>2 DEF CreateTemplate, Refuse
<1>3. CASE UpdateTemplate
  BY <1>3 DEF UpdateTemplate, Refuse
<1>4. CASE Update
  BY <1>4 DEF Update, Refuse
<1> QED BY <1>1, <1>2, <1>3, <1>4 DEF Submit

LEMMA SubmitStep ==
  ASSUME SpecInv, Submit
  PROVE  SpecInv' /\ SpecsSame
<1>1. CASE UNCHANGED specVars
  BY <1>1, SpecSame
<1>2. CASE UNCHANGED <<specs, hist>> /\ \E q : heap' = Written(q, Len(heap) + 1)
  <2>1. PICK q : heap' = Written(q, Len(heap) + 1)
    BY <1>2
  <2>2. IsSeq(heap)
    BY DEF SpecInv
  <2>3. /\ IsSeq(heap') /\ Len(heap) \in Nat /\ \A n \in 1..Len(heap) : heap'[n] = heap[n]
        /\ Len(heap') = Len(heap) + (IF q.runtime = {} THEN 0 ELSE 1)
    BY <2>1, <2>2, WrittenFacts
  <2>4. Len(heap') \in Nat /\ Len(heap) <= Len(heap')
    BY <2>3
  <2>5. SpecsSame /\ \A i \in DOMAIN specs : specs'[i].runtime \in 0..Len(heap')
    BY <1>2, <2>3, <2>4, HeapGrows
  <2>6. BuiltAsAsked'
    BY <1>2, <2>5 DEF SpecInv, BuiltAsAsked, SpecsSame
  <2>7. IsSeq(heap)' /\ IsSeq(specs)' /\ IsSeq(hist)'
    BY <1>2, <2>3 DEF IsSeq, SpecInv
  <2>8. \A i \in DOMAIN specs' : IsSeq(hist'[i]) /\ specs'[i].runtime \in 0..Len(heap')
    BY <1>2, <2>5 DEF SpecInv
  <2> QED BY <1>2, <2>5, <2>6, <2>7, <2>8 DEF SpecInv
<1> QED BY <1>1, <1>2, SubmitWrites

LEMMA SpecStep ==
  ASSUME SpecInv, [Next]_vars
  PROVE  SpecInv' /\ SpecsSame
<1>1. CASE Build
  BY <1>1, BuildStep
<1>2. CASE Give
  BY <1>2, SpecSame DEF Give
<1>3. CASE Submit
  BY <1>3, SubmitStep
<1>4. CASE List
  BY <1>4, SpecSame DEF List
<1>5. CASE Listed
  BY <1>5, SpecSame DEF Listed
<1>6. CASE UNCHANGED vars
  BY <1>6, SpecSame DEF vars
<1> QED BY <1>1, <1>2, <1>3, <1>4, <1>5, <1>6 DEF Next

LEMMA SpecInitial == Init => SpecInv
<1> SUFFICES ASSUME Init PROVE SpecInv
  OBVIOUS
<1>1. specs = <<defaultTemplateSpecProto>> /\ heap = <<>> /\ hist = << <<>> >>
  BY DEF Init
<1>2. IsSeq(specs) /\ Len(specs) = 1 /\ DOMAIN specs = {1} /\ specs[1] = defaultTemplateSpecProto
  BY <1>1 DEF IsSeq
<1>3. IsSeq(hist) /\ Len(hist) = 1 /\ hist[1] = <<>>
  BY <1>1 DEF IsSeq
<1>4. IsSeq(<<>>) /\ Len(<<>>) = 0 /\ DOMAIN <<>> = {}
  BY DEF IsSeq
<1>5. \A f : Givers(<<>>, f) = {}
  BY <1>4 DEF Givers
<1>6. \A f, otherwise : LastGiven(<<>>, f, otherwise) = otherwise
  BY <1>5 DEF LastGiven
<1>7. \A f : Merged(<<>>, f) = NoMap
  BY <1>5 DEF Merged, NoMap
<1>8. ~AsksRuntime(<<>>)
  BY <1>5, <1>7 DEF AsksRuntime
<1>9. AskedSteps(<<>>) = <<>>
  <2>1. Cardinality(Givers(<<>>, "step")) = 0
    BY <1>5, FS_EmptySet
  <2>2. DOMAIN AskedSteps(<<>>) = 1..0 /\ AskedSteps(<<>>) = [n \in 1..0 |-> AskedSteps(<<>>)[n]]
    BY <2>1 DEF AskedSteps
  <2>3. 0 \in Nat /\ \A n \in 1..0 : <<>>[n] = AskedSteps(<<>>)[n]
    OBVIOUS
  <2> HIDE DEF AskedSteps
  <2> QED BY <1>4, <2>2, <2>3, SameSeq
<1>10. Asked(<<>>) =
         [base |-> defaultTemplateSpecProto.base, context |-> "", workdir |-> "", build |-> NoMap,
          steps |-> <<>>, runtime |-> {}, resources |-> ""]
  <2>1. Asked(<<>>).steps = AskedSteps(<<>>)
    BY DEF Asked, AskedSteps, StepOf
  <2>2. Asked(<<>>) =
         [base |-> defaultTemplateSpecProto.base, context |-> "", workdir |-> "", build |-> NoMap,
          steps |-> Asked(<<>>).steps, runtime |-> {}, resources |-> ""]
    BY <1>6, <1>7, <1>8 DEF Asked
  <2> QED BY <1>9, <2>1, <2>2
<1>11. Load(defaultTemplateSpecProto) = Asked(<<>>)
  <2>1. defaultTemplateSpecProto.runtime = 0
    BY DEF defaultTemplateSpecProto
  <2>2. Load(defaultTemplateSpecProto) = [defaultTemplateSpecProto EXCEPT !.runtime = {}]
    BY <2>1 DEF Load
  <2>3. PICK d : d = defaultTemplateSpecProto
    OBVIOUS
  <2>4. d.context = "" /\ d.workdir = "" /\ d.build = NoMap /\ d.steps = <<>> /\ d.resources = ""
    BY <2>3 DEF defaultTemplateSpecProto
  <2>5. d = [base |-> d.base, context |-> d.context, workdir |-> d.workdir, build |-> d.build,
             steps |-> d.steps, runtime |-> d.runtime, resources |-> d.resources]
    BY <2>3 DEF defaultTemplateSpecProto
  <2>6. [d EXCEPT !.runtime = {}]
          = [base |-> d.base, context |-> d.context, workdir |-> d.workdir, build |-> d.build,
             steps |-> d.steps, runtime |-> {}, resources |-> d.resources]
    BY <2>5
  <2> QED BY <1>10, <2>2, <2>3, <2>4, <2>6
<1>12. BuiltAsAsked
  BY <1>2, <1>3, <1>11 DEF BuiltAsAsked
<1>13. specs[1].runtime = 0 /\ 0 \in 0..Len(heap)
  <2>1. Len(heap) = 0
    BY <1>1, <1>4
  <2>2. 0 \in 0..0
    OBVIOUS
  <2>3. defaultTemplateSpecProto.runtime = 0
    BY DEF defaultTemplateSpecProto
  <2>4. specs[1].runtime = defaultTemplateSpecProto.runtime
    BY <1>2
  <2> QED BY <2>1, <2>2, <2>3, <2>4
<1> QED BY <1>1, <1>2, <1>3, <1>4, <1>12, <1>13 DEF SpecInv

\* A spec is what its calls, in their order, ask for, also after a round trip
\* through JSON, for any program that derives specs from specs.
THEOREM BuiltCorrect == Spec => []BuiltAsAsked
<1>1. SpecInv => BuiltAsAsked
  BY DEF SpecInv
<1>2. SpecInv /\ [Next]_vars => SpecInv'
  BY SpecStep
<1> QED BY <1>1, <1>2, SpecInitial, PTL DEF Spec

\* No spec the program holds ever changes, whatever it derives from it or sends.
THEOREM PersistCorrect == Spec => SpecsPersist
<1>1. SpecInv /\ [Next]_vars => SpecInv'
  BY SpecStep
<1>2. SpecInv /\ [Next]_vars =>
        [\A i \in DOMAIN specs : Load(specs[i])' = Load(specs[i])]_<<specs, heap>>
  BY SpecStep DEF SpecsSame
<1> QED BY <1>1, <1>2, SpecInitial, PTL DEF Spec, SpecsPersist

-----------------------------------------------------------------------------
(* The configuration that the options make.                                *)

\* The first n options.
Prefix(n) == [m \in 1..n |-> opts[m]]

\* cfg is the configuration after each of the first n options.
Folds(cfg, default, n) ==
  cfg = [m \in 0..n |-> IF m = 0 THEN default ELSE Apply(cfg[m - 1], opts[m])]

\* The recursive function of Config exists, so that its equation can be used.
LEMMA FoldExists ==
  ASSUME NEW default, NEW N \in Nat
  PROVE  \E cfg : Folds(cfg, default, N)
<1> DEFINE Bad == {n \in Nat : ~\E cfg : Folds(cfg, default, n)}
<1>1. Bad = {}
  <2> SUFFICES ASSUME Bad # {} PROVE FALSE
    OBVIOUS
  <2>1. PICK n \in Bad : \A m \in Bad : n <= m
    <3>1. Bad \in SUBSET Nat
      OBVIOUS
    <3> HIDE DEF Bad
    <3> QED BY <3>1, Least
  <2>2. n \in Nat /\ ~\E cfg : Folds(cfg, default, n)
    OBVIOUS
  <2>3. CASE n = 0
    <3>1. PICK f : f = [m \in 0..0 |-> default]
      OBVIOUS
    <3>2. f = [m \in 0..0 |-> IF m = 0 THEN default ELSE Apply(f[m - 1], opts[m])]
      BY <3>1
    <3> QED BY <2>2, <2>3, <3>2 DEF Folds
  <2>4. CASE n # 0
    <3>1. n - 1 \in Nat /\ ~(n <= n - 1)
      BY <2>2, <2>4
    <3>2. n - 1 \notin Bad
      <4> HIDE DEF Bad
      <4> QED BY <2>1, <3>1
    <3>3. PICK f : Folds(f, default, n - 1)
      BY <3>1, <3>2
    <3>4. \A m \in 0..(n - 1) : f[m] = IF m = 0 THEN default ELSE Apply(f[m - 1], opts[m])
      BY <3>3 DEF Folds
    <3>5. PICK g : g = [m \in 0..n |-> IF m = n THEN Apply(f[n - 1], opts[n]) ELSE f[m]]
      OBVIOUS
    <3>6. ASSUME NEW m \in 0..n
          PROVE  g[m] = IF m = 0 THEN default ELSE Apply(g[m - 1], opts[m])
      <4>1. CASE m = 0
        <5>1. 0 \in 0..(n - 1) /\ 0 # n
          BY <2>2, <2>4
        <5> QED BY <3>4, <3>5, <4>1, <5>1
      <4>2. CASE m # 0
        <5>1. m - 1 \in 0..n /\ m - 1 # n
          BY <2>2, <4>2
        <5>2. g[m - 1] = f[m - 1]
          BY <3>5, <5>1
        <5>3. CASE m = n
          BY <2>2, <2>4, <3>5, <5>2, <5>3
        <5>4. CASE m # n
          <6>1. m \in 0..(n - 1)
            BY <2>2, <5>4
          <6> QED BY <3>4, <3>5, <4>2, <5>2, <5>4, <6>1
        <5> QED BY <5>3, <5>4
      <4> QED BY <4>1, <4>2
    <3>7. g = [m \in 0..n |-> g[m]]
      BY <3>5
    <3>8. g = [m \in 0..n |-> IF m = 0 THEN default ELSE Apply(g[m - 1], opts[m])]
      BY <3>6, <3>7
    <3> QED BY <2>2, <3>8 DEF Folds
  <2> QED BY <2>3, <2>4
<1> QED BY <1>1

LEMMA ConfigFold ==
  ASSUME NEW default, Len(opts) \in Nat
  PROVE  \E cfg : Folds(cfg, default, Len(opts)) /\ Config(default) = cfg[Len(opts)]
<1>1. PICK f : f = CHOOSE cfg : cfg = [n \in 0..Len(opts) |-> IF n = 0 THEN default ELSE Apply(cfg[n - 1], opts[n])]
  OBVIOUS
<1>2. \E cfg : cfg = [n \in 0..Len(opts) |-> IF n = 0 THEN default ELSE Apply(cfg[n - 1], opts[n])]
  BY FoldExists DEF Folds
<1>3. f = [n \in 0..Len(opts) |-> IF n = 0 THEN default ELSE Apply(f[n - 1], opts[n])]
  BY <1>1, <1>2
<1>4. Config(default) = f[Len(opts)]
  BY <1>1 DEF Config
<1> QED BY <1>3, <1>4 DEF Folds

\* The options one by one.
LEMMA PrefixFacts ==
  ASSUME IsSeq(opts)
  PROVE  /\ \A n \in 0..Len(opts) : IsSeq(Prefix(n)) /\ Len(Prefix(n)) = n
         /\ \A n \in 1..Len(opts) : Prefix(n) = Append(Prefix(n - 1), opts[n])
         /\ Prefix(Len(opts)) = opts
<1>1. Len(opts) \in Nat /\ opts = [n \in 1..Len(opts) |-> opts[n]]
  BY SeqFacts
<1>2. ASSUME NEW n \in 0..Len(opts) PROVE IsSeq(Prefix(n)) /\ Len(Prefix(n)) = n
  <2>1. n \in Nat /\ DOMAIN Prefix(n) = 1..n /\ Prefix(n) = [m \in 1..n |-> Prefix(n)[m]]
    BY <1>1 DEF Prefix
  <2> HIDE DEF Prefix
  <2> QED BY <2>1, FcnIsSeq
<1>3. ASSUME NEW n \in 1..Len(opts) PROVE Prefix(n) = Append(Prefix(n - 1), opts[n])
  <2> DEFINE A == Append(Prefix(n - 1), opts[n])
  <2>1. n \in Nat /\ n - 1 \in 0..Len(opts) /\ (n - 1) + 1 = n
    BY <1>1
  <2>2. IsSeq(Prefix(n - 1)) /\ Len(Prefix(n - 1)) = n - 1
    BY <1>2, <2>1
  <2>3. IsSeq(A) /\ Len(A) = n /\ (\A m \in 1..(n - 1) : A[m] = Prefix(n - 1)[m]) /\ A[n] = opts[n]
    BY <2>1, <2>2, AppendFacts
  <2>4. \A m \in 1..n : m \in 1..(n - 1) \/ m = n
    BY <2>1
  <2>5. \A m \in 1..n : A[m] = Prefix(n)[m]
    <3> HIDE DEF A
    <3> QED BY <2>3, <2>4 DEF Prefix
  <2>6. Prefix(n) = [m \in 1..n |-> Prefix(n)[m]]
    BY DEF Prefix
  <2> HIDE DEF A, Prefix
  <2>7. A = Prefix(n)
    BY <2>1, <2>3, <2>5, <2>6, SameSeq
  <2> QED BY <2>7 DEF A
<1>4. Prefix(Len(opts)) = opts
  BY <1>1 DEF Prefix
<1> QED BY <1>2, <1>3, <1>4

\* Apply, by the rule of the option.
Marked(cfg, o) == [cfg EXCEPT !.set = @ \cup DOMAIN o.gives]

LEMMA ApplyCases ==
  ASSUME NEW cfg, NEW o
  PROVE  /\ o.op = "WithEnvs" /\ api = "Create" => Apply(cfg, o) = Marked(CreateEnv(cfg, o), o)
         /\ o.op = "WithEnvs" /\ api # "Create" => Apply(cfg, o) = Marked(Assign(cfg, o), o)
         /\ o.op = "WithCloneRepo" => Apply(cfg, o) = Marked(WithCloneRepo(cfg, o), o)
         /\ o.op = "WithTemplateResources" => Apply(cfg, o) = Marked(WithTemplateResources(cfg, o), o)
         /\ o.op = "WithTemplateDiskSizeGB" => Apply(cfg, o) = Marked(WithTemplateDiskSizeGB(cfg, o), o)
         /\ o.op = "WithTags" => Apply(cfg, o) = Marked(WithTags(cfg, o), o)
         /\ o.op = "WithDiskSizeGB" => Apply(cfg, o) = Marked(WithDiskSizeGB(cfg, o), o)
         /\ o.op \in {"WithDirectRuntime", "WithTemplateSpec"} => Apply(cfg, o) = Marked(Assign(cfg, o), o)
         /\ o.op \notin SpecialOps => Apply(cfg, o) = Marked(Assign(cfg, o), o)
<1>1. {"WithEnvs", "WithCloneRepo", "WithTemplateResources", "WithTemplateDiskSizeGB", "WithTags", "WithDiskSizeGB"} \subseteq SpecialOps
  BY DEF SpecialOps, Special, TemplateSpecial, UpdateSpecial
<1> QED BY <1>1 DEF Apply, Marked

\* The fields that have been given are marked as set.
SetFits(cfg, h) == \A f : f \in cfg.set <=> Givers(h, f) # {}

\* The xxxSet flags after one more option.
LEMMA SetAppend ==
  ASSUME NEW h, IsSeq(h), NEW o, NEW cfg, NEW new, SetFits(cfg, h), new.set = cfg.set \cup DOMAIN o.gives
  PROVE  SetFits(new, Append(h, o))
<1>1. \A f : Givers(Append(h, o), f) # {} <=> Givers(h, f) # {} \/ f \in DOMAIN o.gives
  BY GiversAppend DEF Gives
<1> QED BY <1>1 DEF SetFits

\* WithOpenCode and WithCloneRepo, the last of them.
AsksOpenCode(o) == Gives(o, "openCode") \/ (Gives(o, "cloneRepo") /\ o.gives.cloneRepo # "")
OpenCodeAsks(h) == {n \in DOMAIN h : AsksOpenCode(h[n])}
OpenCodeOf(h) == OpenCodeAsks(h) # {} /\ Optional(h[Max(OpenCodeAsks(h))], "openCode", TRUE)

\* WithOpenCode wins over an earlier WithCloneRepo, and the other way round.
LEMMA OpenCodeAppend ==
  ASSUME NEW h, IsSeq(h), NEW o, Gives(o, "openCode") => o.gives.openCode \in BOOLEAN
  PROVE  /\ AsksOpenCode(o) => OpenCodeOf(Append(h, o)) = Optional(o, "openCode", TRUE)
         /\ ~AsksOpenCode(o) => OpenCodeOf(Append(h, o)) = OpenCodeOf(h)
<1> DEFINE n == Len(h) + 1
           g == Append(h, o)
<1>1. /\ Len(h) \in Nat /\ DOMAIN h = 1..Len(h) /\ g[n] = o /\ DOMAIN g = 1..n
      /\ \A m \in 1..Len(h) : g[m] = h[m]
  BY SeqFacts, AppendFacts
<1>2. /\ OpenCodeAsks(h) \in SUBSET (1..Len(h)) /\ OpenCodeAsks(h) \in SUBSET Nat
      /\ DOMAIN g = 1..Len(h) \cup {n} /\ n \notin 1..Len(h)
  <2>1. OpenCodeAsks(h) \in SUBSET (1..Len(h))
    BY <1>1 DEF OpenCodeAsks
  <2>2. OpenCodeAsks(h) \in SUBSET Nat
    BY <1>1, <2>1
  <2>3. n \notin 1..Len(h) /\ 1..n = 1..Len(h) \cup {n}
    BY <1>1
  <2> QED BY <1>1, <2>1, <2>2, <2>3
<1>3. CASE AsksOpenCode(o)
  <2>1. OpenCodeAsks(g) = OpenCodeAsks(h) \cup {n}
    <3> HIDE DEF n, g
    <3> QED BY <1>1, <1>2, <1>3 DEF OpenCodeAsks
  <2>2. \A m \in OpenCodeAsks(g) : m \in Nat /\ m <= n
    BY <1>1, <1>2, <2>1
  <2>3. Max(OpenCodeAsks(g)) = n
    <3>1. n \in OpenCodeAsks(g)
      BY <2>1
    <3> HIDE DEF n, g
    <3> QED BY <2>2, <3>1, MaxIs
  <2>4. OpenCodeAsks(g) # {}
    BY <2>1
  <2>5. Optional(o, "openCode", TRUE) \in BOOLEAN
    BY DEF Optional
  <2>6. OpenCodeOf(g) <=> Optional(g[Max(OpenCodeAsks(g))], "openCode", TRUE)
    BY <2>4 DEF OpenCodeOf
  <2>7. OpenCodeOf(g) \in BOOLEAN
    BY DEF OpenCodeOf
  <2>8. OpenCodeOf(g) <=> Optional(o, "openCode", TRUE)
    BY <1>1, <2>3, <2>6
  <2>9. OpenCodeOf(g) = Optional(o, "openCode", TRUE)
    <3> HIDE DEF g
    <3> QED BY <2>5, <2>7, <2>8
  <2> QED BY <1>3, <2>9
<1>4. CASE ~AsksOpenCode(o)
  <2>1. OpenCodeAsks(g) = OpenCodeAsks(h)
    <3> HIDE DEF n, g
    <3> QED BY <1>1, <1>2, <1>4 DEF OpenCodeAsks
  <2>2. OpenCodeAsks(h) # {} => Max(OpenCodeAsks(h)) \in 1..Len(h)
    <3>1. IsFiniteSet(1..Len(h))
      BY <1>1, FS_Interval
    <3>2. IsFiniteSet(OpenCodeAsks(h))
      BY <1>2, <3>1, FS_Subset
    <3> QED BY <1>2, <3>2, Greatest
  <2>3. OpenCodeAsks(h) # {} => g[Max(OpenCodeAsks(h))] = h[Max(OpenCodeAsks(h))]
    BY <1>1, <2>2
  <2>4. OpenCodeOf(g) = OpenCodeOf(h)
    <3> HIDE DEF g
    <3> QED BY <2>1, <2>3 DEF OpenCodeOf
  <2> QED BY <1>4, <2>4
<1> QED BY <1>3, <1>4

\* What the configuration of a Create is after the options h.
CreateLast == (CreatePlain \ {"openCode"}) \cup {"cloneRepo", "runtime"}

CreateFits(cfg, h) ==
  /\ cfg = [f \in DOMAIN defaultCreateConfig |-> cfg[f]]
  /\ SetFits(cfg, h)
  /\ \A f \in CreateLast : cfg[f] = LastGiven(h, f, defaultCreateConfig[f])
  /\ cfg.env = Merged(h, "env")
  /\ cfg.disk = IF Givers(h, "disk") = {} THEN DefaultRes ELSE Int32(LastGiven(h, "disk", 0))
  /\ cfg.openCode = OpenCodeOf(h)

LEMMA CreateDomain ==
  DOMAIN defaultCreateConfig = CreateLast \cup {"env", "disk", "openCode", "set"}
BY DEF defaultCreateConfig, CreateLast, CreatePlain

\* One more option of a Create.
LEMMA CreateStep ==
  ASSUME api = "Create", NEW h, IsSeq(h), NEW cfg, CreateFits(cfg, h), NEW o, IsOption("Create", o)
  PROVE  CreateFits(Apply(cfg, o), Append(h, o))
<1> DEFINE D == DOMAIN defaultCreateConfig
           new == Apply(cfg, o)
           g == Append(h, o)
<1>1. D = CreateLast \cup {"env", "disk", "openCode", "set"} /\ cfg = [f \in D |-> cfg[f]]
  BY CreateDomain DEF CreateFits
<1>2. \A f, otherwise : LastGiven(g, f, otherwise)
                          = IF Gives(o, f) THEN o.gives[f] ELSE LastGiven(h, f, otherwise)
  BY LastAppend
<1>3. {"env", "disk", "openCode", "set"} \cap CreateLast = {}
  BY DEF CreateLast, CreatePlain
<1>4. ASSUME NEW x, x = [f \in D |-> x[f]], x.set = cfg.set, new = Marked(x, o),
             \A f \in CreateLast : x[f] = Optional(o, f, cfg[f]),
             x.env = IF Gives(o, "env") THEN Put(o.gives.env, cfg.env) ELSE cfg.env,
             x.disk = IF Gives(o, "disk") THEN Int32(o.gives.disk) ELSE cfg.disk,
             x.openCode = IF AsksOpenCode(o) THEN Optional(o, "openCode", TRUE) ELSE cfg.openCode
      PROVE  CreateFits(new, g)
  <2>1. /\ new = [f \in D |-> new[f]] /\ new.set = cfg.set \cup DOMAIN o.gives
        /\ \A f \in D \ {"set"} : new[f] = x[f]
    <3>1. "set" \in D
      BY <1>1
    <3> HIDE DEF D, new
    <3>2. /\ Marked(x, o) = [f \in D |-> Marked(x, o)[f]]
          /\ Marked(x, o).set = x.set \cup DOMAIN o.gives
          /\ \A f \in D \ {"set"} : Marked(x, o)[f] = x[f]
      <4>1. x = [f \in D |-> x[f]]
        BY <1>4
      <4> QED BY <3>1, <4>1 DEF Marked
    <3> QED BY <1>4, <3>2
  <2>2. SetFits(new, g)
    <3>1. SetFits(cfg, h)
      BY DEF CreateFits
    <3> QED BY <2>1, <3>1, SetAppend
  <2>3. \A f \in CreateLast : new[f] = LastGiven(g, f, defaultCreateConfig[f])
    <3>1. ASSUME NEW f \in CreateLast PROVE new[f] = LastGiven(g, f, defaultCreateConfig[f])
      <4>1. f \in D \ {"set"}
        BY <1>1, <1>3
      <4>2. cfg[f] = LastGiven(h, f, defaultCreateConfig[f])
        BY DEF CreateFits
      <4>3. new[f] = Optional(o, f, cfg[f])
        <5> HIDE DEF D, new
        <5> QED BY <1>4, <2>1, <4>1
      <4> HIDE DEF D, new, g
      <4> QED BY <1>2, <4>2, <4>3 DEF Optional
    <3> QED BY <3>1
  <2>4. new.env = x.env /\ new.disk = x.disk /\ new.openCode = x.openCode
    BY <1>1, <2>1
  <2>5. new.env = Merged(g, "env")
    <3>1. cfg.env = Merged(h, "env")
      BY DEF CreateFits
    <3>2. /\ Gives(o, "env") => Merged(g, "env") = Put(o.gives["env"], Merged(h, "env"))
          /\ ~Gives(o, "env") => Merged(g, "env") = Merged(h, "env")
      BY MergedAppend
    <3> HIDE DEF new, g
    <3> QED BY <1>4, <2>4, <3>1, <3>2
  <2>6. new.disk = IF Givers(g, "disk") = {} THEN DefaultRes ELSE Int32(LastGiven(g, "disk", 0))
    <3>1. cfg.disk = IF Givers(h, "disk") = {} THEN DefaultRes ELSE Int32(LastGiven(h, "disk", 0))
      BY DEF CreateFits
    <3>2. /\ Gives(o, "disk") => Givers(g, "disk") # {}
          /\ ~Gives(o, "disk") => Givers(g, "disk") = Givers(h, "disk")
      BY GiversAppend
    <3>3. LastGiven(g, "disk", 0) = IF Gives(o, "disk") THEN o.gives["disk"] ELSE LastGiven(h, "disk", 0)
      BY <1>2
    <3> HIDE DEF new, g
    <3> QED BY <1>4, <2>4, <3>1, <3>2, <3>3
  <2>7. new.openCode = OpenCodeOf(g)
    <3>1. cfg.openCode = OpenCodeOf(h)
      BY DEF CreateFits
    <3>2. Gives(o, "openCode") => o.gives.openCode \in BOOLEAN
      BY DEF IsOption, Gives
    <3>3. /\ AsksOpenCode(o) => OpenCodeOf(g) = Optional(o, "openCode", TRUE)
          /\ ~AsksOpenCode(o) => OpenCodeOf(g) = OpenCodeOf(h)
      BY <3>2, OpenCodeAppend
    <3> HIDE DEF new, g
    <3> QED BY <1>4, <2>4, <3>1, <3>3
  <2> HIDE DEF new, g
  <2> QED BY <2>1, <2>2, <2>3, <2>5, <2>6, <2>7 DEF CreateFits
<1>5. CASE o.op = "WithEnvs"
  <2>1. DOMAIN o.gives = {"env"}
    BY <1>5 DEF IsOption, SpecialOps, Special
  <2>2. ~AsksOpenCode(o) /\ ~Gives(o, "disk") /\ Gives(o, "env") /\ \A f \in CreateLast : ~Gives(o, f)
    BY <1>3, <2>1 DEF AsksOpenCode, Gives, CreateLast
  <2>3. PICK x : x = CreateEnv(cfg, o)
    OBVIOUS
  <2>4. new = Marked(x, o)
    BY <1>5, <2>3, ApplyCases
  <2>5. x = [f \in D |-> x[f]] /\ x.env = Put(o.gives.env, cfg.env) /\ \A f \in D \ {"env"} : x[f] = cfg[f]
    <3> HIDE DEF D
    <3> QED BY <1>1, <2>3 DEF CreateEnv
  <2>6. /\ x.set = cfg.set
        /\ \A f \in CreateLast : x[f] = Optional(o, f, cfg[f])
        /\ x.env = IF Gives(o, "env") THEN Put(o.gives.env, cfg.env) ELSE cfg.env
    <3> HIDE DEF D
    <3> QED BY <1>1, <1>3, <2>2, <2>5 DEF Optional
  <2>7. /\ x.disk = IF Gives(o, "disk") THEN Int32(o.gives.disk) ELSE cfg.disk
        /\ x.openCode = IF AsksOpenCode(o) THEN Optional(o, "openCode", TRUE) ELSE cfg.openCode
    <3> HIDE DEF D
    <3> QED BY <1>1, <1>3, <2>2, <2>5 DEF Optional
  <2> CreateFits(new, g)
    <3> HIDE DEF D, new, g
    <3> QED BY <1>4, <2>4, <2>5, <2>6, <2>7
  <2> QED OBVIOUS
<1>6. CASE o.op = "WithCloneRepo"
  <2>1. DOMAIN o.gives = {"cloneRepo"}
    BY <1>6 DEF IsOption, SpecialOps, Special
  <2>2. /\ ~Gives(o, "openCode") /\ ~Gives(o, "disk") /\ ~Gives(o, "env") /\ Gives(o, "cloneRepo")
        /\ (AsksOpenCode(o) <=> o.gives.cloneRepo # "") /\ \A f \in CreateLast \ {"cloneRepo"} : ~Gives(o, f)
    BY <1>3, <2>1 DEF AsksOpenCode, Gives, CreateLast
  <2>3. PICK x : x = WithCloneRepo(cfg, o)
    OBVIOUS
  <2>4. new = Marked(x, o)
    BY <1>6, <2>3, ApplyCases
  <2>5. /\ x = [f \in D |-> x[f]] /\ x.cloneRepo = o.gives.cloneRepo
        /\ x.openCode = (IF o.gives.cloneRepo # "" THEN TRUE ELSE cfg.openCode)
        /\ \A f \in D \ {"cloneRepo", "openCode"} : x[f] = cfg[f]
    <3>1. "cloneRepo" \in D /\ "openCode" \in D
      BY <1>1 DEF CreateLast
    <3> HIDE DEF D
    <3> QED BY <1>1, <2>3, <3>1 DEF WithCloneRepo
  <2>6. \A f \in CreateLast : x[f] = Optional(o, f, cfg[f])
    <3> HIDE DEF D
    <3> QED BY <1>1, <1>3, <2>2, <2>5 DEF Optional
  <2>7. /\ x.set = cfg.set
        /\ \A f \in CreateLast : x[f] = Optional(o, f, cfg[f])
        /\ x.env = IF Gives(o, "env") THEN Put(o.gives.env, cfg.env) ELSE cfg.env
    <3> HIDE DEF D
    <3> QED BY <1>1, <1>3, <2>2, <2>5, <2>6 DEF Optional
  <2>8. /\ x.disk = IF Gives(o, "disk") THEN Int32(o.gives.disk) ELSE cfg.disk
        /\ x.openCode = IF AsksOpenCode(o) THEN Optional(o, "openCode", TRUE) ELSE cfg.openCode
    <3> HIDE DEF D
    <3> QED BY <1>1, <1>3, <2>2, <2>5, <2>6 DEF Optional
  <2> CreateFits(new, g)
    <3> HIDE DEF D, new, g
    <3> QED BY <1>4, <2>4, <2>5, <2>7, <2>8
  <2> QED OBVIOUS
<1>7. CASE o.op = "WithDiskSizeGB"
  <2>1. DOMAIN o.gives = {"disk"}
    BY <1>7 DEF IsOption, SpecialOps, Special
  <2>2. ~AsksOpenCode(o) /\ Gives(o, "disk") /\ ~Gives(o, "env") /\ \A f \in CreateLast : ~Gives(o, f)
    BY <1>3, <2>1 DEF AsksOpenCode, Gives, CreateLast
  <2>3. PICK x : x = WithDiskSizeGB(cfg, o)
    OBVIOUS
  <2>4. new = Marked(x, o)
    BY <1>7, <2>3, ApplyCases
  <2>5. x = [f \in D |-> x[f]] /\ x.disk = Int32(o.gives.disk) /\ \A f \in D \ {"disk"} : x[f] = cfg[f]
    <3> HIDE DEF D
    <3> QED BY <1>1, <2>3 DEF WithDiskSizeGB
  <2>6. /\ x.set = cfg.set
        /\ \A f \in CreateLast : x[f] = Optional(o, f, cfg[f])
        /\ x.env = IF Gives(o, "env") THEN Put(o.gives.env, cfg.env) ELSE cfg.env
    <3> HIDE DEF D
    <3> QED BY <1>1, <1>3, <2>2, <2>5 DEF Optional
  <2>7. /\ x.disk = IF Gives(o, "disk") THEN Int32(o.gives.disk) ELSE cfg.disk
        /\ x.openCode = IF AsksOpenCode(o) THEN Optional(o, "openCode", TRUE) ELSE cfg.openCode
    <3> HIDE DEF D
    <3> QED BY <1>1, <1>3, <2>2, <2>5 DEF Optional
  <2> CreateFits(new, g)
    <3> HIDE DEF D, new, g
    <3> QED BY <1>4, <2>4, <2>5, <2>6, <2>7
  <2> QED OBVIOUS
<1>8. CASE o.op = "WithDirectRuntime" \/ o.op \notin SpecialOps
  <2>1. DOMAIN o.gives \subseteq CreatePlain \cup {"runtime"}
    BY <1>8 DEF IsOption, SpecialOps, Special, Plain
  <2>2. /\ ~Gives(o, "disk") /\ ~Gives(o, "env") /\ ~Gives(o, "cloneRepo") /\ "set" \notin DOMAIN o.gives
        /\ (AsksOpenCode(o) <=> Gives(o, "openCode"))
    BY <2>1 DEF AsksOpenCode, Gives, CreatePlain
  <2>3. PICK x : x = Assign(cfg, o)
    OBVIOUS
  <2>4. new = Marked(x, o)
    BY <1>8, <2>3, ApplyCases
  <2>5. x = [f \in D |-> x[f]] /\ \A f \in D : x[f] = Optional(o, f, cfg[f])
    <3>1. DOMAIN cfg = D
      <4> HIDE DEF D
      <4> QED BY <1>1
    <3> HIDE DEF D
    <3> QED BY <2>3, <3>1 DEF Assign, Optional, Gives
  <2>6. x.set = cfg.set /\ x.env = cfg.env /\ x.disk = cfg.disk
    <3> HIDE DEF D
    <3> QED BY <1>1, <2>2, <2>5 DEF Optional, Gives
  <2>7. /\ x.set = cfg.set
        /\ \A f \in CreateLast : x[f] = Optional(o, f, cfg[f])
        /\ x.env = IF Gives(o, "env") THEN Put(o.gives.env, cfg.env) ELSE cfg.env
    <3> HIDE DEF D
    <3> QED BY <1>1, <1>3, <2>2, <2>5, <2>6 DEF Optional
  <2>8. /\ x.disk = IF Gives(o, "disk") THEN Int32(o.gives.disk) ELSE cfg.disk
        /\ x.openCode = IF AsksOpenCode(o) THEN Optional(o, "openCode", TRUE) ELSE cfg.openCode
    <3> HIDE DEF D
    <3> QED BY <1>1, <1>3, <2>2, <2>5, <2>6 DEF Optional
  <2> CreateFits(new, g)
    <3> HIDE DEF D, new, g
    <3> QED BY <1>4, <2>4, <2>5, <2>7, <2>8
  <2> QED OBVIOUS
<1>9. o.op \in SpecialOps => o.op \in {"WithEnvs", "WithCloneRepo", "WithDiskSizeGB", "WithDirectRuntime"}
  BY DEF IsOption, Special
<1> QED BY <1>5, <1>6, <1>7, <1>8, <1>9

\* A later WithTemplateResources takes the disk size back.
TakenBack(h) ==
  Givers(h, "cpu") # {} /\ \A n \in Givers(h, "disk") : n < Max(Givers(h, "cpu"))

SizesOf(h) ==
  [cpu |-> LastGiven(h, "cpu", 0), memory |-> LastGiven(h, "memory", 0),
   disk |-> IF TakenBack(h) THEN 0 ELSE LastGiven(h, "disk", 0)]

\* WithTemplateResources resets the disk size, WithTemplateDiskSizeGB keeps the others.
LEMMA SizesAppend ==
  ASSUME NEW h, IsSeq(h), NEW o
  PROVE  /\ Gives(o, "cpu") /\ Gives(o, "memory") /\ ~Gives(o, "disk") =>
              SizesOf(Append(h, o)) = [cpu |-> o.gives.cpu, memory |-> o.gives.memory, disk |-> 0]
         /\ Gives(o, "disk") /\ ~Gives(o, "cpu") /\ ~Gives(o, "memory") =>
              SizesOf(Append(h, o)) = [cpu |-> LastGiven(h, "cpu", 0), memory |-> LastGiven(h, "memory", 0),
                                       disk |-> o.gives.disk]
         /\ ~Gives(o, "cpu") /\ ~Gives(o, "memory") /\ ~Gives(o, "disk") =>
              SizesOf(Append(h, o)) = SizesOf(h)
<1> DEFINE n == Len(h) + 1
           g == Append(h, o)
<1>1. \A f : LastGiven(g, f, 0) = IF Gives(o, f) THEN o.gives[f] ELSE LastGiven(h, f, 0)
  BY LastAppend
<1>2. /\ \A f : Gives(o, f) => Givers(g, f) = Givers(h, f) \cup {n}
      /\ \A f : ~Gives(o, f) => Givers(g, f) = Givers(h, f)
  BY GiversAppend
<1>3. Len(h) \in Nat /\ \A f : Givers(h, f) \in SUBSET (1..Len(h))
  BY SeqFacts, GiversFacts
<1>4. ASSUME Gives(o, "cpu"), ~Gives(o, "disk") PROVE TakenBack(g)
  <2>1. Givers(g, "cpu") = Givers(h, "cpu") \cup {n} /\ Givers(g, "disk") = Givers(h, "disk")
    BY <1>2, <1>4
  <2>2. \A m \in Givers(g, "cpu") : m \in Nat /\ m <= n
    BY <1>3, <2>1
  <2>3. Max(Givers(g, "cpu")) = n /\ Givers(g, "cpu") # {}
    <3>1. n \in Givers(g, "cpu")
      BY <2>1
    <3> HIDE DEF n, g
    <3> QED BY <2>2, <3>1, MaxIs
  <2>4. \A m \in Givers(g, "disk") : m < n
    BY <1>3, <2>1
  <2> HIDE DEF g, n
  <2> QED BY <2>3, <2>4 DEF TakenBack
<1>5. ASSUME Gives(o, "disk"), ~Gives(o, "cpu") PROVE ~TakenBack(g)
  <2>1. n \in Givers(g, "disk") /\ Givers(g, "cpu") = Givers(h, "cpu")
    BY <1>2, <1>5
  <2>2. Givers(h, "cpu") # {} => Max(Givers(h, "cpu")) \in 1..Len(h)
    BY GiversFacts
  <2>3. Givers(h, "cpu") # {} => ~(n < Max(Givers(h, "cpu")))
    BY <1>3, <2>2
  <2> HIDE DEF g, n
  <2> QED BY <2>1, <2>3 DEF TakenBack
<1>6. ASSUME ~Gives(o, "disk"), ~Gives(o, "cpu") PROVE TakenBack(g) = TakenBack(h)
  BY <1>2, <1>6 DEF TakenBack
<1> HIDE DEF g, n
<1>7. CASE Gives(o, "cpu") /\ Gives(o, "memory") /\ ~Gives(o, "disk")
  BY <1>1, <1>4, <1>7 DEF SizesOf, g
<1>8. CASE Gives(o, "disk") /\ ~Gives(o, "cpu") /\ ~Gives(o, "memory")
  BY <1>1, <1>5, <1>8 DEF SizesOf, g
<1>9. CASE ~Gives(o, "cpu") /\ ~Gives(o, "memory") /\ ~Gives(o, "disk")
  BY <1>1, <1>6, <1>9 DEF SizesOf, g
<1> QED BY <1>7, <1>8, <1>9

\* What the configuration of a template is after the options h.
TemplateLast == TemplatePlain \cup {"env", "spec"}

TemplateFits(cfg, h) ==
  /\ cfg = [f \in DOMAIN defaultTemplateConfig |-> cfg[f]]
  /\ SetFits(cfg, h)
  /\ \A f \in TemplateLast : cfg[f] = LastGiven(h, f, defaultTemplateConfig[f])
  /\ cfg.tags = LastGiven(h, "tags", {}) \ {" "}
  /\ cfg.resources = SizesOf(h)

LEMMA TemplateDomain ==
  DOMAIN defaultTemplateConfig = TemplateLast \cup {"resources", "tags", "set"}
BY DEF defaultTemplateConfig, TemplateLast, TemplatePlain

\* One more option of a CreateTemplate or an UpdateTemplate.
LEMMA TemplateStep ==
  ASSUME api \in {"CreateTemplate", "UpdateTemplate"}, NEW h, IsSeq(h), NEW cfg, TemplateFits(cfg, h),
         NEW o, IsOption(api, o)
  PROVE  TemplateFits(Apply(cfg, o), Append(h, o))
<1> DEFINE D == DOMAIN defaultTemplateConfig
           new == Apply(cfg, o)
           g == Append(h, o)
<1>1. D = TemplateLast \cup {"resources", "tags", "set"} /\ cfg = [f \in D |-> cfg[f]]
  BY TemplateDomain DEF TemplateFits
<1>2. \A f, otherwise : LastGiven(g, f, otherwise)
                          = IF Gives(o, f) THEN o.gives[f] ELSE LastGiven(h, f, otherwise)
  BY LastAppend
<1>3. {"resources", "tags", "set"} \cap TemplateLast = {}
  BY DEF TemplateLast, TemplatePlain
<1>4. ASSUME NEW x, x = [f \in D |-> x[f]], x.set = cfg.set, new = Marked(x, o),
             \A f \in TemplateLast : x[f] = Optional(o, f, cfg[f]),
             x.tags = IF Gives(o, "tags") THEN o.gives.tags \ {" "} ELSE cfg.tags,
             x.resources = SizesOf(g)
      PROVE  TemplateFits(new, g)
  <2>1. /\ new = [f \in D |-> new[f]] /\ new.set = cfg.set \cup DOMAIN o.gives
        /\ \A f \in D \ {"set"} : new[f] = x[f]
    <3>1. "set" \in D
      BY <1>1
    <3> HIDE DEF D, new
    <3>2. x = [f \in D |-> x[f]]
      BY <1>4
    <3>3. /\ Marked(x, o) = [f \in D |-> Marked(x, o)[f]]
          /\ Marked(x, o).set = x.set \cup DOMAIN o.gives
          /\ \A f \in D \ {"set"} : Marked(x, o)[f] = x[f]
      BY <3>1, <3>2 DEF Marked
    <3> QED BY <1>4, <3>3
  <2>2. SetFits(new, g)
    <3>1. SetFits(cfg, h)
      BY DEF TemplateFits
    <3> QED BY <2>1, <3>1, SetAppend
  <2>3. ASSUME NEW f \in TemplateLast PROVE new[f] = LastGiven(g, f, defaultTemplateConfig[f])
    <3>1. f \in D \ {"set"}
      BY <1>1, <1>3
    <3>2. cfg[f] = LastGiven(h, f, defaultTemplateConfig[f])
      BY DEF TemplateFits
    <3>3. new[f] = Optional(o, f, cfg[f])
      <4> HIDE DEF D, new
      <4> QED BY <1>4, <2>1, <3>1
    <3> HIDE DEF D, new, g
    <3> QED BY <1>2, <3>2, <3>3 DEF Optional
  <2>4. new.tags = x.tags /\ new.resources = x.resources
    BY <1>1, <2>1
  <2>5. new.tags = LastGiven(g, "tags", {}) \ {" "}
    <3>1. cfg.tags = LastGiven(h, "tags", {}) \ {" "}
      BY DEF TemplateFits
    <3>2. LastGiven(g, "tags", {}) = IF Gives(o, "tags") THEN o.gives["tags"] ELSE LastGiven(h, "tags", {})
      BY <1>2
    <3> HIDE DEF new, g
    <3> QED BY <1>4, <2>4, <3>1, <3>2
  <2> HIDE DEF new, g
  <2> QED BY <1>4, <2>1, <2>2, <2>3, <2>4, <2>5 DEF TemplateFits
<1>5. SizesOf(h) = cfg.resources
  BY DEF TemplateFits
<1>6. CASE o.op = "WithTags"
  <2>1. DOMAIN o.gives = {"tags"}
    BY <1>6 DEF IsOption, SpecialOps, Special, TemplateSpecial
  <2>2. Gives(o, "tags") /\ \A f : f # "tags" => ~Gives(o, f)
    BY <2>1 DEF Gives
  <2>3. PICK x : x = WithTags(cfg, o)
    OBVIOUS
  <2>4. new = Marked(x, o)
    BY <1>6, <2>3, ApplyCases
  <2>5. x = [f \in D |-> x[f]] /\ x.tags = o.gives.tags \ {" "} /\ \A f \in D \ {"tags"} : x[f] = cfg[f]
    <3> HIDE DEF D
    <3> QED BY <1>1, <2>3 DEF WithTags, normalizeTagList
  <2>6. x.set = cfg.set /\ x.resources = cfg.resources /\ \A f \in TemplateLast : x[f] = Optional(o, f, cfg[f])
    <3> HIDE DEF D
    <3> QED BY <1>1, <1>3, <2>2, <2>5 DEF Optional
  <2>7. x.resources = SizesOf(g)
    BY <1>5, <2>2, <2>6, SizesAppend
  <2>8. x.tags = IF Gives(o, "tags") THEN o.gives.tags \ {" "} ELSE cfg.tags
    BY <2>2, <2>5
  <2> TemplateFits(new, g)
    <3> HIDE DEF D, new, g
    <3> QED BY <1>4, <2>4, <2>5, <2>6, <2>7, <2>8
  <2> QED OBVIOUS
<1>7. CASE o.op = "WithTemplateResources"
  <2>1. DOMAIN o.gives = {"cpu", "memory"}
    BY <1>7 DEF IsOption, SpecialOps, Special, TemplateSpecial
  <2>2. Gives(o, "cpu") /\ Gives(o, "memory") /\ \A f : f \notin {"cpu", "memory"} => ~Gives(o, f)
    BY <2>1 DEF Gives
  <2>3. PICK x : x = WithTemplateResources(cfg, o)
    OBVIOUS
  <2>4. new = Marked(x, o)
    BY <1>7, <2>3, ApplyCases
  <2>5. /\ x = [f \in D |-> x[f]]
        /\ x.resources = [cpu |-> o.gives.cpu, memory |-> o.gives.memory, disk |-> 0]
        /\ \A f \in D \ {"resources"} : x[f] = cfg[f]
    <3> HIDE DEF D
    <3> QED BY <1>1, <2>3 DEF WithTemplateResources
  <2>6. x.set = cfg.set /\ x.tags = cfg.tags /\ \A f \in TemplateLast : x[f] = Optional(o, f, cfg[f])
    <3>1. \A f \in TemplateLast : ~Gives(o, f)
      BY <2>2 DEF TemplateLast, TemplatePlain
    <3> HIDE DEF D
    <3> QED BY <1>1, <1>3, <2>5, <3>1 DEF Optional
  <2>7. x.resources = SizesOf(g)
    BY <2>2, <2>5, SizesAppend
  <2>8. x.tags = IF Gives(o, "tags") THEN o.gives.tags \ {" "} ELSE cfg.tags
    BY <2>2, <2>6
  <2> TemplateFits(new, g)
    <3> HIDE DEF D, new, g
    <3> QED BY <1>4, <2>4, <2>5, <2>6, <2>7, <2>8
  <2> QED OBVIOUS
<1>8. CASE o.op = "WithTemplateDiskSizeGB"
  <2>1. DOMAIN o.gives = {"disk"}
    BY <1>8 DEF IsOption, SpecialOps, Special, TemplateSpecial
  <2>2. Gives(o, "disk") /\ \A f : f # "disk" => ~Gives(o, f)
    BY <2>1 DEF Gives
  <2>3. PICK x : x = WithTemplateDiskSizeGB(cfg, o)
    OBVIOUS
  <2>4. new = Marked(x, o)
    BY <1>8, <2>3, ApplyCases
  <2>5. /\ x = [f \in D |-> x[f]]
        /\ x.resources = [cfg.resources EXCEPT !.disk = o.gives.disk]
        /\ \A f \in D \ {"resources"} : x[f] = cfg[f]
    <3> HIDE DEF D
    <3> QED BY <1>1, <2>3 DEF WithTemplateDiskSizeGB
  <2>6. x.set = cfg.set /\ x.tags = cfg.tags /\ \A f \in TemplateLast : x[f] = Optional(o, f, cfg[f])
    <3>1. \A f \in TemplateLast : ~Gives(o, f)
      BY <2>2 DEF TemplateLast, TemplatePlain
    <3> HIDE DEF D
    <3> QED BY <1>1, <1>3, <2>5, <3>1 DEF Optional
  <2>7. x.resources = SizesOf(g)
    <3>1. SizesOf(g) = [cpu |-> LastGiven(h, "cpu", 0), memory |-> LastGiven(h, "memory", 0), disk |-> o.gives.disk]
      BY <2>2, SizesAppend
    <3>2. x.resources = [SizesOf(h) EXCEPT !.disk = o.gives.disk]
      BY <1>5, <2>5
    <3> HIDE DEF g
    <3> QED BY <3>1, <3>2 DEF SizesOf
  <2>8. x.tags = IF Gives(o, "tags") THEN o.gives.tags \ {" "} ELSE cfg.tags
    BY <2>2, <2>6
  <2> TemplateFits(new, g)
    <3> HIDE DEF D, new, g
    <3> QED BY <1>4, <2>4, <2>5, <2>6, <2>7, <2>8
  <2> QED OBVIOUS
<1>9. CASE o.op \in {"WithEnvs", "WithTemplateSpec"} \/ o.op \notin SpecialOps
  <2>1. DOMAIN o.gives \subseteq TemplateLast
    BY <1>9 DEF IsOption, SpecialOps, Special, TemplateSpecial, Plain, TemplateLast
  <2>2. \A f : f \notin TemplateLast => ~Gives(o, f)
    BY <2>1 DEF Gives
  <2>3. PICK x : x = Assign(cfg, o)
    OBVIOUS
  <2>4. new = Marked(x, o)
    BY <1>9, <2>3, ApplyCases
  <2>5. x = [f \in D |-> x[f]] /\ \A f \in D : x[f] = Optional(o, f, cfg[f])
    <3>1. DOMAIN cfg = D
      <4> HIDE DEF D
      <4> QED BY <1>1
    <3> HIDE DEF D
    <3> QED BY <2>3, <3>1 DEF Assign, Optional, Gives
  <2>6. x.set = cfg.set /\ x.tags = cfg.tags /\ x.resources = cfg.resources
    <3> HIDE DEF D
    <3> QED BY <1>1, <1>3, <2>2, <2>5 DEF Optional
  <2>7. x.resources = SizesOf(g)
    <3>1. ~Gives(o, "cpu") /\ ~Gives(o, "memory") /\ ~Gives(o, "disk")
      BY <2>2 DEF TemplateLast, TemplatePlain
    <3> QED BY <1>5, <2>6, <3>1, SizesAppend
  <2>8. x.tags = IF Gives(o, "tags") THEN o.gives.tags \ {" "} ELSE cfg.tags
    BY <1>3, <2>2, <2>6
  <2>9. \A f \in TemplateLast : x[f] = Optional(o, f, cfg[f])
    BY <1>1, <2>5
  <2> TemplateFits(new, g)
    <3> HIDE DEF D, new, g
    <3> QED BY <1>4, <2>4, <2>5, <2>6, <2>7, <2>8, <2>9
  <2> QED OBVIOUS
<1>10. o.op \in SpecialOps =>
         o.op \in {"WithEnvs", "WithTemplateSpec", "WithTags", "WithTemplateResources", "WithTemplateDiskSizeGB"}
  BY DEF IsOption, Special, TemplateSpecial
<1> QED BY <1>6, <1>7, <1>8, <1>9, <1>10

\* What the configuration of an update is after the options h.
UpdateFits(cfg, h) ==
  /\ cfg = [f \in DOMAIN defaultUpdateConfig |-> cfg[f]]
  /\ SetFits(cfg, h)
  /\ \A f \in UpdatePlain : cfg[f] = LastGiven(h, f, defaultUpdateConfig[f])
  /\ cfg.tags = LastGiven(h, "tags", {}) \ {" "}

UpdateApis == {"UpdateSession", "UpdateSnapshot", "UpdateVolume"}

LEMMA UpdateDomain ==
  DOMAIN defaultUpdateConfig = UpdatePlain \cup {"tags", "set"}
BY DEF defaultUpdateConfig, UpdatePlain

\* One more option of an update.
LEMMA UpdateStep ==
  ASSUME api \in UpdateApis, NEW h, IsSeq(h), NEW cfg, UpdateFits(cfg, h), NEW o, IsOption(api, o)
  PROVE  UpdateFits(Apply(cfg, o), Append(h, o))
<1> DEFINE D == DOMAIN defaultUpdateConfig
           new == Apply(cfg, o)
           g == Append(h, o)
<1>1. D = UpdatePlain \cup {"tags", "set"} /\ cfg = [f \in D |-> cfg[f]]
  BY UpdateDomain DEF UpdateFits
<1>2. \A f, otherwise : LastGiven(g, f, otherwise)
                          = IF Gives(o, f) THEN o.gives[f] ELSE LastGiven(h, f, otherwise)
  BY LastAppend
<1>3. {"tags", "set"} \cap UpdatePlain = {}
  BY DEF UpdatePlain
<1>4. ASSUME NEW x, x = [f \in D |-> x[f]], x.set = cfg.set, new = Marked(x, o),
             \A f \in UpdatePlain : x[f] = Optional(o, f, cfg[f]),
             x.tags = IF Gives(o, "tags") THEN o.gives.tags \ {" "} ELSE cfg.tags
      PROVE  UpdateFits(new, g)
  <2>1. /\ new = [f \in D |-> new[f]] /\ new.set = cfg.set \cup DOMAIN o.gives
        /\ \A f \in D \ {"set"} : new[f] = x[f]
    <3>1. "set" \in D
      BY <1>1
    <3> HIDE DEF D, new
    <3>2. x = [f \in D |-> x[f]]
      BY <1>4
    <3>3. /\ Marked(x, o) = [f \in D |-> Marked(x, o)[f]]
          /\ Marked(x, o).set = x.set \cup DOMAIN o.gives
          /\ \A f \in D \ {"set"} : Marked(x, o)[f] = x[f]
      BY <3>1, <3>2 DEF Marked
    <3> QED BY <1>4, <3>3
  <2>2. SetFits(new, g)
    <3>1. SetFits(cfg, h)
      BY DEF UpdateFits
    <3> QED BY <2>1, <3>1, SetAppend
  <2>3. ASSUME NEW f \in UpdatePlain PROVE new[f] = LastGiven(g, f, defaultUpdateConfig[f])
    <3>1. f \in D \ {"set"}
      BY <1>1, <1>3
    <3>2. cfg[f] = LastGiven(h, f, defaultUpdateConfig[f])
      BY DEF UpdateFits
    <3>3. new[f] = Optional(o, f, cfg[f])
      <4> HIDE DEF D, new
      <4> QED BY <1>4, <2>1, <3>1
    <3> HIDE DEF D, new, g
    <3> QED BY <1>2, <3>2, <3>3 DEF Optional
  <2>4. new.tags = x.tags
    BY <1>1, <2>1
  <2>5. new.tags = LastGiven(g, "tags", {}) \ {" "}
    <3>1. cfg.tags = LastGiven(h, "tags", {}) \ {" "}
      BY DEF UpdateFits
    <3>2. LastGiven(g, "tags", {}) = IF Gives(o, "tags") THEN o.gives["tags"] ELSE LastGiven(h, "tags", {})
      BY <1>2
    <3> HIDE DEF new, g
    <3> QED BY <1>4, <2>4, <3>1, <3>2
  <2> HIDE DEF new, g
  <2> QED BY <2>1, <2>2, <2>3, <2>5 DEF UpdateFits
<1>5. CASE o.op = "WithTags"
  <2>1. DOMAIN o.gives = {"tags"}
    BY <1>5 DEF IsOption, SpecialOps, Special, UpdateSpecial, UpdateApis
  <2>2. Gives(o, "tags") /\ \A f : f # "tags" => ~Gives(o, f)
    BY <2>1 DEF Gives
  <2>3. PICK x : x = WithTags(cfg, o)
    OBVIOUS
  <2>4. new = Marked(x, o)
    BY <1>5, <2>3, ApplyCases
  <2>5. x = [f \in D |-> x[f]] /\ x.tags = o.gives.tags \ {" "} /\ \A f \in D \ {"tags"} : x[f] = cfg[f]
    <3> HIDE DEF D
    <3> QED BY <1>1, <2>3 DEF WithTags, normalizeTagList
  <2>6. x.set = cfg.set /\ \A f \in UpdatePlain : x[f] = Optional(o, f, cfg[f])
    <3> HIDE DEF D
    <3> QED BY <1>1, <1>3, <2>2, <2>5 DEF Optional
  <2>7. x.tags = IF Gives(o, "tags") THEN o.gives.tags \ {" "} ELSE cfg.tags
    BY <2>2, <2>5
  <2> UpdateFits(new, g)
    <3> HIDE DEF D, new, g
    <3> QED BY <1>4, <2>4, <2>5, <2>6, <2>7
  <2> QED OBVIOUS
<1>6. CASE o.op \notin SpecialOps
  <2>1. DOMAIN o.gives \subseteq UpdatePlain
    BY <1>6 DEF IsOption, Plain, UpdateApis
  <2>2. \A f : f \notin UpdatePlain => ~Gives(o, f)
    BY <2>1 DEF Gives
  <2>3. PICK x : x = Assign(cfg, o)
    OBVIOUS
  <2>4. new = Marked(x, o)
    BY <1>6, <2>3, ApplyCases
  <2>5. x = [f \in D |-> x[f]] /\ \A f \in D : x[f] = Optional(o, f, cfg[f])
    <3>1. DOMAIN cfg = D
      <4> HIDE DEF D
      <4> QED BY <1>1
    <3> HIDE DEF D
    <3> QED BY <2>3, <3>1 DEF Assign, Optional, Gives
  <2>6. x.set = cfg.set /\ x.tags = cfg.tags /\ \A f \in UpdatePlain : x[f] = Optional(o, f, cfg[f])
    <3> HIDE DEF D
    <3> QED BY <1>1, <1>3, <2>2, <2>5 DEF Optional
  <2>7. x.tags = IF Gives(o, "tags") THEN o.gives.tags \ {" "} ELSE cfg.tags
    BY <1>3, <2>2, <2>6
  <2> UpdateFits(new, g)
    <3> HIDE DEF D, new, g
    <3> QED BY <1>4, <2>4, <2>5, <2>6, <2>7
  <2> QED OBVIOUS
<1>7. o.op \in SpecialOps => o.op = "WithTags"
  BY DEF IsOption, Special, UpdateSpecial, UpdateApis
<1> QED BY <1>5, <1>6, <1>7

\* The configuration an operation begins with, and what it is after the options h.
Default ==
  IF api = "Create" THEN defaultCreateConfig
  ELSE IF api \in UpdateApis THEN defaultUpdateConfig ELSE defaultTemplateConfig

Fits(cfg, h) ==
  /\ api = "Create" => CreateFits(cfg, h)
  /\ api \in {"CreateTemplate", "UpdateTemplate"} => TemplateFits(cfg, h)
  /\ api \in UpdateApis => UpdateFits(cfg, h)

LEMMA DefaultFits == Fits(Default, <<>>)
<1>1. \A f : Givers(<<>>, f) = {}
  BY DEF Givers
<1>2. \A f, otherwise : LastGiven(<<>>, f, otherwise) = otherwise
  BY <1>1 DEF LastGiven
<1>3. Merged(<<>>, "env") = NoMap
  BY <1>1 DEF Merged, NoMap
<1>4. ASSUME api = "Create" PROVE CreateFits(Default, <<>>)
  <2>1. PICK d : d = defaultCreateConfig
    OBVIOUS
  <2>2. d = [f \in DOMAIN d |-> d[f]] /\ d.set = {} /\ d.env = NoMap /\ d.disk = DefaultRes /\ d.openCode = FALSE
    BY <2>1 DEF defaultCreateConfig
  <2>3. OpenCodeOf(<<>>) = FALSE
    BY DEF OpenCodeOf, OpenCodeAsks
  <2> QED BY <1>1, <1>2, <1>3, <1>4, <2>1, <2>2, <2>3 DEF Default, CreateFits, SetFits
<1>5. ASSUME api \in {"CreateTemplate", "UpdateTemplate"} PROVE TemplateFits(Default, <<>>)
  <2>1. PICK d : d = defaultTemplateConfig
    OBVIOUS
  <2>2. d = [f \in DOMAIN d |-> d[f]] /\ d.set = {} /\ d.tags = {} /\ d.resources = [f \in Resource |-> 0]
    BY <2>1 DEF defaultTemplateConfig
  <2>3. SizesOf(<<>>) = [cpu |-> 0, memory |-> 0, disk |-> 0]
    BY <1>1, <1>2 DEF SizesOf
  <2>4. [f \in Resource |-> 0] = [cpu |-> 0, memory |-> 0, disk |-> 0]
    BY DEF Resource
  <2>5. Default = d
    BY <1>5, <2>1 DEF Default, UpdateApis
  <2>6. SetFits(d, <<>>) /\ d.tags = LastGiven(<<>>, "tags", {}) \ {" "}
    <3>1. SetFits(d, <<>>)
      BY <1>1, <2>2 DEF SetFits
    <3>2. {} \ {" "} = {}
      OBVIOUS
    <3>3. LastGiven(<<>>, "tags", {}) = {}
      BY <1>2
    <3> QED BY <2>2, <3>1, <3>2, <3>3
  <2>7. d.resources = SizesOf(<<>>)
    BY <2>2, <2>3, <2>4
  <2>8. \A f \in TemplateLast : d[f] = LastGiven(<<>>, f, d[f])
    BY <1>2
  <2> QED BY <2>1, <2>2, <2>5, <2>6, <2>7, <2>8 DEF TemplateFits
<1>6. ASSUME api \in UpdateApis PROVE UpdateFits(Default, <<>>)
  <2>1. PICK d : d = defaultUpdateConfig
    OBVIOUS
  <2>2. d = [f \in DOMAIN d |-> d[f]] /\ d.set = {} /\ d.tags = {}
    BY <2>1 DEF defaultUpdateConfig
  <2>3. Default = d
    BY <1>6, <2>1 DEF Default, UpdateApis
  <2> QED BY <1>1, <1>2, <2>1, <2>2, <2>3 DEF UpdateFits, SetFits
<1> QED BY <1>4, <1>5, <1>6 DEF Fits

LEMMA FitsStep ==
  ASSUME NEW h, IsSeq(h), NEW cfg, Fits(cfg, h), NEW o, IsOption(api, o)
  PROVE  Fits(Apply(cfg, o), Append(h, o))
<1>1. ASSUME api = "Create" PROVE CreateFits(Apply(cfg, o), Append(h, o))
  BY <1>1, CreateStep DEF Fits
<1>2. ASSUME api \in {"CreateTemplate", "UpdateTemplate"} PROVE TemplateFits(Apply(cfg, o), Append(h, o))
  BY <1>2, TemplateStep DEF Fits
<1>3. ASSUME api \in UpdateApis PROVE UpdateFits(Apply(cfg, o), Append(h, o))
  BY <1>3, UpdateStep DEF Fits
<1> QED BY <1>1, <1>2, <1>3 DEF Fits

\* The configuration of an operation is what its options, in their order, give.
LEMMA ConfigFits ==
  ASSUME IsSeq(opts), \A n \in DOMAIN opts : IsOption(api, opts[n])
  PROVE  Fits(Config(Default), opts)
<1>1. Len(opts) \in Nat /\ DOMAIN opts = 1..Len(opts)
  BY SeqFacts
<1>2. PICK cfg : Folds(cfg, Default, Len(opts)) /\ Config(Default) = cfg[Len(opts)]
  BY <1>1, ConfigFold
<1>3. \A m \in 0..Len(opts) : cfg[m] = IF m = 0 THEN Default ELSE Apply(cfg[m - 1], opts[m])
  BY <1>2 DEF Folds
<1> DEFINE Bad == {n \in 0..Len(opts) : ~Fits(cfg[n], Prefix(n))}
<1>4. Bad = {}
  <2> SUFFICES ASSUME Bad # {} PROVE FALSE
    OBVIOUS
  <2>1. PICK n \in Bad : \A m \in Bad : n <= m
    <3>1. Bad \in SUBSET Nat
      BY <1>1
    <3> HIDE DEF Bad
    <3> QED BY <3>1, Least
  <2>2. n \in 0..Len(opts) /\ n \in Nat /\ ~Fits(cfg[n], Prefix(n))
    BY <1>1
  <2>3. CASE n = 0
    <3>1. cfg[0] = Default
      BY <1>3, <2>2, <2>3
    <3>2. Prefix(0) = <<>>
      <4>1. 0 \in 0..Len(opts)
        BY <1>1
      <4>2. IsSeq(Prefix(0)) /\ Len(Prefix(0)) = 0
        BY <4>1, PrefixFacts
      <4> QED BY <4>2 DEF IsSeq
    <3> QED BY <2>2, <2>3, <3>1, <3>2, DefaultFits
  <2>4. CASE n # 0
    <3>1. n - 1 \in 0..Len(opts) /\ ~(n <= n - 1) /\ n \in 1..Len(opts)
      BY <1>1, <2>2, <2>4
    <3>2. n - 1 \notin Bad
      <4> HIDE DEF Bad
      <4> QED BY <2>1, <3>1
    <3>3. Fits(cfg[n - 1], Prefix(n - 1))
      BY <3>1, <3>2
    <3>4. IsSeq(Prefix(n - 1)) /\ Prefix(n) = Append(Prefix(n - 1), opts[n])
      BY <3>1, PrefixFacts
    <3>5. cfg[n] = Apply(cfg[n - 1], opts[n])
      BY <1>3, <2>2, <2>4
    <3>6. IsOption(api, opts[n])
      BY <1>1, <3>1
    <3> HIDE DEF Bad
    <3> QED BY <2>2, <3>3, <3>4, <3>5, <3>6, FitsStep
  <2> QED BY <2>3, <2>4
<1>5. Len(opts) \in 0..Len(opts)
  BY <1>1
<1>6. Fits(cfg[Len(opts)], Prefix(Len(opts)))
  BY <1>4, <1>5
<1> QED BY <1>2, <1>6, PrefixFacts

-----------------------------------------------------------------------------
(* The options that have been given.                                      *)

OptsInv ==
  /\ IsSeq(opts)
  /\ api = "" => opts = <<>>
  /\ \A n \in DOMAIN opts : IsOption(api, opts[n])
  /\ \A n \in DOMAIN opts : \A f \in {"spec", "runtime"} :
       Gives(opts[n], f) => opts[n].gives[f] \in DOMAIN specs
  /\ ~done => sent = {}

LEMMA OptsInitial == Init => OptsInv
<1>1. IsSeq(<<>>) /\ DOMAIN <<>> = {}
  BY DEF IsSeq
<1> QED BY <1>1 DEF Init, OptsInv

\* An option that gives a spec is one that takes it.
LEMMA SpecOptions ==
  ASSUME NEW a \in DOMAIN Special, NEW o, IsOption(a, o)
  PROVE  /\ Gives(o, "spec") \/ Gives(o, "runtime") => TakesSpec(o)
         /\ TakesSpec(o) => DOMAIN o.gives \subseteq {"spec", "runtime"}
         /\ Gives(o, "runtime") => a = "Create"
         /\ Gives(o, "spec") => a \in {"CreateTemplate", "UpdateTemplate"}
         /\ a # "Create" /\ Gives(o, "memory") => Gives(o, "cpu")
<1>1. {"spec", "runtime"} \cap Plain(a) = {}
  BY DEF Plain, CreatePlain, TemplatePlain, UpdatePlain
<1>2. a # "Create" => "memory" \notin Plain(a)
  BY DEF Plain, TemplatePlain, UpdatePlain
<1>3. {"WithDirectRuntime", "WithTemplateSpec"} \subseteq SpecialOps
  BY DEF SpecialOps, Special, TemplateSpecial, UpdateSpecial
<1>4. CASE o.op \notin SpecialOps
  BY <1>1, <1>2, <1>3, <1>4 DEF IsOption, Gives, TakesSpec
<1>5. CASE o.op \in SpecialOps /\ a = "Create"
  BY <1>5 DEF IsOption, Gives, TakesSpec, Special
<1>6. CASE o.op \in SpecialOps /\ a \in {"CreateTemplate", "UpdateTemplate"}
  BY <1>6 DEF IsOption, Gives, TakesSpec, Special, TemplateSpecial
<1>7. CASE o.op \in SpecialOps /\ a \in UpdateApis
  BY <1>7 DEF IsOption, Gives, TakesSpec, Special, UpdateSpecial, UpdateApis
<1>8. a \in {"Create", "CreateTemplate", "UpdateTemplate"} \cup UpdateApis
  BY DEF Special, UpdateApis
<1> QED BY <1>4, <1>5, <1>6, <1>7, <1>8

\* An option that is given fits its operation, and its spec exists.
LEMMA GiveStep ==
  ASSUME OptsInv, Give
  PROVE  OptsInv'
<1>1. PICK a \in DOMAIN Options : \E o \in Options[a] :
        /\ api \in {"", a} /\ api' = a
        /\ IF TakesSpec(o)
           THEN \E i \in DOMAIN specs : opts' = Append(opts, [o EXCEPT !.gives = [f \in DOMAIN @ |-> i]])
           ELSE opts' = Append(opts, o)
  BY DEF Give
<1>2. PICK o \in Options[a] :
        /\ api \in {"", a} /\ api' = a
        /\ IF TakesSpec(o)
           THEN \E i \in DOMAIN specs : opts' = Append(opts, [o EXCEPT !.gives = [f \in DOMAIN @ |-> i]])
           ELSE opts' = Append(opts, o)
  BY <1>1
<1>3. a \in DOMAIN Special /\ IsOption(a, o) /\ a # ""
  <2>1. a \in DOMAIN Special /\ IsOption(a, o)
    BY OptionsAssumption
  <2>2. "" \notin DOMAIN Special
    BY DEF Special
  <2> QED BY <2>1, <2>2
<1>4. PICK new : /\ opts' = Append(opts, new) /\ IsOption(a, new)
                 /\ \A f \in {"spec", "runtime"} : Gives(new, f) => new.gives[f] \in DOMAIN specs
  <2>1. CASE ~TakesSpec(o)
    <3>1. \A f \in {"spec", "runtime"} : ~Gives(o, f)
      BY <1>3, <2>1, SpecOptions
    <3> QED BY <1>2, <1>3, <2>1, <3>1
  <2>2. CASE TakesSpec(o)
    <3>1. PICK i \in DOMAIN specs : opts' = Append(opts, [o EXCEPT !.gives = [f \in DOMAIN @ |-> i]])
      BY <1>2, <2>2
    <3>2. PICK new : new = [o EXCEPT !.gives = [f \in DOMAIN @ |-> i]]
      OBVIOUS
    <3>3. o = [op |-> o.op, gives |-> o.gives]
      BY <1>3 DEF IsOption
    <3>4. new = [op |-> o.op, gives |-> [f \in DOMAIN o.gives |-> i]]
      BY <3>2, <3>3
    <3>5. new.op = o.op /\ new.gives = [f \in DOMAIN o.gives |-> i] /\ new = [op |-> new.op, gives |-> new.gives]
      BY <3>4
    <3>6. DOMAIN new.gives = DOMAIN o.gives /\ \A f \in DOMAIN new.gives : new.gives[f] = i
      BY <3>5
    <3>7. "openCode" \notin DOMAIN o.gives
      BY <1>3, <2>2, SpecOptions
    <3>8. IsOption(a, new)
      BY <1>3, <3>5, <3>6, <3>7 DEF IsOption
    <3> QED BY <3>1, <3>2, <3>6, <3>8 DEF Gives
  <2> QED BY <2>1, <2>2
<1>5. IsSeq(opts) /\ DOMAIN opts = 1..Len(opts) /\ Len(opts) \in Nat
  BY SeqFacts DEF OptsInv
<1>6. /\ IsSeq(opts') /\ DOMAIN opts' = 1..(Len(opts) + 1) /\ opts'[Len(opts) + 1] = new
      /\ \A n \in 1..Len(opts) : opts'[n] = opts[n]
  BY <1>4, <1>5, AppendFacts
<1>7. ASSUME NEW n \in DOMAIN opts'
      PROVE  /\ IsOption(a, opts'[n])
             /\ \A f \in {"spec", "runtime"} : Gives(opts'[n], f) => opts'[n].gives[f] \in DOMAIN specs
  <2>1. CASE n = Len(opts) + 1
    BY <1>4, <1>6, <2>1
  <2>2. CASE n # Len(opts) + 1
    <3>1. n \in DOMAIN opts /\ opts'[n] = opts[n]
      BY <1>5, <1>6, <2>2
    <3>2. api = a
      <4>1. opts # <<>>
        BY <3>1
      <4> QED BY <1>2, <4>1 DEF OptsInv
    <3> QED BY <3>1, <3>2 DEF OptsInv
  <2> QED BY <2>1, <2>2
<1>8. specs' = specs /\ sent' = sent /\ done' = done
  BY DEF Give, specVars
<1>9. IsSeq(opts)'
  BY <1>6 DEF IsSeq
<1> QED BY <1>2, <1>3, <1>7, <1>8, <1>9 DEF OptsInv, IsOption, Gives

LEMMA OptsStep ==
  ASSUME OptsInv, SpecInv, [Next]_vars
  PROVE  OptsInv'
<1>1. CASE Build
  <2>1. opts = <<>> /\ UNCHANGED requestVars
    BY <1>1 DEF Build
  <2> QED BY <2>1 DEF OptsInv, requestVars, IsSeq
<1>2. CASE Give
  BY <1>2, GiveStep
<1>3. CASE Submit
  <2>1. UNCHANGED <<api, opts, specs>> /\ done' = TRUE
    BY <1>3, SubmitWrites DEF Submit, specVars
  <2> QED BY <2>1 DEF OptsInv, IsSeq, IsOption, Gives
<1>4. CASE List
  <2>1. UNCHANGED <<api, opts, specs, sent>> /\ done' = TRUE
    BY <1>4 DEF List, specVars
  <2> QED BY <2>1 DEF OptsInv, IsSeq, IsOption, Gives
<1>5. CASE Listed
  BY <1>5 DEF Listed, OptsInv, requestVars, specVars, IsSeq, IsOption, Gives
<1>6. CASE UNCHANGED vars
  BY <1>6 DEF vars, OptsInv, requestVars, specVars, IsSeq, IsOption, Gives
<1> QED BY <1>1, <1>2, <1>3, <1>4, <1>5, <1>6 DEF Next

-----------------------------------------------------------------------------
(* The requests.                                                           *)

\* The options when an operation is called, and the specs they name.
OptsNow ==
  /\ OptsInv /\ SpecInv /\ api \in DOMAIN Special

\* The spec an option gives is one the program holds, as its calls ask for it.
LEMMA AskedSpec ==
  ASSUME OptsNow, NEW f \in {"spec", "runtime"}
  PROVE  /\ AskedField(f) = {} <=> LastGiven(opts, f, 0) = 0
         /\ AskedField(f) = IF LastGiven(opts, f, 0) = 0 THEN {} ELSE {LastGiven(opts, f, 0)}
         /\ \A i \in AskedField(f) : i \in DOMAIN specs /\ Load(specs[i]) = Asked(hist[i]) /\ IsSeq(hist[i])
<1>1. IsSeq(opts)
  BY DEF OptsNow, OptsInv
<1>2. CASE Givers(opts, f) = {}
  BY <1>2 DEF AskedField, LastGiven
<1>3. CASE Givers(opts, f) # {}
  <2>1. PICK n : n = Max(Givers(opts, f))
    OBVIOUS
  <2>2. n \in Givers(opts, f)
    BY <1>1, <1>3, <2>1, GiversFacts
  <2>3. n \in DOMAIN opts /\ Gives(opts[n], f)
    BY <2>2 DEF Givers
  <2>4. PICK i : i = opts[n].gives[f]
    OBVIOUS
  <2>5. i \in DOMAIN specs
    BY <2>3, <2>4 DEF OptsNow, OptsInv
  <2>6. LastGiven(opts, f, 0) = i /\ AskedField(f) = {i}
    BY <1>3, <2>1, <2>4 DEF LastGiven, AskedField
  <2>7. Load(specs[i]) = Asked(hist[i]) /\ IsSeq(hist[i])
    BY <2>5 DEF OptsNow, SpecInv, BuiltAsAsked
  <2>8. i # 0
    <3>1. DOMAIN specs = 1..Len(specs) /\ Len(specs) \in Nat
      BY SeqFacts DEF OptsNow, SpecInv
    <3> QED BY <2>5, <3>1
  <2> QED BY <2>5, <2>6, <2>7, <2>8
<1> QED BY <1>2, <1>3

\* A runtime goes to Create only, a spec to the templates only, and a template's
\* memory is given with its core count.
LEMMA AskedOnly ==
  ASSUME OptsNow
  PROVE  /\ api # "Create" => AskedField("runtime") = {}
         /\ api \notin {"CreateTemplate", "UpdateTemplate"} => AskedField("spec") = {}
         /\ api # "Create" /\ Givers(opts, "memory") # {} => Givers(opts, "cpu") # {}
<1>1. ASSUME NEW n \in DOMAIN opts
      PROVE  /\ Gives(opts[n], "runtime") => api = "Create"
             /\ Gives(opts[n], "spec") => api \in {"CreateTemplate", "UpdateTemplate"}
             /\ api # "Create" /\ Gives(opts[n], "memory") => Gives(opts[n], "cpu")
  <2>1. api \in DOMAIN Special /\ IsOption(api, opts[n])
    BY DEF OptsNow, OptsInv
  <2> QED BY <2>1, SpecOptions
<1> QED BY <1>1 DEF AskedField, Givers

\* A value that was given does not depend on the one it would have otherwise.
LEMMA LastOtherwise ==
  ASSUME NEW h, NEW f, Givers(h, f) # {}, NEW x, NEW y
  PROVE  LastGiven(h, f, x) = LastGiven(h, f, y)
BY DEF LastGiven

LEMMA NotGiven ==
  ASSUME NEW h, NEW f, Givers(h, f) = {}, NEW x
  PROVE  LastGiven(h, f, x) = x
BY DEF LastGiven

LEMMA TagsAsked ==
  ASSUME NEW cfg, SetFits(cfg, opts), cfg.tags = LastGiven(opts, "tags", {}) \ {" "}
  PROVE  Tags(cfg) = AskedTags
<1>1. "tags" \in cfg.set <=> Givers(opts, "tags") # {}
  BY DEF SetFits
<1>2. CASE Givers(opts, "tags") = {}
  <2>1. LastGiven(opts, "tags", {}) = {}
    BY <1>2, NotGiven
  <2>2. {} \ {" "} = {}
    OBVIOUS
  <2> QED BY <1>1, <1>2, <2>1, <2>2 DEF Tags, AskedTags
<1>3. CASE Givers(opts, "tags") # {}
  <2>1. PICK t : t = LastGiven(opts, "tags", {})
    OBVIOUS
  <2>2. t \subseteq {" "} <=> t \ {" "} = {}
    OBVIOUS
  <2> QED BY <1>1, <1>3, <2>1, <2>2 DEF Tags, AskedTags
<1> QED BY <1>2, <1>3

LEMMA GivenAsked ==
  ASSUME NEW cfg, SetFits(cfg, opts), NEW f, NEW d, cfg[f] = LastGiven(opts, f, d)
  PROVE  Given(cfg, f) = AskedField(f)
<1>1. f \in cfg.set <=> Givers(opts, f) # {}
  BY DEF SetFits
<1>2. CASE Givers(opts, f) = {}
  BY <1>1, <1>2 DEF Given, AskedField
<1>3. CASE Givers(opts, f) # {}
  BY <1>1, <1>3, LastOtherwise DEF Given, AskedField
<1> QED BY <1>2, <1>3

\* What goes out of an update.
LEMMA UpdateSays ==
  ASSUME NEW cfg, UpdateFits(cfg, opts), UpdateOk(cfg)
  PROVE  UpdateAsAsked(UpdateRequest(cfg))
<1>1. PICK q : q = UpdateRequest(cfg)
  OBVIOUS
<1>2. SetFits(cfg, opts) /\ cfg.tags = LastGiven(opts, "tags", {}) \ {" "}
  BY DEF UpdateFits
<1>3. \A f \in UpdatePlain : Given(cfg, f) = AskedField(f)
  <2>1. ASSUME NEW f \in UpdatePlain PROVE Given(cfg, f) = AskedField(f)
    <3>1. cfg[f] = LastGiven(opts, f, defaultUpdateConfig[f])
      BY DEF UpdateFits
    <3> QED BY <1>2, <3>1, GivenAsked
  <2> QED BY <2>1
<1>4. /\ q.tags = Tags(cfg) /\ q.name = Given(cfg, "name") /\ q.expiresAt = Given(cfg, "expiresAt")
      /\ q.sticky = Given(cfg, "sticky") /\ q.maxDuration = Given(cfg, "maxDuration")
  BY <1>1 DEF UpdateRequest
<1>5. \A f \in {"name", "expiresAt", "sticky", "maxDuration"} : q[f] = AskedField(f)
  BY <1>3, <1>4 DEF UpdatePlain
<1>6. q.maxDuration # {} => q.sticky # {}
  BY <1>4 DEF Given, UpdateOk
<1>7. q.tags = AskedTags
  BY <1>2, <1>4, TagsAsked
<1>8. UpdateAsAsked(q)
  BY <1>5, <1>6, <1>7 DEF UpdateAsAsked
<1> QED BY <1>1, <1>8

\* The sizes of a template are sent when a core count or a disk size was given.
LEMMA SizesAsked ==
  ASSUME OptsNow, api # "Create", NEW cfg, SetFits(cfg, opts), cfg.resources = SizesOf(opts)
  PROVE  Sizes(cfg) = AskedSizes
<1>1. \A f : f \in cfg.set <=> Givers(opts, f) # {}
  BY DEF SetFits
<1>2. cfg.set \cap Resource = {} <=> Givers(opts, "cpu") \cup Givers(opts, "disk") = {}
  BY <1>1, AskedOnly DEF Resource
<1>3. DiskTakenBack = TakenBack(opts)
  BY DEF DiskTakenBack, TakenBack
<1>4. SizesOf(opts) = [f \in Resource |-> IF f = "disk" /\ DiskTakenBack THEN 0 ELSE LastGiven(opts, f, 0)]
  BY <1>3 DEF SizesOf, Resource
<1> QED BY <1>2, <1>4 DEF Sizes, AskedSizes

LEMMA SpecAsked ==
  ASSUME OptsNow, NEW cfg, cfg.spec = LastGiven(opts, "spec", 0)
  PROVE  BuilderSpec(cfg) = {Asked(hist[i]) : i \in AskedField("spec")}
<1>1. /\ AskedField("spec") = IF cfg.spec = 0 THEN {} ELSE {cfg.spec}
      /\ \A i \in AskedField("spec") : Load(specs[i]) = Asked(hist[i])
  BY AskedSpec
<1> QED BY <1>1 DEF BuilderSpec

\* What goes out of a template.
LEMMA TemplateSays ==
  ASSUME OptsNow, NEW cfg, TemplateFits(cfg, opts), TemplateOk(cfg)
  PROVE  /\ api = "CreateTemplate" => TemplateAsAsked(CreateTemplateRequest(cfg))
         /\ api = "UpdateTemplate" => TemplateAsAsked(UpdateTemplateRequest(cfg))
<1> SUFFICES ASSUME api \in {"CreateTemplate", "UpdateTemplate"}
             PROVE  /\ api = "CreateTemplate" => TemplateAsAsked(CreateTemplateRequest(cfg))
                    /\ api = "UpdateTemplate" => TemplateAsAsked(UpdateTemplateRequest(cfg))
  OBVIOUS
<1>1. SetFits(cfg, opts) /\ cfg.tags = LastGiven(opts, "tags", {}) \ {" "} /\ cfg.resources = SizesOf(opts)
  BY DEF TemplateFits
<1>2. \A f \in TemplateLast : cfg[f] = LastGiven(opts, f, defaultTemplateConfig[f])
  BY DEF TemplateFits
<1>3. /\ cfg.spec = LastGiven(opts, "spec", 0) /\ cfg.env = LastGiven(opts, "env", NoMap)
      /\ \A f \in TemplatePlain : cfg[f] = LastGiven(opts, f, "")
  <2>1. PICK d : d = defaultTemplateConfig
    OBVIOUS
  <2>2. d.spec = 0 /\ d.env = NoMap /\ \A f \in TemplatePlain : d[f] = ""
    <3>1. d.spec = 0 /\ d.env = NoMap /\ d.baseImage = "" /\ d.setupScript = "" /\ d.startCmd = ""
      BY <2>1 DEF defaultTemplateConfig
    <3>2. d.parentTemplate = "" /\ d.parentImage = ""
      BY <2>1 DEF defaultTemplateConfig
    <3> QED BY <3>1, <3>2 DEF TemplatePlain
  <2>3. \A f \in TemplateLast : cfg[f] = LastGiven(opts, f, d[f])
    BY <1>2, <2>1
  <2> QED BY <2>2, <2>3 DEF TemplateLast
<1>4. BuilderSpec(cfg) = {Asked(hist[i]) : i \in AskedField("spec")}
  BY <1>3, SpecAsked
<1>5. Sizes(cfg) = AskedSizes
  BY <1>1, SizesAsked
<1>6. BuilderSpec(cfg) # {} => \A f \in LegacyFields : Givers(opts, f) = {}
  BY <1>1 DEF BuilderSpec, TemplateOk, LegacyConflict, SetFits
<1>7. ASSUME api = "CreateTemplate" PROVE TemplateAsAsked(CreateTemplateRequest(cfg))
  <2>1. PICK q : q = CreateTemplateRequest(cfg)
    OBVIOUS
  <2>2. /\ q.spec = BuilderSpec(cfg) /\ q.resources = Sizes(cfg) /\ q.tags = cfg.tags /\ q.env = cfg.env
        /\ \A f \in {"baseImage", "setupScript", "startCmd"} \cup Parents : q[f] = cfg[f]
    BY <2>1 DEF CreateTemplateRequest, Parents
  <2>3. \A f \in {"baseImage", "setupScript", "startCmd"} \cup Parents : q[f] = LastGiven(opts, f, "")
    BY <1>3, <2>2 DEF TemplatePlain, Parents
  <2>4. q.spec # {} => \A f \in Parents : q[f] = ""
    BY <1>7, <2>2 DEF BuilderSpec, TemplateOk, LegacyConflict
  <2>5. q.tags = AskedTags.replace
    BY <1>1, <2>2 DEF AskedTags
  <2>6. TemplateAsAsked(q)
    BY <1>3, <1>4, <1>5, <1>6, <1>7, <2>2, <2>3, <2>4, <2>5 DEF TemplateAsAsked
  <2> QED BY <2>1, <2>6
<1>8. ASSUME api = "UpdateTemplate" PROVE TemplateAsAsked(UpdateTemplateRequest(cfg))
  <2>1. PICK q : q = UpdateTemplateRequest(cfg)
    OBVIOUS
  <2>2. /\ q.spec = BuilderSpec(cfg) /\ q.resources = Sizes(cfg) /\ q.tags = Tags(cfg)
        /\ q.env = Given(cfg, "env") \ {NoMap}
        /\ \A f \in {"baseImage", "setupScript", "startCmd"} : q[f] = Given(cfg, f)
    BY <2>1 DEF UpdateTemplateRequest
  <2>3. \A f \in {"baseImage", "setupScript", "startCmd"} : q[f] = AskedField(f)
    <3>1. ASSUME NEW f \in {"baseImage", "setupScript", "startCmd"} PROVE Given(cfg, f) = AskedField(f)
      <4>1. cfg[f] = LastGiven(opts, f, "")
        BY <1>3 DEF TemplatePlain
      <4> QED BY <1>1, <4>1, GivenAsked
    <3> QED BY <2>2, <3>1
  <2>4. q.env = AskedField("env") \ {NoMap}
    BY <1>1, <1>3, <2>2, GivenAsked
  <2>5. q.tags = AskedTags
    BY <1>1, <2>2, TagsAsked
  <2>6. TemplateAsAsked(q)
    BY <1>4, <1>5, <1>6, <1>8, <2>2, <2>3, <2>4, <2>5 DEF TemplateAsAsked
  <2> QED BY <2>1, <2>6
<1> QED BY <1>7, <1>8

\* The runtime a Create sends is the one the calls of its spec ask for, and they
\* ask for nothing else.
LEMMA DirectAsked ==
  ASSUME NEW h, IsSeq(h), DirectOk(Asked(h))
  PROVE  /\ AsksOnlyRuntime(h)
         /\ Asked(h).runtime = {AskedRuntime(h)}
         /\ EnsureRuntime(Direct(Asked(h))) = [AskedRuntime(h) EXCEPT !.entry = {AskedEntry(h)}]
         /\ Direct(Asked(h)).runtime # {}
<1>1. PICK p : p = Asked(h)
  OBVIOUS
<1>2. RuntimeOnly(p) /\ Validate(p) /\ p.runtime # {}
  BY <1>1 DEF DirectOk
<1>3. /\ p.base = LastGiven(h, "base", defaultTemplateSpecProto.base) /\ p.context = LastGiven(h, "context", "")
      /\ p.workdir = LastGiven(h, "workdir", "") /\ p.build = Merged(h, "build")
      /\ p.resources = LastGiven(h, "resources", "") /\ p.steps = AskedSteps(h)
      /\ p.runtime = IF AsksRuntime(h) THEN {AskedRuntime(h)} ELSE {}
  BY <1>1 DEF Asked, AskedSteps, StepOf
<1>4. p.runtime = {AskedRuntime(h)}
  BY <1>2, <1>3
<1>5. AsksOnlyRuntime(h)
  <2>1. Givers(h, "step") = {}
    <3>1. IsFiniteSet(Givers(h, "step"))
      BY GiversFacts
    <3>2. Cardinality(Givers(h, "step")) \in Nat /\ DOMAIN AskedSteps(h) = 1..Cardinality(Givers(h, "step"))
      BY <3>1, FS_CardinalityType DEF AskedSteps
    <3>3. DOMAIN AskedSteps(h) = {}
      <4>1. AskedSteps(h) = <<>>
        BY <1>2, <1>3 DEF RuntimeOnly
      <4>2. DOMAIN <<>> = {}
        OBVIOUS
      <4> QED BY <4>1, <4>2
    <3>4. Cardinality(Givers(h, "step")) = 0
      BY <3>2, <3>3
    <3> QED BY <3>1, <3>4, FS_EmptySet
  <2>2. p.base.id = "sandbox"
    <3>1. p.base = [kind |-> "image", id |-> "sandbox"]
      BY <1>2 DEF RuntimeOnly
    <3> QED BY <3>1
  <2>3. defaultTemplateSpecProto.base = [kind |-> "image", id |-> "sandbox"]
    BY DEF defaultTemplateSpecProto
  <2> QED BY <1>2, <1>3, <2>1, <2>2, <2>3 DEF AsksOnlyRuntime, RuntimeOnly
<1>6. PICK r : r = AskedRuntime(h)
  OBVIOUS
<1>7. r.entry = AskedEntries(h) /\ r.entry # {}
  BY <1>2, <1>4, <1>6 DEF Validate, RuntimeOk, AskedRuntime, AskedEntries
<1>8. PICK e : e = LastGiven(h, "entry", {})
  OBVIOUS
<1>9. r.entry = {e}
  <2>1. Givers(h, "entry") # {}
    BY <1>7 DEF AskedEntries
  <2>2. Max(Givers(h, "entry")) \in Givers(h, "entry")
    BY <2>1, GiversFacts
  <2>3. e = h[Max(Givers(h, "entry"))].gives.entry
    BY <1>8, <2>1 DEF LastGiven
  <2> QED BY <1>7, <2>2, <2>3 DEF AskedEntries
<1>10. AskedEntry(h) = [e EXCEPT !.workdir = IF @ = "" THEN p.workdir ELSE @]
  BY <1>3, <1>8 DEF AskedEntry
<1>11. {[x EXCEPT !.workdir = IF @ = "" THEN p.workdir ELSE @] : x \in r.entry} = {AskedEntry(h)}
  <2> DEFINE F(x) == [x EXCEPT !.workdir = IF @ = "" THEN p.workdir ELSE @]
  <2>1. AskedEntry(h) = F(e)
    BY <1>10
  <2>2. {F(x) : x \in r.entry} = {F(e)}
    <3> HIDE DEF F
    <3> QED BY <1>9
  <2> QED BY <2>1, <2>2
<1>12. Direct(p).runtime = {[r EXCEPT !.entry = {AskedEntry(h)}]}
  <2>1. DOMAIN p = {"base", "context", "workdir", "build", "steps", "runtime", "resources"}
    BY <1>1 DEF Asked
  <2>2. Direct(p).runtime =
          {[x EXCEPT !.entry = {[y EXCEPT !.workdir = IF @ = "" THEN p.workdir ELSE @] : y \in @}] : x \in p.runtime}
    BY <2>1 DEF Direct
  <2>3. Direct(p).runtime =
          {[r EXCEPT !.entry = {[y EXCEPT !.workdir = IF @ = "" THEN p.workdir ELSE @] : y \in r.entry}]}
    BY <1>4, <1>6, <2>2
  <2> QED BY <1>11, <2>3
<1>13. EnsureRuntime(Direct(p)) = [r EXCEPT !.entry = {AskedEntry(h)}]
  BY <1>12 DEF EnsureRuntime
<1> QED BY <1>1, <1>4, <1>5, <1>6, <1>12, <1>13

LEMMA CreateCfg ==
  ASSUME NEW cfg, CreateFits(cfg, opts)
  PROVE  /\ \A f \in {"image", "snapshot", "template", "files", "tailnet"} : cfg[f] = LastGiven(opts, f, "")
         /\ \A f \in {"cpu", "memory"} : cfg[f] = LastGiven(opts, f, DefaultRes)
         /\ \A f \in {"noTailnet", "waitForRuntime"} : cfg[f] = LastGiven(opts, f, FALSE)
         /\ cfg.runtime = LastGiven(opts, "runtime", 0)
         /\ cfg.waitReady = LastGiven(opts, "waitReady", TRUE)
         /\ cfg.waitTimeout = LastGiven(opts, "waitTimeout", WaitDefault)
<1>1. PICK d : d = defaultCreateConfig
  OBVIOUS
<1>2. /\ \A f \in {"image", "snapshot", "template", "files", "tailnet"} : d[f] = ""
      /\ \A f \in {"cpu", "memory"} : d[f] = DefaultRes
      /\ \A f \in {"noTailnet", "waitForRuntime"} : d[f] = FALSE
      /\ d.runtime = 0 /\ d.waitReady = TRUE /\ d.waitTimeout = WaitDefault
  <2>1. d.image = "" /\ d.snapshot = "" /\ d.template = "" /\ d.files = "" /\ d.tailnet = ""
    BY <1>1 DEF defaultCreateConfig
  <2>2. d.cpu = DefaultRes /\ d.memory = DefaultRes /\ d.runtime = 0
    BY <1>1 DEF defaultCreateConfig
  <2>3. d.noTailnet = FALSE /\ d.waitForRuntime = FALSE
    BY <1>1 DEF defaultCreateConfig
  <2>4. d.waitReady = TRUE /\ d.waitTimeout = WaitDefault
    BY <1>1 DEF defaultCreateConfig
  <2> QED BY <2>1, <2>2, <2>3, <2>4
<1>3. \A f \in CreateLast : cfg[f] = LastGiven(opts, f, d[f])
  BY <1>1 DEF CreateFits
<1>4. {"image", "snapshot", "template", "files", "tailnet", "cpu", "memory", "noTailnet",
       "waitForRuntime", "runtime", "waitReady", "waitTimeout"} \subseteq CreateLast
  BY DEF CreateLast, CreatePlain
<1>5. \A f \in {"image", "snapshot", "template", "files", "tailnet"} : cfg[f] = LastGiven(opts, f, "")
  BY <1>2, <1>3, <1>4
<1>6. \A f \in {"cpu", "memory"} : cfg[f] = LastGiven(opts, f, DefaultRes)
  BY <1>2, <1>3, <1>4
<1>7. \A f \in {"noTailnet", "waitForRuntime"} : cfg[f] = LastGiven(opts, f, FALSE)
  BY <1>2, <1>3, <1>4
<1>8. cfg.runtime = LastGiven(opts, "runtime", 0)
  BY <1>2, <1>3, <1>4
<1>9. cfg.waitReady = LastGiven(opts, "waitReady", TRUE) /\ cfg.waitTimeout = LastGiven(opts, "waitTimeout", WaitDefault)
  BY <1>2, <1>3, <1>4
<1> QED BY <1>5, <1>6, <1>7, <1>8, <1>9

\* The egress policy is made of the parts given last.
LEMMA EgressAsked ==
  ASSUME NEW cfg, CreateFits(cfg, opts)
  PROVE  Egress(cfg) = {[f \in DOMAIN NoEgress |-> LastGiven(opts, f, NoEgress[f])]} \ {NoEgress}
<1>1. DOMAIN NoEgress = {"domains", "cidrs", "ports", "rules", "intercept"}
  BY DEF NoEgress
<1>2. \A f \in DOMAIN NoEgress : f \in CreateLast /\ defaultCreateConfig[f] = NoEgress[f]
  <2>1. \A f \in DOMAIN NoEgress : f \in CreateLast
    BY <1>1 DEF CreateLast, CreatePlain
  <2>2. /\ NoEgress.domains = {} /\ NoEgress.cidrs = {} /\ NoEgress.ports = {} /\ NoEgress.rules = {}
        /\ NoEgress.intercept = FALSE
    BY DEF NoEgress
  <2>3. /\ defaultCreateConfig.domains = {} /\ defaultCreateConfig.cidrs = {}
        /\ defaultCreateConfig.ports = {} /\ defaultCreateConfig.rules = {}
        /\ defaultCreateConfig.intercept = FALSE
    BY DEF defaultCreateConfig
  <2> QED BY <1>1, <2>1, <2>2, <2>3
<1>3. \A f \in DOMAIN NoEgress : cfg[f] = LastGiven(opts, f, NoEgress[f])
  BY <1>2 DEF CreateFits
<1>4. [f \in DOMAIN NoEgress |-> cfg[f]] = [f \in DOMAIN NoEgress |-> LastGiven(opts, f, NoEgress[f])]
  BY <1>3
<1> QED BY <1>4 DEF Egress

\* A size that is an int32 is converted to itself.
LEMMA Int32Same ==
  ASSUME NEW n, IsInt32(n)
  PROVE  Int32(n) = n
<1>1. Word \in Nat /\ Half \in Nat /\ 2 * Half <= Word
  BY TemplateSpecAssumption DEF Half
<1>2. n \in Int /\ -Half <= n /\ n <= Half - 1
  BY <1>1 DEF IsInt32
<1>3. n + Half \in Nat /\ n + Half < Word
  BY <1>1, <1>2
<1>4. (n + Half) % Word = n + Half
  BY <1>1, <1>3, RemainderSmall
<1> QED BY <1>1, <1>2, <1>4 DEF Int32

\* A set of at most one has an image of at most one.
LEMMA AtMostOne ==
  ASSUME NEW cfg, Cardinality(Sources(cfg)) <= 1
  PROVE  Cardinality({<<f, cfg[f]>> : f \in Sources(cfg)}) <= 1
<1>1. PICK S : S = Sources(cfg)
  OBVIOUS
<1>2. IsFiniteSet(S)
  <2>1. IsFiniteSet({"image"}) /\ IsFiniteSet({"snapshot"}) /\ IsFiniteSet({"template"})
    BY FS_Singleton
  <2>2. IsFiniteSet(({"image"} \cup {"snapshot"}) \cup {"template"})
    BY <2>1, FS_Union
  <2>3. S \in SUBSET (({"image"} \cup {"snapshot"}) \cup {"template"})
    BY <1>1 DEF Sources
  <2> QED BY <2>2, <2>3, FS_Subset
<1>3. Cardinality(S) \in Nat
  BY <1>2, FS_CardinalityType
<1>4. Cardinality(S) = 0 \/ Cardinality(S) = 1
  BY <1>1, <1>3
<1>5. CASE Cardinality(S) = 0
  <2>1. S = {}
    BY <1>2, <1>5, FS_EmptySet
  <2>2. {<<f, cfg[f]>> : f \in S} = {}
    BY <2>1
  <2> QED BY <1>1, <2>2, FS_EmptySet
<1>6. CASE Cardinality(S) = 1
  <2>1. PICK x : S = {x}
    BY <1>2, <1>6, FS_Singleton
  <2>2. {<<f, cfg[f]>> : f \in S} = {<<x, cfg[x]>>}
    BY <2>1
  <2>3. Cardinality({<<x, cfg[x]>>}) = 1
    BY FS_Singleton
  <2> QED BY <1>1, <2>2, <2>3
<1> QED BY <1>4, <1>5, <1>6

\* The parts of a Create that do not depend on the runtime it sends.
CreatePartAsked(q) ==
  /\ q.source = {<<f, LastGiven(opts, f, "")>> : f \in AskedSources} /\ Cardinality(q.source) <= 1
  /\ \A f \in Resource :
       IF Givers(opts, f) # {}
       THEN f # "disk" \/ IsInt32(LastGiven(opts, f, 0)) => q.resources[f] = {LastGiven(opts, f, 0)}
       ELSE q.resources[f] = IF AskedSources = {} THEN {DefaultRes} ELSE {}
  /\ q.env = Merged(opts, "env")
  /\ q.files = LastGiven(opts, "files", "")
  /\ q.egress = {[f \in DOMAIN NoEgress |-> LastGiven(opts, f, NoEgress[f])]} \ {NoEgress}
  /\ q.tailnet = LastGiven(opts, "tailnet", "")
  /\ q.disableTailnet = LastGiven(opts, "noTailnet", FALSE) /\ (q.disableTailnet => q.tailnet = "")
  /\ q.openCode = AskedOpenCode
  /\ q.waits = IF ~LastGiven(opts, "waitReady", TRUE) /\ ~q.waitForRuntime THEN 0
               ELSE LastGiven(opts, "waitTimeout", IF "template" \in AskedSources THEN SpecWaitDefault ELSE WaitDefault)

\* What goes out of a Create.
LEMMA CreateSays ==
  ASSUME OptsNow, NEW cfg, CreateFits(cfg, opts), CreateOk(cfg), NEW a, NEW q, q = CreateRequest(cfg, a)
  PROVE  CreatePartAsked(q)
<1>1. /\ q.source = {<<f, cfg[f]>> : f \in Sources(cfg)} /\ q.resources = CreateResources(cfg)
      /\ q.env = cfg.env /\ q.files = cfg.files
      /\ q.egress = Egress(cfg)
      /\ q.openCode = cfg.openCode /\ q.tailnet = cfg.tailnet /\ q.disableTailnet = cfg.noTailnet
      /\ q.waitForRuntime = cfg.waitForRuntime
      /\ q.waits = (IF cfg.waitReady \/ cfg.waitForRuntime THEN effectiveCreateWaitTimeout(cfg) ELSE 0)
  BY DEF CreateRequest
<1>2. /\ \A f \in {"image", "snapshot", "template", "files", "tailnet"} : cfg[f] = LastGiven(opts, f, "")
      /\ \A f \in {"cpu", "memory"} : cfg[f] = LastGiven(opts, f, DefaultRes)
      /\ \A f \in {"noTailnet", "waitForRuntime"} : cfg[f] = LastGiven(opts, f, FALSE)
      /\ cfg.runtime = LastGiven(opts, "runtime", 0)
      /\ cfg.waitReady = LastGiven(opts, "waitReady", TRUE)
      /\ cfg.waitTimeout = LastGiven(opts, "waitTimeout", WaitDefault)
  BY CreateCfg
<1>3. \A f : f \in cfg.set <=> Givers(opts, f) # {}
  BY DEF CreateFits, SetFits
<1>4. Sources(cfg) = AskedSources
  BY <1>2 DEF Sources, AskedSources
<1>5. q.source = {<<f, LastGiven(opts, f, "")>> : f \in AskedSources}
  <2>1. \A f \in AskedSources : cfg[f] = LastGiven(opts, f, "")
    BY <1>2 DEF AskedSources
  <2>2. {<<f, cfg[f]>> : f \in AskedSources} = {<<f, LastGiven(opts, f, "")>> : f \in AskedSources}
    BY <2>1
  <2> QED BY <1>1, <1>4, <2>2
<1>6. Cardinality(q.source) <= 1
  BY <1>1, AtMostOne DEF CreateOk
<1>7. ASSUME NEW f \in Resource
      PROVE  IF Givers(opts, f) # {}
             THEN f # "disk" \/ IsInt32(LastGiven(opts, f, 0)) => q.resources[f] = {LastGiven(opts, f, 0)}
             ELSE q.resources[f] = IF AskedSources = {} THEN {DefaultRes} ELSE {}
  <2>1. q.resources[f] = IF AskedSources = {} \/ Givers(opts, f) # {} THEN {cfg[f]} ELSE {}
    BY <1>1, <1>3, <1>4 DEF CreateResources
  <2>2. CASE f = "disk"
    <3>1. cfg[f] = IF Givers(opts, f) = {} THEN DefaultRes ELSE Int32(LastGiven(opts, f, 0))
      BY <2>2 DEF CreateFits
    <3>2. ASSUME IsInt32(LastGiven(opts, f, 0)) PROVE Int32(LastGiven(opts, f, 0)) = LastGiven(opts, f, 0)
      BY <3>2, Int32Same
    <3>3. CASE Givers(opts, f) = {}
      BY <2>1, <3>1, <3>3
    <3>4. CASE Givers(opts, f) # {}
      <4>1. q.resources[f] = {Int32(LastGiven(opts, f, 0))}
        BY <2>1, <3>1, <3>4
      <4> QED BY <2>2, <3>2, <3>4, <4>1
    <3> QED BY <3>3, <3>4
  <2>3. CASE f \in {"cpu", "memory"}
    <3>1. cfg[f] = LastGiven(opts, f, DefaultRes)
      BY <1>2, <2>3
    <3>2. Givers(opts, f) = {} => cfg[f] = DefaultRes
      BY <3>1, NotGiven
    <3>3. Givers(opts, f) # {} => cfg[f] = LastGiven(opts, f, 0)
      BY <3>1, LastOtherwise
    <3> QED BY <2>1, <3>2, <3>3
  <2> QED BY <2>2, <2>3 DEF Resource
<1>8. q.env = Merged(opts, "env") /\ q.files = LastGiven(opts, "files", "")
  BY <1>1, <1>2 DEF CreateFits
<1>9. q.egress = {[f \in DOMAIN NoEgress |-> LastGiven(opts, f, NoEgress[f])]} \ {NoEgress}
  BY <1>1, EgressAsked
<1>10. q.tailnet = LastGiven(opts, "tailnet", "") /\ q.disableTailnet = LastGiven(opts, "noTailnet", FALSE)
  BY <1>1, <1>2
<1>11. q.disableTailnet => q.tailnet = ""
  BY <1>1 DEF CreateOk, TailnetOk
<1>12. q.openCode = AskedOpenCode
  <2>1. cfg.openCode = OpenCodeOf(opts)
    BY DEF CreateFits
  <2>2. OpenCodeOf(opts) = AskedOpenCode
    BY DEF OpenCodeOf, OpenCodeAsks, AsksOpenCode, AskedOpenCode
  <2> QED BY <1>1, <2>1, <2>2
<1>13. effectiveCreateWaitTimeout(cfg)
         = LastGiven(opts, "waitTimeout", IF "template" \in AskedSources THEN SpecWaitDefault ELSE WaitDefault)
  <2>1. cfg.template # "" <=> "template" \in AskedSources
    BY <1>2 DEF AskedSources
  <2>2. CASE Givers(opts, "waitTimeout") = {}
    <3>1. \A x : LastGiven(opts, "waitTimeout", x) = x
      BY <2>2, NotGiven
    <3>2. cfg.waitTimeout = WaitDefault /\ "waitTimeout" \notin cfg.set
      BY <1>2, <1>3, <2>2, <3>1
    <3> QED BY <2>1, <3>1, <3>2 DEF effectiveCreateWaitTimeout
  <2>3. CASE Givers(opts, "waitTimeout") # {}
    <3>1. \A x, y : LastGiven(opts, "waitTimeout", x) = LastGiven(opts, "waitTimeout", y)
      BY <2>3, LastOtherwise
    <3>2. cfg.waitTimeout = LastGiven(opts, "waitTimeout", WaitDefault) /\ "waitTimeout" \in cfg.set
      BY <1>2, <1>3, <2>3
    <3>3. effectiveCreateWaitTimeout(cfg) = cfg.waitTimeout
      BY <3>2 DEF effectiveCreateWaitTimeout
    <3> QED BY <3>1, <3>2, <3>3
  <2> QED BY <2>2, <2>3
<1>14. q.waits = IF ~LastGiven(opts, "waitReady", TRUE) /\ ~q.waitForRuntime THEN 0
                 ELSE LastGiven(opts, "waitTimeout", IF "template" \in AskedSources THEN SpecWaitDefault ELSE WaitDefault)
  BY <1>1, <1>2, <1>13
<1> QED BY <1>5, <1>6, <1>7, <1>8, <1>9, <1>10, <1>11, <1>12, <1>14 DEF CreatePartAsked

\* A negative stop grace becomes a number that is over the limit.
LEMMA NegativeGrace ==
  ASSUME NEW k \in Nat, NEW w \in Nat, 0 < k, k < w
  PROVE  (-k) % w = w - k
OBVIOUS

\* A stop grace within the range the property names is not over the limit, although
\* it is converted before it is checked.
LEMMA GraceKept ==
  ASSUME NEW d \in -(2 * Word - 2 * MaxGrace - 2)..(2 * Word - 1), Seconds(d) <= MaxGrace
  PROVE  d > -2 /\ d < 2 * MaxGrace + 2
<1>1. Word \in Nat /\ MaxGrace \in Nat /\ MaxGrace < Word /\ d \in Int
  BY TemplateSpecAssumption
<1>2. CASE d >= 0
  <2>1. PICK k : k = d \div 2
    OBVIOUS
  <2>2. k \in Nat /\ k < Word /\ 2 * k <= d /\ d <= 2 * k + 1
    BY <1>1, <1>2, <2>1
  <2>3. Seconds(d) = k
    <3>1. k % Word = k
      BY <1>1, <2>2, RemainderSmall
    <3> QED BY <1>1, <1>2, <2>1, <3>1 DEF Seconds
  <2> QED BY <1>1, <1>2, <2>2, <2>3
<1>3. CASE d < 0
  <2>1. PICK k : k = (-d) \div 2
    OBVIOUS
  <2>2. k \in Nat /\ k < Word - MaxGrace /\ 2 * k <= -d /\ -d <= 2 * k + 1
    BY <1>1, <1>3, <2>1
  <2>3. Seconds(d) = (-k) % Word
    BY <1>1, <1>3, <2>1 DEF Seconds
  <2>4. k = 0
    <3> SUFFICES ASSUME k # 0 PROVE FALSE
      OBVIOUS
    <3>1. 0 < k /\ k < Word
      BY <1>1, <2>2
    <3>2. (-k) % Word = Word - k
      BY <1>1, <2>2, <3>1, NegativeGrace
    <3> QED BY <1>1, <2>2, <2>3, <3>2
  <2> QED BY <1>1, <1>3, <2>2, <2>4
<1> QED BY <1>1, <1>2, <1>3

\* What Validate lets pass, in terms of the calls.
LEMMA ValidIsSound ==
  ASSUME NEW h, IsSeq(h), Validate(Asked(h))
  PROVE  /\ DOMAIN LastGiven(h, "secretEnv", NoMap) \cap DOMAIN Merged(h, "env") = {}
         /\ (LastGiven(h, "mode", "") = "memory" \/ LastGiven(h, "runAt", "") = "build") => Givers(h, "ready") # {}
         /\ LET grace == LastGiven(h, "grace", 0) IN
            grace \in -(2 * Word - 2 * MaxGrace - 2)..(2 * Word - 1) => grace > -2 /\ grace < 2 * MaxGrace + 2
         /\ Asked(h).runtime = {} => DOMAIN LastGiven(h, "secretEnv", NoMap) = {}
<1>1. Asked(h).runtime = IF AsksRuntime(h) THEN {AskedRuntime(h)} ELSE {}
  BY DEF Asked
<1>2. PICK r : r = AskedRuntime(h)
  OBVIOUS
<1>3. /\ r.secretEnv = LastGiven(h, "secretEnv", NoMap) /\ r.env = Merged(h, "env")
      /\ r.mode = ToProto("mode", LastGiven(h, "mode", "")) /\ r.runAt = ToProto("runAt", LastGiven(h, "runAt", ""))
      /\ r.ready = (IF Givers(h, "ready") = {} THEN {} ELSE {readyWhenToProto(LastGiven(h, "ready", {}))})
      /\ r.grace = Seconds(LastGiven(h, "grace", 0))
  BY <1>2 DEF AskedRuntime
<1>4. DOMAIN NoMap = {}
  BY DEF NoMap
<1>5. CASE AsksRuntime(h)
  <2>1. RuntimeOk(r)
    BY <1>1, <1>2, <1>5 DEF Validate
  <2>2. DOMAIN LastGiven(h, "secretEnv", NoMap) \cap DOMAIN Merged(h, "env") = {}
    BY <1>3, <2>1 DEF RuntimeOk
  <2>3. ToProto("mode", "memory") = "MODE_MEMORY" /\ ToProto("runAt", "build") = "RUN_AT_BUILD" /\ "MODE_MEMORY" # Unspecified
    BY DEF ToProto, Enums, Unspecified
  <2>4. (LastGiven(h, "mode", "") = "memory" \/ LastGiven(h, "runAt", "") = "build") => r.runAt = "RUN_AT_BUILD"
    BY <1>3, <2>1, <2>3 DEF RuntimeOk
  <2>5. (LastGiven(h, "mode", "") = "memory" \/ LastGiven(h, "runAt", "") = "build") => Givers(h, "ready") # {}
    BY <1>3, <2>1, <2>4 DEF RuntimeOk
  <2>6. PICK grace : grace = LastGiven(h, "grace", 0)
    OBVIOUS
  <2>7. grace \in -(2 * Word - 2 * MaxGrace - 2)..(2 * Word - 1) => grace > -2 /\ grace < 2 * MaxGrace + 2
    <3>1. Seconds(grace) <= MaxGrace
      BY <1>3, <2>1, <2>6 DEF RuntimeOk, GraceOk
    <3> QED BY <3>1, GraceKept
  <2> QED BY <1>1, <1>5, <2>2, <2>5, <2>6, <2>7
<1>6. CASE ~AsksRuntime(h)
  <2>1. \A f \in RuntimeFields : Givers(h, f) = {}
    BY <1>6 DEF AsksRuntime
  <2>2. \A f \in RuntimeFields : \A x : LastGiven(h, f, x) = x
    BY <2>1, NotGiven
  <2>3. /\ LastGiven(h, "secretEnv", NoMap) = NoMap /\ LastGiven(h, "mode", "") = ""
        /\ LastGiven(h, "runAt", "") = "" /\ LastGiven(h, "grace", 0) = 0
    BY <2>2 DEF RuntimeFields
  <2>4. MaxGrace \in Nat /\ 0 > -2 /\ 0 < 2 * MaxGrace + 2
    BY TemplateSpecAssumption
  <2> QED BY <1>4, <2>3, <2>4
<1> QED BY <1>5, <1>6

\* What is sent of a spec, by its calls.
SoundCalls(h) ==
  /\ DOMAIN LastGiven(h, "secretEnv", NoMap)
       \cap (DOMAIN Merged(h, "env") \cup DOMAIN Merged(opts, "env")) = {}
  /\ (LastGiven(h, "mode", "") = "memory" \/ LastGiven(h, "runAt", "") = "build") => Givers(h, "ready") # {}
  /\ LET grace == LastGiven(h, "grace", 0) IN
     grace \in -(2 * Word - 2 * MaxGrace - 2)..(2 * Word - 1) => grace > -2 /\ grace < 2 * MaxGrace + 2

\* The direct runtime of a Create against its own and the session's environment.
LEMMA CreateSound ==
  ASSUME OptsNow, NEW cfg, CreateFits(cfg, opts), CreateOk(cfg), NEW i \in AskedField("runtime")
  PROVE  /\ SoundCalls(hist[i]) /\ i = cfg.runtime /\ cfg.runtime # 0
         /\ DirectOk(Asked(hist[i])) /\ Load(specs[i]) = Asked(hist[i]) /\ IsSeq(hist[i])
<1>1. cfg.runtime = LastGiven(opts, "runtime", 0)
  BY CreateCfg
<1>2. i = cfg.runtime /\ cfg.runtime # 0 /\ Load(specs[i]) = Asked(hist[i]) /\ IsSeq(hist[i])
  BY <1>1, AskedSpec
<1>3. PICK h : h = hist[i]
  OBVIOUS
<1>4. DirectOk(Asked(h)) /\ ~EnvConflict(cfg) /\ IsSeq(h)
  BY <1>2, <1>3 DEF CreateOk
<1>5. Asked(h).runtime = {AskedRuntime(h)} /\ Validate(Asked(h))
  BY <1>4, DirectAsked DEF DirectOk
<1>6. DOMAIN LastGiven(h, "secretEnv", NoMap) \cap DOMAIN cfg.env = {}
  <2>1. AskedRuntime(h) \in Load(specs[cfg.runtime]).runtime
    BY <1>2, <1>3, <1>5
  <2>2. DOMAIN AskedRuntime(h).secretEnv \cap DOMAIN cfg.env = {}
    BY <1>2, <1>4, <2>1 DEF EnvConflict
  <2>3. AskedRuntime(h).secretEnv = LastGiven(h, "secretEnv", NoMap)
    BY DEF AskedRuntime
  <2> QED BY <2>2, <2>3
<1>7. cfg.env = Merged(opts, "env")
  BY DEF CreateFits
<1>8. SoundCalls(h)
  <2>1. /\ DOMAIN LastGiven(h, "secretEnv", NoMap) \cap DOMAIN Merged(h, "env") = {}
        /\ (LastGiven(h, "mode", "") = "memory" \/ LastGiven(h, "runAt", "") = "build") => Givers(h, "ready") # {}
        /\ LET grace == LastGiven(h, "grace", 0) IN
           grace \in -(2 * Word - 2 * MaxGrace - 2)..(2 * Word - 1) => grace > -2 /\ grace < 2 * MaxGrace + 2
    BY <1>4, <1>5, ValidIsSound
  <2>2. DOMAIN LastGiven(h, "secretEnv", NoMap)
          \cap (DOMAIN Merged(h, "env") \cup DOMAIN Merged(opts, "env")) = {}
    BY <1>6, <1>7, <2>1
  <2> QED BY <2>1, <2>2 DEF SoundCalls
<1> QED BY <1>2, <1>3, <1>4, <1>8

\* The spec of a template; it has no environment next to it.
LEMMA TemplateSound ==
  ASSUME OptsNow, NEW cfg, TemplateFits(cfg, opts), TemplateOk(cfg), NEW i \in AskedField("spec")
  PROVE  SoundCalls(hist[i])
<1>1. cfg.spec = LastGiven(opts, "spec", 0)
  <2>1. PICK d : d = defaultTemplateConfig
    OBVIOUS
  <2>2. d.spec = 0
    BY <2>1 DEF defaultTemplateConfig
  <2>3. "spec" \in TemplateLast /\ \A f \in TemplateLast : cfg[f] = LastGiven(opts, f, d[f])
    BY <2>1 DEF TemplateFits, TemplateLast
  <2> QED BY <2>2, <2>3
<1>2. i = cfg.spec /\ cfg.spec # 0 /\ Load(specs[i]) = Asked(hist[i]) /\ IsSeq(hist[i])
  BY <1>1, AskedSpec
<1>3. PICK h : h = hist[i]
  OBVIOUS
<1>4. Validate(Asked(h)) /\ IsSeq(h) /\ cfg.set \cap LegacyFields = {}
  BY <1>2, <1>3 DEF TemplateOk, LegacyConflict
<1>5. DOMAIN Merged(opts, "env") = {}
  <2>1. Givers(opts, "env") = {}
    BY <1>4 DEF LegacyFields, TemplateFits, SetFits
  <2> QED BY <2>1 DEF Merged
<1>6. /\ DOMAIN LastGiven(h, "secretEnv", NoMap) \cap DOMAIN Merged(h, "env") = {}
      /\ (LastGiven(h, "mode", "") = "memory" \/ LastGiven(h, "runAt", "") = "build") => Givers(h, "ready") # {}
      /\ LET grace == LastGiven(h, "grace", 0) IN
         grace \in -(2 * Word - 2 * MaxGrace - 2)..(2 * Word - 1) => grace > -2 /\ grace < 2 * MaxGrace + 2
  BY <1>4, ValidIsSound
<1>7. DOMAIN LastGiven(h, "secretEnv", NoMap)
        \cap (DOMAIN Merged(h, "env") \cup DOMAIN Merged(opts, "env")) = {}
  BY <1>5, <1>6
<1>8. SoundCalls(h)
  BY <1>6, <1>7 DEF SoundCalls
<1> QED BY <1>3, <1>8

\* Everything a request promises, once it has gone out.
RequestInv == OptsInv /\ SpecInv /\ RequestAsAsked /\ SentIsSound

\* Submit, by operation.
LEMMA CreateSends ==
  ASSUME OptsInv, SpecInv, api = "Create", Create, UNCHANGED <<api, opts>>
  PROVE  (RequestAsAsked /\ SentIsSound)'
<1>1. PICK cfg : cfg = Config(defaultCreateConfig)
  OBVIOUS
<1>2. OptsNow
  BY DEF OptsNow, Special
<1>3. CreateFits(cfg, opts)
  <2>1. Fits(Config(Default), opts)
    BY ConfigFits DEF OptsInv
  <2> QED BY <1>1, <2>1 DEF Fits, Default
<1>4. UNCHANGED <<specs, hist>>
  BY DEF Create, Refuse, specVars
<1>5. CASE ~CreateOk(cfg)
  <2>1. sent' = {}
    BY <1>1, <1>5 DEF Create, Refuse
  <2> QED BY <2>1 DEF RequestAsAsked, SentIsSound, SentCalls
<1>6. CASE CreateOk(cfg)
  <2>1. PICK a : /\ sent' = {CreateRequest(cfg, a)}
                 /\ IF cfg.runtime = 0 THEN a = 0
                    ELSE a = Len(heap) + 1 /\ heap' = Written(Direct(Load(specs[cfg.runtime])), a)
    BY <1>1, <1>6 DEF Create, Send, CloneAt
  <2>2. PICK q : q = CreateRequest(cfg, a)
    OBVIOUS
  <2>3. ASSUME NEW i \in AskedField("runtime")
        PROVE  /\ SoundCalls(hist[i]) /\ AsksOnlyRuntime(hist[i])
               /\ heap'[q.runtime] = [AskedRuntime(hist[i]) EXCEPT !.entry = {AskedEntry(hist[i])}]
    <3>1. /\ SoundCalls(hist[i]) /\ i = cfg.runtime /\ cfg.runtime # 0
          /\ DirectOk(Asked(hist[i])) /\ Load(specs[i]) = Asked(hist[i]) /\ IsSeq(hist[i])
      BY <1>2, <1>3, <1>6, CreateSound
    <3>2. /\ AsksOnlyRuntime(hist[i])
          /\ EnsureRuntime(Direct(Asked(hist[i]))) = [AskedRuntime(hist[i]) EXCEPT !.entry = {AskedEntry(hist[i])}]
          /\ Direct(Asked(hist[i])).runtime # {}
      BY <3>1, DirectAsked
    <3>3. a = Len(heap) + 1 /\ heap' = Written(Direct(Asked(hist[i])), Len(heap) + 1) /\ IsSeq(heap)
      BY <2>1, <3>1 DEF SpecInv
    <3>4. heap'[a] = EnsureRuntime(Direct(Asked(hist[i])))
      BY <3>2, <3>3, WrittenFacts
    <3>5. q.runtime = a
      BY <2>2 DEF CreateRequest
    <3> QED BY <3>1, <3>2, <3>4, <3>5
  <2>4. q.runtime # 0 <=> AskedField("runtime") # {}
    <3>1. q.runtime = a
      BY <2>2 DEF CreateRequest
    <3>2. AskedField("runtime") = {} <=> cfg.runtime = 0
      BY <1>2, <1>3, AskedSpec, CreateCfg
    <3>3. Len(heap) + 1 # 0
      BY SeqFacts DEF SpecInv
    <3> QED BY <2>1, <3>1, <3>2, <3>3
  <2>5. CreateAsAsked(q)'
    <3>1. CreateOk(cfg) /\ CreateFits(cfg, opts) /\ OptsNow /\ q = CreateRequest(cfg, a)
      BY <1>2, <1>3, <1>6, <2>2
    <3>2. CreatePartAsked(q)
      BY <3>1, CreateSays
    <3>3. AskedSources' = AskedSources /\ AskedOpenCode' = AskedOpenCode /\ AskedField("runtime")' = AskedField("runtime")
      BY DEF AskedSources, AskedOpenCode, AskedField
    <3> QED BY <1>4, <2>3, <2>4, <3>2, <3>3 DEF CreateAsAsked, CreatePartAsked
  <2>6. RequestAsAsked'
    BY <2>1, <2>2, <2>5 DEF RequestAsAsked
  <2>7. SentIsSound'
    <3>1. AskedField("runtime")' = AskedField("runtime") /\ AskedField("spec")' = AskedField("spec")
      BY DEF AskedField
    <3>2. AskedField("spec") = {}
      BY <1>2, AskedOnly
    <3>3. \A h \in SentCalls' : \E i \in AskedField("runtime") : h = hist[i]
      BY <1>4, <2>1, <3>1, <3>2 DEF SentCalls
    <3>4. \A h \in SentCalls' : SoundCalls(h)
      BY <2>3, <3>3
    <3> QED BY <3>4 DEF SentIsSound, SoundCalls
  <2> QED BY <2>6, <2>7
<1> QED BY <1>5, <1>6

LEMMA TemplateSends ==
  ASSUME OptsInv, SpecInv, UNCHANGED <<api, opts>>,
         \/ api = "CreateTemplate" /\ CreateTemplate
         \/ api = "UpdateTemplate" /\ UpdateTemplate
  PROVE  (RequestAsAsked /\ SentIsSound)'
<1>1. PICK cfg : cfg = Config(defaultTemplateConfig)
  OBVIOUS
<1>2. OptsNow
  BY DEF OptsNow, Special
<1>3. TemplateFits(cfg, opts)
  <2>1. Fits(Config(Default), opts)
    BY ConfigFits DEF OptsInv
  <2>2. Default = defaultTemplateConfig
    BY DEF Default, UpdateApis
  <2> QED BY <1>1, <2>1, <2>2 DEF Fits
<1>4. UNCHANGED <<specs, hist, heap>>
  BY DEF CreateTemplate, UpdateTemplate, Refuse, specVars
<1>5. CASE ~TemplateOk(cfg)
  <2>1. sent' = {}
    BY <1>1, <1>5 DEF CreateTemplate, UpdateTemplate, Refuse
  <2> QED BY <2>1 DEF RequestAsAsked, SentIsSound, SentCalls
<1>6. CASE TemplateOk(cfg)
  <2>1. PICK q : sent' = {q} /\ TemplateAsAsked(q)
    BY <1>1, <1>2, <1>3, <1>6, TemplateSays DEF CreateTemplate, UpdateTemplate, Send
  <2>2. \A f : AskedField(f)' = AskedField(f)
    BY DEF AskedField
  <2>3. TemplateAsAsked(q)'
    BY <1>4, <2>1 DEF TemplateAsAsked, AskedField, AskedSizes, DiskTakenBack, AskedTags
  <2>4. RequestAsAsked'
    BY <2>1, <2>3 DEF RequestAsAsked
  <2>5. SentIsSound'
    <3>1. AskedField("runtime") = {}
      BY <1>2, AskedOnly
    <3>2. \A h \in SentCalls' : \E i \in AskedField("spec") : h = hist[i]
      BY <1>4, <2>1, <2>2, <3>1 DEF SentCalls
    <3>3. \A i \in AskedField("spec") : SoundCalls(hist[i])
      BY <1>2, <1>3, <1>6, TemplateSound
    <3>4. \A h \in SentCalls' : SoundCalls(h)
      BY <3>2, <3>3
    <3> QED BY <3>4 DEF SentIsSound, SoundCalls
  <2> QED BY <2>4, <2>5
<1> QED BY <1>5, <1>6

LEMMA UpdateSends ==
  ASSUME OptsInv, SpecInv, UNCHANGED <<api, opts>>, api \in UpdateApis, Update
  PROVE  (RequestAsAsked /\ SentIsSound)'
<1>1. PICK cfg : cfg = Config(defaultUpdateConfig)
  OBVIOUS
<1>2. OptsNow
  BY DEF OptsNow, Special, UpdateApis
<1>3. UpdateFits(cfg, opts)
  <2>1. Fits(Config(Default), opts)
    BY ConfigFits DEF OptsInv
  <2>2. Default = defaultUpdateConfig
    BY DEF Default, UpdateApis
  <2> QED BY <1>1, <2>1, <2>2 DEF Fits
<1>4. AskedField("runtime") = {} /\ AskedField("spec") = {}
  BY <1>2, AskedOnly DEF UpdateApis
<1>5. CASE ~UpdateOk(cfg)
  <2>1. sent' = {}
    BY <1>1, <1>5 DEF Update, Refuse
  <2> QED BY <2>1 DEF RequestAsAsked, SentIsSound, SentCalls
<1>6. CASE UpdateOk(cfg)
  <2>1. PICK q : sent' = {q} /\ UpdateAsAsked(q)
    BY <1>1, <1>3, <1>6, UpdateSays DEF Update, Send
  <2>2. \A f : AskedField(f)' = AskedField(f)
    BY DEF AskedField
  <2>3. UpdateAsAsked(q)'
    BY <2>1 DEF UpdateAsAsked, AskedField, AskedTags
  <2>4. RequestAsAsked'
    BY <2>1, <2>3 DEF RequestAsAsked, UpdateApis
  <2>5. SentCalls' = {}
    BY <1>4, <2>2 DEF SentCalls
  <2>6. SentIsSound'
    BY <2>5 DEF SentIsSound
  <2> QED BY <2>4, <2>6
<1> QED BY <1>5, <1>6

\* What has been sent stays what was asked for while nothing of it changes.
LEMMA RequestSame ==
  ASSUME RequestAsAsked, SentIsSound, UNCHANGED specVars, UNCHANGED requestVars
  PROVE  (RequestAsAsked /\ SentIsSound)'
<1>1. UNCHANGED <<specs, heap, hist, api, opts, sent, done>>
  BY DEF specVars, requestVars
<1>2. RequestAsAsked'
  <2>1. /\ AskedSources' = AskedSources /\ AskedOpenCode' = AskedOpenCode /\ AskedTags' = AskedTags
        /\ AskedSizes' = AskedSizes /\ \A f : AskedField(f)' = AskedField(f)
    BY <1>1 DEF AskedSources, AskedOpenCode, AskedTags, AskedSizes, DiskTakenBack, AskedField
  <2>2. ASSUME NEW q, CreateAsAsked(q) PROVE CreateAsAsked(q)'
    BY <1>1, <2>1, <2>2 DEF CreateAsAsked
  <2>3. ASSUME NEW q, TemplateAsAsked(q) PROVE TemplateAsAsked(q)'
    BY <1>1, <2>1, <2>3 DEF TemplateAsAsked
  <2>4. ASSUME NEW q, UpdateAsAsked(q) PROVE UpdateAsAsked(q)'
    BY <1>1, <2>1, <2>4 DEF UpdateAsAsked
  <2>5. CASE api = "Create"
    BY <1>1, <2>2, <2>5 DEF RequestAsAsked
  <2>6. CASE api \in {"CreateTemplate", "UpdateTemplate"}
    BY <1>1, <2>3, <2>6 DEF RequestAsAsked
  <2>7. CASE api \notin {"Create", "CreateTemplate", "UpdateTemplate"}
    BY <1>1, <2>4, <2>7 DEF RequestAsAsked
  <2> QED BY <2>5, <2>6, <2>7
<1>3. SentIsSound'
  BY <1>1 DEF SentIsSound, SentCalls, AskedField
<1> QED BY <1>2, <1>3

LEMMA NothingSent ==
  ASSUME sent' = {}
  PROVE  (RequestAsAsked /\ SentIsSound)'
BY DEF RequestAsAsked, SentIsSound, SentCalls

LEMMA RequestStep ==
  ASSUME RequestInv, [Next]_vars
  PROVE  RequestInv'
<1>1. OptsInv' /\ SpecInv' /\ OptsInv /\ SpecInv
  BY OptsStep, SpecStep DEF RequestInv
<1>2. CASE Build
  BY <1>1, <1>2, NothingSent DEF Build, OptsInv, requestVars, RequestInv
<1>3. CASE Give
  BY <1>1, <1>3, NothingSent DEF Give, OptsInv, RequestInv
<1>4. CASE Submit
  <2>1. UNCHANGED <<api, opts>>
    BY <1>4 DEF Submit
  <2>2. CASE api = "Create" /\ Create
    BY <1>1, <2>1, <2>2, CreateSends DEF RequestInv
  <2>3. CASE (api = "CreateTemplate" /\ CreateTemplate) \/ (api = "UpdateTemplate" /\ UpdateTemplate)
    BY <1>1, <2>1, <2>3, TemplateSends DEF RequestInv
  <2>4. CASE api \in UpdateApis /\ Update
    BY <1>1, <2>1, <2>4, UpdateSends DEF RequestInv
  <2> QED BY <1>4, <2>2, <2>3, <2>4 DEF Submit, UpdateApis
<1>5. CASE List
  BY <1>1, <1>5, NothingSent DEF List, OptsInv, RequestInv
<1>6. CASE Listed
  BY <1>1, <1>6, RequestSame DEF Listed, RequestInv
<1>7. CASE UNCHANGED vars
  BY <1>1, <1>7, RequestSame DEF vars, RequestInv
<1> QED BY <1>2, <1>3, <1>4, <1>5, <1>6, <1>7 DEF Next

LEMMA RequestInitial == Init => RequestInv
<1>1. Init => sent = {}
  BY DEF Init
<1>2. sent = {} => RequestAsAsked /\ SentIsSound
  BY DEF RequestAsAsked, SentIsSound, SentCalls
<1> QED BY <1>1, <1>2, OptsInitial, SpecInitial DEF RequestInv

\* A request that goes out says what the options and the calls of its spec say, for
\* any options in any order.
THEOREM RequestCorrect == Spec => []RequestAsAsked
<1>1. RequestInv => RequestAsAsked
  BY DEF RequestInv
<1>2. RequestInv /\ [Next]_vars => RequestInv'
  BY RequestStep
<1> QED BY <1>1, <1>2, RequestInitial, PTL DEF Spec

\* What is sent can be carried out, whatever the environments, the policies and the
\* stop grace its calls and options give.
THEOREM SentCorrect == Spec => []SentIsSound
<1>1. RequestInv => SentIsSound
  BY DEF RequestInv
<1>2. RequestInv /\ [Next]_vars => RequestInv'
  BY RequestStep
<1> QED BY <1>1, <1>2, RequestInitial, PTL DEF Spec
================================================================================
