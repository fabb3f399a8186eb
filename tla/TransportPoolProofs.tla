------------------------- MODULE TransportPoolProofs -------------------------
(***************************************************************************)
(* Proofs about TransportPool for any number of handles, origins and       *)
(* transports: its type invariant, exact reference counts, and that the    *)
(* counted pool implements uncounted leases.                               *)
(***************************************************************************)
EXTENDS TransportPool, FiniteSetTheorems, TLAPS

\* The variables of the pool stay in their types.
THEOREM TypeCorrect == Spec => []TypeOK
<1>1. Init => TypeOK
  BY DEF Init, TypeOK
<1>2. TypeOK /\ [Next]_vars => TypeOK'
  <2> SUFFICES ASSUME TypeOK, [Next]_vars PROVE TypeOK'
    OBVIOUS
  <2> USE PoolAssumption DEF TypeOK, Entry, Closure
  <2>1. ASSUME NEW h \in Handles, NEW o \in Origins, Acquire(h, o) PROVE TypeOK'
    <3>1. PICK t \in Transports :
            /\ pool' = [pool EXCEPT ![o] =
                 [transport |-> t, refs |-> (IF pool[o] = None THEN 0 ELSE pool[o].refs) + 1]]
            /\ handle' = [handle EXCEPT ![h] =
                 [origin |-> o, transport |-> t, spent |-> FALSE]]
      BY <2>1 DEF Acquire
    <3>2. (IF pool[o] = None THEN 0 ELSE pool[o].refs) + 1 \in Int
      OBVIOUS
    <3> QED
      BY <3>1, <3>2
  <2>2. ASSUME NEW h \in Handles, Release(h) PROVE TypeOK'
    <3>1. handle[h] \in Closure /\ handle[h].origin \in Origins
      BY <2>2 DEF Release
    <3>2. AfterRelease(handle[h]) \in Entry \cup {None}
      BY <3>1 DEF AfterRelease, Owns
    <3> QED
      BY <2>2, <3>1, <3>2 DEF Release
  <2>3. ASSUME NEW h \in Handles, Forget(h) PROVE TypeOK'
    BY <2>3 DEF Forget
  <2>4. CASE CloseAll
    BY <2>4 DEF CloseAll
  <2>5. CASE UNCHANGED vars
    BY <2>5 DEF vars
  <2> QED
    BY <2>1, <2>2, <2>3, <2>4, <2>5 DEF Next
<1> QED
  BY <1>1, <1>2, PTL DEF Spec

\* A set of handles is finite, so its size is a natural number.
LEMMA HoldersFinite == ASSUME NEW o \in Origins
                       PROVE  IsFiniteSet(Holders(o)) /\ Cardinality(Holders(o)) \in Nat
<1>1. Holders(o) \subseteq Handles
  BY DEF Holders
<1> QED
  BY <1>1, PoolAssumption, FS_Subset, FS_CardinalityType

\* One step of the pool keeps its counts exact.
LEMMA RefsStep == TypeOK /\ RefsExact /\ [Next]_vars => RefsExact'
<1> SUFFICES ASSUME TypeOK, RefsExact, [Next]_vars, NEW q \in Origins, pool'[q] # None
             PROVE  pool'[q].refs = Cardinality(Holders(q)') /\ Holders(q)' # {}
  BY DEF RefsExact
<1>1. ASSUME NEW h \in Handles, NEW o \in Origins, Acquire(h, o)
      PROVE  pool'[q].refs = Cardinality(Holders(q)') /\ Holders(q)' # {}
  <2>1. PICK t \in Transports :
          /\ IF pool[o] = None THEN Unused(t) ELSE t = pool[o].transport
          /\ pool' = [pool EXCEPT ![o] =
               [transport |-> t, refs |-> (IF pool[o] = None THEN 0 ELSE pool[o].refs) + 1]]
          /\ handle' = [handle EXCEPT ![h] =
               [origin |-> o, transport |-> t, spent |-> FALSE]]
    BY <1>1 DEF Acquire
  <2>2. handle[h] = None
    BY <1>1 DEF Acquire
  <2>6. handle'[h] # None /\ handle'[h] = [origin |-> o, transport |-> t, spent |-> FALSE]
    <3>1. [origin |-> o, transport |-> t, spent |-> FALSE]
            \in [origin : Origins, transport : Transports, spent : BOOLEAN]
      OBVIOUS
    <3>2. handle'[h] = [origin |-> o, transport |-> t, spent |-> FALSE]
      BY <2>1 DEF TypeOK
    <3> QED
      BY <3>1, <3>2, PoolAssumption
  <2>7. \A k \in Handles : k # h => handle'[k] = handle[k]
    BY <2>1 DEF TypeOK
  <2>3. CASE q # o
    <3>1. pool'[q] = pool[q]
      BY <2>1, <2>3 DEF TypeOK
    <3>2. Holders(q)' = Holders(q)
      BY <2>1, <2>2, <2>3, <3>1 DEF TypeOK, Holders
    <3> QED
      BY <3>1, <3>2 DEF RefsExact
  <2>4. CASE q = o /\ pool[o] = None
    <3>1. Holders(q)' = {h}
      <4>1. pool'[q].transport = t
        BY <2>1, <2>4 DEF TypeOK
      <4>2. \A k \in Handles : k # h /\ handle[k] # None => handle[k].transport # t
        BY <2>1, <2>4 DEF Unused
      <4> QED
        BY <2>4, <2>6, <2>7, <4>1, <4>2 DEF Holders
    <3>2. pool'[q].refs = 1
      BY <2>1, <2>4 DEF TypeOK
    <3> QED
      BY <3>1, <3>2, FS_Singleton
  <2>5. CASE q = o /\ pool[o] # None
    <3>1. Holders(q)' = Holders(q) \cup {h}
      <4>1. pool'[q].transport = t /\ pool[q].transport = t
        BY <2>1, <2>5 DEF TypeOK
      <4> QED
        BY <2>5, <2>6, <2>7, <4>1 DEF Holders
    <3>2. h \notin Holders(q)
      BY <2>2 DEF Holders
    <3>3. pool'[q].refs = pool[q].refs + 1
      BY <2>1, <2>5 DEF TypeOK
    <3>4. pool[q].refs = Cardinality(Holders(q))
      BY <2>5 DEF RefsExact
    <3>5. Cardinality(Holders(q) \cup {h}) = Cardinality(Holders(q)) + 1
      BY <3>2, HoldersFinite, FS_AddElement
    <3> QED
      BY <3>1, <3>3, <3>4, <3>5
  <2> QED
    BY <2>3, <2>4, <2>5
<1>2. ASSUME NEW h \in Handles, Release(h)
      PROVE  pool'[q].refs = Cardinality(Holders(q)') /\ Holders(q)' # {}
  <2> DEFINE c == handle[h]
  <2>1. c \in Closure /\ c.origin \in Origins /\ c # None /\ ~c.spent
    BY <1>2 DEF Release, TypeOK, Closure
  <2>2. /\ pool' = [pool EXCEPT ![c.origin] = AfterRelease(c)]
        /\ handle' = [handle EXCEPT ![h].spent = TRUE]
    BY <1>2 DEF Release
  <2>3. handle'[h].spent
    BY <2>1, <2>2 DEF TypeOK, Closure
  <2>4. CASE q # c.origin
    <3>1. pool'[q] = pool[q]
      BY <2>1, <2>2, <2>4 DEF TypeOK
    <3>2. h \notin Holders(q) /\ h \notin Holders(q)'
      BY <2>1, <2>3, <2>4 DEF Holders
    <3>3. Holders(q)' = Holders(q)
      BY <2>2, <3>1, <3>2 DEF TypeOK, Holders
    <3> QED
      BY <3>1, <3>3 DEF RefsExact
  <2>5. CASE q = c.origin /\ ~Owns(c, q)
    <3>1. pool'[q] = pool[q]
      BY <2>1, <2>2, <2>5 DEF TypeOK, AfterRelease
    <3>2. h \notin Holders(q) /\ h \notin Holders(q)'
      BY <2>1, <2>3, <2>5 DEF Holders, Owns
    <3>3. Holders(q)' = Holders(q)
      BY <2>2, <3>1, <3>2 DEF TypeOK, Holders
    <3> QED
      BY <3>1, <3>3 DEF RefsExact
  <2>6. CASE q = c.origin /\ Owns(c, q)
    <3>1. pool[q] # None /\ pool[q] \in Entry
      BY <2>6 DEF Owns, TypeOK
    <3>2. pool'[q] = [pool[q] EXCEPT !.refs = @ - 1] /\ pool[q].refs - 1 > 0
      BY <2>1, <2>2, <2>6 DEF TypeOK, AfterRelease
    <3>3. Holders(q)' = Holders(q) \ {h}
      BY <2>2, <2>3, <3>1, <3>2 DEF TypeOK, Holders, Entry, Closure
    <3>4. h \in Holders(q)
      BY <2>1, <2>6, <3>1 DEF Holders, Owns
    <3>5. pool[q].refs = Cardinality(Holders(q))
      BY <3>1 DEF RefsExact
    <3>6. Cardinality(Holders(q) \ {h}) = Cardinality(Holders(q)) - 1
      BY <3>4, HoldersFinite, FS_RemoveElement
    <3>7. pool'[q].refs = pool[q].refs - 1
      BY <3>1, <3>2 DEF Entry
    <3>8. Cardinality(Holders(q)') > 0
      BY <3>2, <3>3, <3>5, <3>6
    <3>9. Holders(q)' # {}
      BY <3>8, FS_EmptySet
    <3> QED
      BY <3>3, <3>5, <3>6, <3>7, <3>9
  <2> QED
    BY <2>4, <2>5, <2>6
<1>3. ASSUME NEW h \in Handles, Forget(h)
      PROVE  pool'[q].refs = Cardinality(Holders(q)') /\ Holders(q)' # {}
  <2>1. pool' = pool /\ handle' = [handle EXCEPT ![h] = None] /\ handle[h].spent
    BY <1>3 DEF Forget
  <2>2. Holders(q)' = Holders(q)
    BY <2>1 DEF Holders, TypeOK
  <2> QED
    BY <2>1, <2>2 DEF RefsExact
<1>4. CASE CloseAll
  BY <1>4 DEF CloseAll
<1>5. CASE UNCHANGED vars
  <2>1. Holders(q)' = Holders(q) /\ pool' = pool
    BY <1>5 DEF vars, Holders
  <2> QED
    BY <2>1 DEF RefsExact
<1> QED
  BY <1>1, <1>2, <1>3, <1>4, <1>5 DEF Next

\* The reference count of every pooled transport is exactly the number of
\* handles that still hold it, and no transport is pooled without one.
THEOREM RefsCorrect == Spec => []RefsExact
<1>1. Init => RefsExact
  BY DEF Init, RefsExact
<1> QED
  BY <1>1, RefsStep, TypeCorrect, PTL DEF Spec

\* One step of the counted pool is a step, or a stutter, of the leases.
LEMMA LeaseStep == TypeOK /\ RefsExact /\ [Next]_vars => [Abstract!Next]_(Abstract!vars)
<1> SUFFICES ASSUME TypeOK, RefsExact, [Next]_vars
             PROVE  [Abstract!Next]_(Abstract!vars)
  OBVIOUS
<1> DEFINE Rec(o, t) == [origin |-> o, transport |-> t]
<1>0. \A o \in Origins, t \in Transports : Rec(o, t) # None
  BY PoolAssumption
<1>1. ASSUME NEW h \in Handles, NEW o \in Origins, Acquire(h, o)
      PROVE  Abstract!Next
  <2>1. PICK t \in Transports :
          /\ IF pool[o] = None THEN Unused(t) ELSE t = pool[o].transport
          /\ pool' = [pool EXCEPT ![o] =
               [transport |-> t, refs |-> (IF pool[o] = None THEN 0 ELSE pool[o].refs) + 1]]
          /\ handle' = [handle EXCEPT ![h] =
               [origin |-> o, transport |-> t, spent |-> FALSE]]
    BY <1>1 DEF Acquire
  <2>2. handle[h] = None
    BY <1>1 DEF Acquire
  <2>3. handle'[h] # None /\ ~handle'[h].spent
        /\ handle'[h].origin = o /\ handle'[h].transport = t
    <3>1. [origin |-> o, transport |-> t, spent |-> FALSE]
            \in [origin : Origins, transport : Transports, spent : BOOLEAN]
      OBVIOUS
    <3>2. handle'[h] = [origin |-> o, transport |-> t, spent |-> FALSE]
      BY <2>1 DEF TypeOK
    <3>3. handle'[h] # None
      BY <3>1, <3>2, PoolAssumption
    <3>4. ~handle'[h].spent /\ handle'[h].origin = o /\ handle'[h].transport = t
      BY <3>2
    <3> QED
      BY <3>3, <3>4
  <2>4. pool'[o] # None /\ pool'[o].transport = t
    <3>1. (IF pool[o] = None THEN 0 ELSE pool[o].refs) + 1 \in Int
      BY DEF TypeOK, Entry
    <3>2. pool'[o] \in Entry
      BY <2>1, <3>1 DEF TypeOK, Entry
    <3> QED
      BY <2>1, <3>2, PoolAssumption DEF TypeOK, Entry
  <2>5. Leases' = [Leases EXCEPT ![h] = Rec(o, t)]
    BY <2>1, <2>3 DEF Leases, TypeOK
  <2>6. Currents' = [Currents EXCEPT ![o] = t]
    BY <2>1, <2>4 DEF Currents, TypeOK
  <2>7. Leases[h] = None
    BY <2>2 DEF Leases
  <2>8. Currents[o] # None => t = Currents[o]
    BY <2>1 DEF Currents
  <2>9. Currents[o] = None => \A k \in Handles, p \in Origins :
          Leases[k] # Rec(p, t) /\ Currents[p] # t
    <3> SUFFICES ASSUME Currents[o] = None, NEW k \in Handles, NEW p \in Origins
                 PROVE  Leases[k] # Rec(p, t) /\ Currents[p] # t
      OBVIOUS
    <3>1. pool[o] = None
      BY PoolAssumption DEF Currents, TypeOK, Entry
    <3>2. Unused(t)
      BY <2>1, <3>1
    <3>3. Currents[p] # t
      BY <3>2, PoolAssumption DEF Unused, Currents
    <3>4. Leases[k] # Rec(p, t)
      BY <3>2, <1>0 DEF Unused, Leases
    <3> QED
      BY <3>3, <3>4
  <2>10. Abstract!Take(h, o, t)
    BY <2>5, <2>6, <2>7, <2>8, <2>9 DEF Abstract!Take
  <2> QED
    BY <2>10 DEF Abstract!Next
<1>2. ASSUME NEW h \in Handles, Release(h)
      PROVE  Abstract!Next
  <2> DEFINE c == handle[h]
             o == c.origin
  <2>1. c \in Closure /\ o \in Origins /\ c.transport \in Transports /\ c # None /\ ~c.spent
    BY <1>2 DEF Release, TypeOK, Closure
  <2>2. /\ pool' = [pool EXCEPT ![o] = AfterRelease(c)]
        /\ handle' = [handle EXCEPT ![h].spent = TRUE]
    BY <1>2 DEF Release
  <2>3. Leases[h] = Rec(o, c.transport) /\ Leases[h] # None /\ Leases[h].origin = o
    BY <2>1, <1>0 DEF Leases
  <2>4. Leases' = [Leases EXCEPT ![h] = None]
    <3>1. handle'[h].spent
      BY <2>1, <2>2 DEF TypeOK, Closure
    <3>2. \A k \in Handles : k # h => handle'[k] = handle[k]
      BY <2>2 DEF TypeOK
    <3>3. Leases'[h] = None
      BY <3>1 DEF Leases
    <3>4. \A k \in Handles : k # h => Leases'[k] = Leases[k]
      BY <3>2 DEF Leases
    <3> QED
      BY <3>3, <3>4 DEF Leases
  <2>5. pool[o] # None => Abstract!Lessees(o) = Holders(o)
    <3> SUFFICES ASSUME pool[o] # None, NEW k \in Handles
                 PROVE  Leases[k] = Rec(o, Currents[o]) <=> k \in Holders(o)
      BY DEF Abstract!Lessees, Holders
    <3>1. Currents[o] = pool[o].transport /\ pool[o].transport \in Transports
      BY <2>1 DEF Currents, TypeOK, Entry
    <3>2. Rec(o, Currents[o]) # None
      BY <2>1, <3>1, <1>0
    <3> QED
      BY <2>1, <3>1, <3>2 DEF Leases, Holders
  <2>6. Currents' = [Currents EXCEPT ![o] = IF Abstract!Lessees(o) = {h} THEN None ELSE @]
    <3>1. CASE ~Owns(c, o)
      <4>1. pool' = pool
        BY <2>1, <2>2, <3>1 DEF TypeOK, AfterRelease
      <4>2. h \notin Abstract!Lessees(o)
        <5>1. Currents[o] # c.transport
          BY <2>1, <3>1, PoolAssumption DEF Owns, Currents
        <5> QED
          BY <2>3, <5>1 DEF Abstract!Lessees
      <4>3. Currents' = Currents
        BY <4>1 DEF Currents
      <4> QED
        BY <4>2, <4>3 DEF Currents
    <3>2. CASE Owns(c, o)
      <4>1. pool[o] # None /\ pool[o] \in Entry /\ pool[o].transport = c.transport
        BY <2>1, <3>2 DEF Owns, TypeOK
      <4>2. h \in Holders(o)
        BY <2>1, <4>1 DEF Holders
      <4>3. pool[o].refs = Cardinality(Holders(o))
        BY <2>1, <4>1 DEF RefsExact
      <4>4. Cardinality(Holders(o) \ {h}) = Cardinality(Holders(o)) - 1
            /\ IsFiniteSet(Holders(o) \ {h})
        BY <2>1, <4>2, HoldersFinite, FS_RemoveElement
      <4>5. Cardinality(Holders(o) \ {h}) \in Nat
        BY <4>4, FS_CardinalityType
      <4>6. (Cardinality(Holders(o) \ {h}) = 0) <=> (Holders(o) \ {h} = {})
        BY <4>4, FS_EmptySet
      <4>7. (Holders(o) = {h}) <=> ~(pool[o].refs - 1 > 0)
        <5>1. (Holders(o) = {h}) <=> (Holders(o) \ {h} = {})
          BY <4>2
        <5>2. pool[o].refs - 1 = Cardinality(Holders(o) \ {h})
          BY <4>3, <4>4
        <5> DEFINE left == Cardinality(Holders(o) \ {h})
        <5>3. left \in Nat /\ pool[o].refs - 1 = left
          BY <4>5, <5>2
        <5>4. (left = 0) <=> ~(pool[o].refs - 1 > 0)
          <6> HIDE DEF left
          <6> QED
            BY <5>3
        <5> QED
          BY <4>6, <5>1, <5>4
      <4>8. Currents'[o] = IF Holders(o) = {h} THEN None ELSE Currents[o]
        <5>1. CASE Holders(o) = {h}
          <6>1. AfterRelease(c) = None
            BY <3>2, <4>7, <5>1 DEF AfterRelease
          <6> QED
            BY <2>1, <2>2, <5>1, <6>1 DEF TypeOK, Currents
        <5>2. CASE Holders(o) # {h}
          <6>1. AfterRelease(c) = [pool[o] EXCEPT !.refs = @ - 1]
            BY <3>2, <4>7, <5>2 DEF AfterRelease
          <6>2. pool'[o] \in Entry /\ pool'[o].transport = pool[o].transport
            BY <2>1, <2>2, <4>1, <6>1 DEF TypeOK, Entry
          <6>3. pool'[o] # None
            BY <6>2, PoolAssumption DEF Entry
          <6> QED
            BY <2>1, <4>1, <5>2, <6>2, <6>3 DEF Currents
        <5> QED
          BY <5>1, <5>2
      <4>9. \A p \in Origins : p # o => Currents'[p] = Currents[p]
        BY <2>2 DEF TypeOK, Currents
      <4> QED
        BY <2>1, <2>5, <4>1, <4>8, <4>9 DEF Currents
    <3> QED
      BY <3>1, <3>2
  <2>7. Abstract!Return(h, o)
    BY <2>3, <2>4, <2>6 DEF Abstract!Return
  <2> QED
    BY <2>1, <2>7 DEF Abstract!Next
<1>3. ASSUME NEW h \in Handles, Forget(h)
      PROVE  UNCHANGED Abstract!vars
  <2>1. Leases' = Leases
    BY <1>3 DEF Forget, Leases, TypeOK
  <2>2. Currents' = Currents
    BY <1>3 DEF Forget, Currents
  <2> QED
    BY <2>1, <2>2 DEF Abstract!vars
<1>4. CASE CloseAll
  <2>1. Leases' = Leases /\ Currents' = [o \in Origins |-> None]
    BY <1>4 DEF CloseAll, Leases, Currents
  <2> QED
    BY <2>1 DEF Abstract!Next, Abstract!RetireAll
<1>5. CASE UNCHANGED vars
  <2>1. Leases' = Leases /\ Currents' = Currents
    BY <1>5 DEF vars, Leases, Currents
  <2> QED
    BY <2>1 DEF Abstract!vars
<1> QED
  BY <1>1, <1>2, <1>3, <1>4, <1>5 DEF Next

\* The reference-counted pool implements uncounted leases: handles of an origin
\* share its transport and the last one to let go retires it.
THEOREM PoolImplementsLeases == Spec => ImplementsLeases
<1>1. Init => Abstract!Init
  BY DEF Init, Abstract!Init, Leases, Currents
<1> QED
  BY <1>1, LeaseStep, RefsCorrect, TypeCorrect, PTL DEF Spec, ImplementsLeases, Abstract!Spec
=============================================================================
