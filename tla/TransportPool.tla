---------------------------- MODULE TransportPool ----------------------------
(***************************************************************************)
(* The pool of data-plane transports an SDK client shares among its        *)
(* session handles (sandbox/data_plane.go:125-172): one reference-counted  *)
(* transport per origin.  Each handle keeps the release closure it was     *)
(* given, which runs its body once and does nothing when the origin's      *)
(* entry is no longer the one it was taken from.                           *)
(***************************************************************************)
EXTENDS Integers, FiniteSets

CONSTANTS
  Handles,     \* acquisitions a program has at once
  Origins,     \* scheme://host of the endpoints
  Transports,  \* identities of sharedDataPlaneHTTPClient values (bound)
  None

ASSUME PoolAssumption ==
  /\ IsFiniteSet(Handles)
  /\ None \notin Transports
  /\ None \notin [transport : Transports, refs : Int]
  /\ None \notin [origin : Origins, transport : Transports, spent : BOOLEAN]
  /\ None \notin [origin : Origins, transport : Transports]

VARIABLES
  pool,    \* dataPlanePool: per origin an entry with its reference count, or None
  handle   \* the release closure of each handle, or None

vars == <<pool, handle>>

Entry == [transport : Transports, refs : Int]
Closure == [origin : Origins, transport : Transports, spent : BOOLEAN]

Init ==
  /\ pool = [o \in Origins |-> None]
  /\ handle = [h \in Handles |-> None]

\* A transport nothing refers to any more may be collected and its address reused.
Unused(t) ==
  /\ \A o \in Origins : pool[o] # None => pool[o].transport # t
  /\ \A h \in Handles : handle[h] # None => handle[h].transport # t

\* Variant: the closure of a second acquisition captures no transport.
AcquireUncaptured(h, o) ==
  /\ handle[h] = None
  /\ \E t \in Transports :
       /\ IF pool[o] = None THEN Unused(t) ELSE t = pool[o].transport
       /\ pool' = [pool EXCEPT ![o] =
            [transport |-> t, refs |-> (IF pool[o] = None THEN 0 ELSE pool[o].refs) + 1]]
       /\ handle' = [handle EXCEPT ![h] =
            [origin |-> o, transport |-> IF pool[o] = None THEN t ELSE None, spent |-> FALSE]]

\* acquireDataPlaneHTTPClient
Acquire(h, o) ==
  /\ handle[h] = None
  /\ \E t \in Transports :
       /\ IF pool[o] = None THEN Unused(t) ELSE t = pool[o].transport
       /\ pool' = [pool EXCEPT ![o] =
            [transport |-> t, refs |-> (IF pool[o] = None THEN 0 ELSE pool[o].refs) + 1]]
       /\ handle' = [handle EXCEPT ![h] = [origin |-> o, transport |-> t, spent |-> FALSE]]

\* the entry of o is the one closure c was taken from
Owns(c, o) == pool[o] # None /\ pool[o].transport = c.transport

\* Variant: a closure of a retired transport counts down its successor.
AfterReleaseAny(c) ==
  LET entry == pool[c.origin] IN
  IF entry = None THEN entry
  ELSE IF entry.refs - 1 > 0 THEN [entry EXCEPT !.refs = @ - 1]
  ELSE None

\* Variant: the entry is retired while one handle still holds it.
AfterReleaseEarly(c) ==
  LET entry == pool[c.origin] IN
  IF ~Owns(c, c.origin) THEN entry
  ELSE IF entry.refs - 1 > 1 THEN [entry EXCEPT !.refs = @ - 1]
  ELSE None

\* what the release closure c leaves of its origin's entry
AfterRelease(c) ==
  LET entry == pool[c.origin] IN
  IF ~Owns(c, c.origin) THEN entry
  ELSE IF entry.refs - 1 > 0 THEN [entry EXCEPT !.refs = @ - 1]
  ELSE None

\* release(): sync.Once makes a second call do nothing
Release(h) ==
  /\ handle[h] # None
  /\ ~handle[h].spent
  /\ pool' = [pool EXCEPT ![handle[h].origin] = AfterRelease(handle[h])]
  /\ handle' = [handle EXCEPT ![h].spent = TRUE]

\* the handle drops its closure (dataPlaneRelease = nil)
Forget(h) ==
  /\ handle[h] # None /\ handle[h].spent
  /\ handle' = [handle EXCEPT ![h] = None]
  /\ UNCHANGED pool

\* Client.Close: closeDataPlaneHTTPClients
CloseAll ==
  /\ pool' = [o \in Origins |-> None]
  /\ UNCHANGED handle

Next ==
  \/ \E h \in Handles, o \in Origins : Acquire(h, o)
  \/ \E h \in Handles : Release(h) \/ Forget(h)
  \/ CloseAll

Spec == Init /\ [][Next]_vars

-----------------------------------------------------------------------------
\* Every variable stays in its type.
TypeOK ==
  /\ pool \in [Origins -> Entry \cup {None}]
  /\ handle \in [Handles -> Closure \cup {None}]

\* the handles that still count on origin o's pooled transport
Holders(o) ==
  {h \in Handles : /\ pool[o] # None /\ handle[h] # None
                   /\ ~handle[h].spent
                   /\ handle[h].origin = o
                   /\ handle[h].transport = pool[o].transport}

\* The count of a pooled transport is the number of handles that hold it and
\* have not released it, and it is in the pool only while there is one: an early
\* or double release, or a Client.Close in between, never makes it wrong.
RefsExact ==
  \A o \in Origins : pool[o] # None =>
    /\ pool[o].refs = Cardinality(Holders(o))
    /\ Holders(o) # {}

-----------------------------------------------------------------------------
\* A handle leases the transport of its unspent closure.
Leases == [h \in Handles |->
  IF handle[h] = None THEN None
  ELSE IF handle[h].spent THEN None
  ELSE [origin |-> handle[h].origin, transport |-> handle[h].transport]]
Currents == [o \in Origins |-> IF pool[o] = None THEN None ELSE pool[o].transport]

Abstract == INSTANCE TransportLeases WITH lease <- Leases, current <- Currents

\* The counted pool implements uncounted leases: sharing, and retirement of a
\* transport exactly with its last lease.
ImplementsLeases == Abstract!Spec
=============================================================================
