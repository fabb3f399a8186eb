--------------------------- MODULE TransportLeases ---------------------------
(***************************************************************************)
(* What the shared data-plane transports promise, without counters: each   *)
(* handle leases a transport for an origin; handles that lease the same    *)
(* origin share one transport; a transport is retired exactly when its     *)
(* last lease ends, or when the SDK client is closed.                      *)
(***************************************************************************)
CONSTANTS Handles, Origins, Transports, None

VARIABLES
  lease,   \* the transport each handle may use, with its origin, or None
  current  \* the transport new leases of an origin share, or None

vars == <<lease, current>>

Lease == [origin : Origins, transport : Transports]

\* the handles that lease origin o's current transport
Lessees(o) == {h \in Handles : lease[h] = [origin |-> o, transport |-> current[o]]}

Init ==
  /\ lease = [h \in Handles |-> None]
  /\ current = [o \in Origins |-> None]

Take(h, o, t) ==
  /\ lease[h] = None
  /\ current[o] # None => t = current[o]
  /\ current[o] = None => \A k \in Handles, q \in Origins :
       lease[k] # [origin |-> q, transport |-> t] /\ current[q] # t
  /\ lease' = [lease EXCEPT ![h] = [origin |-> o, transport |-> t]]
  /\ current' = [current EXCEPT ![o] = t]

\* the last lessee retires the transport; one of a retired transport changes nothing
Return(h, o) ==
  /\ lease[h] # None /\ lease[h].origin = o
  /\ lease' = [lease EXCEPT ![h] = None]
  /\ current' = [current EXCEPT ![o] = IF Lessees(o) = {h} THEN None ELSE @]

RetireAll ==
  /\ current' = [o \in Origins |-> None]
  /\ UNCHANGED lease

Next ==
  \/ \E h \in Handles, o \in Origins, t \in Transports : Take(h, o, t)
  \/ \E h \in Handles, o \in Origins : Return(h, o)
  \/ RetireAll

Spec == Init /\ [][Next]_vars
=============================================================================
