------------------------------ MODULE WaitsProofs ------------------------------
(***************************************************************************)
(* Proofs about Waits for any timeouts, lag, grace and number of faults    *)
(* and for histories of any length: what a wait reports did happen, and a  *)
(* resource that has settled is reported in bounded time.                  *)
(***************************************************************************)
EXTENDS Waits, TLAPS

-----------------------------------------------------------------------------
(* The operators of the model.                                             *)

LEMMA MinOf ==
  ASSUME NEW a \in Int, NEW b \in Int
  PROVE Min({a, b}) \in {a, b} /\ Min({a, b}) <= a /\ Min({a, b}) <= b
<1>1. \E x \in {a, b} : \A y \in {a, b} : x =< y
  OBVIOUS
<1> QED
  BY <1>1 DEF Min

LEMMA MaxOf ==
  ASSUME NEW a \in Int, NEW b \in Int, NEW c \in Int
  PROVE /\ Max({a, b, c}) \in {a, b, c}
        /\ Max({a, b, c}) >= a /\ Max({a, b, c}) >= b /\ Max({a, b, c}) >= c
<1>1. \E x \in {a, b, c} : \A y \in {a, b, c} : x >= y
  OBVIOUS
<1> QED
  BY <1>1 DEF Max

\* the newest event, or the newest the handler has seen
LEMMA MaxEvents ==
  ASSUME NEW i \in Nat \ {0}, NEW n \in Nat
  PROVE Max(Events(i) \cup {n}) = IF i - 1 >= n THEN i - 1 ELSE n
<1> DEFINE S == Events(i) \cup {n}
           m == IF i - 1 >= n THEN i - 1 ELSE n
<1>1. m \in S /\ \A y \in S : m >= y
  BY DEF Events
<1>2. \A x \in S : (\A y \in S : x >= y) => x = m
  BY <1>1 DEF Events
<1> QED
  BY <1>1, <1>2 DEF Max

LEMMA SameSeq ==
  ASSUME NEW s \in Seq(Nat), NEW u \in Seq(Nat), Len(s) = Len(u), \A k \in 1..Len(u) : s[k] = u[k]
  PROVE s = u
  OBVIOUS

\* Two sequences joined, by their elements.
LEMMA Joined ==
  ASSUME NEW a \in Seq(Nat), NEW b \in Seq(Nat), NEW c \in Seq(Nat), Len(c) = Len(a) + Len(b),
         \A k \in 1..Len(a) : c[k] = a[k],
         \A k \in 1..Len(b) : c[Len(a) + k] = b[k]
  PROVE a \o b = c
<1>1. a \o b \in Seq(Nat) /\ Len(a \o b) = Len(c) /\ Len(a) \in Nat /\ Len(b) \in Nat
  OBVIOUS
<1>2. ASSUME NEW k \in 1..Len(c) PROVE (a \o b)[k] = c[k]
  <2>1. CASE k <= Len(a)
    BY <2>1
  <2>2. CASE k > Len(a)
    <3>1. k - Len(a) \in 1..Len(b) /\ k = Len(a) + (k - Len(a))
      BY <1>1, <2>2
    <3>2. (a \o b)[k] = b[k - Len(a)]
      BY <1>1, <2>2
    <3>3. c[Len(a) + (k - Len(a))] = b[k - Len(a)]
      BY <3>1
    <3> QED
      BY <3>1, <3>2, <3>3
  <2> QED
    BY <1>1, <2>1, <2>2
<1>3. \A k \in 1..Len(c) : (a \o b)[k] = c[k]
  BY <1>2
<1> QED
  BY <1>1, <1>3, SameSeq, Zenon

\* The numbers up to m and those from there on.
LEMMA NumbersJoin ==
  ASSUME NEW m \in Nat, NEW n \in Nat, m <= n
  PROVE /\ Numbers(0, m) \o Numbers(m, n) = Numbers(0, n)
        /\ Numbers(0, m) \in Seq(Nat) /\ Len(Numbers(0, m)) = m
<1>1. /\ Numbers(0, m) \in Seq(Nat) /\ Len(Numbers(0, m)) = m
      /\ Numbers(m, n) \in Seq(Nat) /\ Len(Numbers(m, n)) = n - m
      /\ Numbers(0, n) \in Seq(Nat) /\ Len(Numbers(0, n)) = n
  BY DEF Numbers
<1>2. \A k \in 1..m : Numbers(0, n)[k] = Numbers(0, m)[k]
  BY DEF Numbers
<1>3. \A k \in 1..(n - m) : Numbers(0, n)[m + k] = Numbers(m, n)[k]
  BY DEF Numbers
<1>4. n = m + (n - m) /\ n - m \in Nat
  OBVIOUS
<1>5. /\ Len(Numbers(0, n)) = Len(Numbers(0, m)) + Len(Numbers(m, n))
      /\ \A k \in 1..Len(Numbers(0, m)) : Numbers(0, n)[k] = Numbers(0, m)[k]
      /\ \A k \in 1..Len(Numbers(m, n)) : Numbers(0, n)[Len(Numbers(0, m)) + k] = Numbers(m, n)[k]
  BY <1>1, <1>2, <1>3, <1>4
<1> QED
  BY <1>1, <1>5, Joined, Zenon

\* Which transitions, and which ends, belong to an operation.
LEMMA MovesOf ==
  /\ op \in SessionOps => Moves = Transitions
  /\ op \in {"snapshot", "durable"} => Moves = SnapshotTransitions
  /\ op = "volume" => Moves = VolumeTransitions
  /\ op = "detach" => Moves = DetachTransitions
  /\ op = "delete" => Moves = DeleteTransitions
  /\ op = "build" => Moves = BuildTransitions
<1>1. op \in SessionOps => Moves = Transitions
  BY Zenon DEF Moves, SessionOps
<1>2. op \in {"snapshot", "durable"} => Moves = SnapshotTransitions
  BY Zenon DEF Moves, SessionOps
<1>3. op = "volume" => Moves = VolumeTransitions
  BY Zenon DEF Moves, SessionOps
<1>4. op = "detach" => Moves = DetachTransitions
  BY Zenon DEF Moves, SessionOps
<1>5. op = "delete" => Moves = DeleteTransitions
  BY Zenon DEF Moves, SessionOps
<1>6. op = "build" => Moves = BuildTransitions
  BY Zenon DEF Moves, SessionOps
<1> QED
  BY <1>1, <1>2, <1>3, <1>4, <1>5, <1>6

LEMMA VerdictOf ==
  ASSUME NEW s
  PROVE /\ op \in SessionOps => Verdict(s) = IF Goal(s) THEN "ok" ELSE IF IsTerminal(s) THEN "terminal"
                                             ELSE IF Reverted(s) THEN "failed" ELSE "wait"
        /\ op = "snapshot" => Verdict(s) = EndsBy(SnapshotEnds, s)
        /\ op = "durable" => Verdict(s) = EndsBy(DurableEnds, s)
        /\ op = "volume" => Verdict(s) = EndsBy(VolumeEnds, s)
        /\ op = "detach" => Verdict(s) = EndsBy(DetachEnds, s)
        /\ op = "build" => Verdict(s) = EndsBy(BuildEnds, s)
<1>1. op \in SessionOps => Verdict(s) = IF Goal(s) THEN "ok" ELSE IF IsTerminal(s) THEN "terminal"
                                        ELSE IF Reverted(s) THEN "failed" ELSE "wait"
  BY Zenon DEF Verdict, SessionOps
<1>2. op = "snapshot" => Verdict(s) = EndsBy(SnapshotEnds, s)
  BY Zenon DEF Verdict, SessionOps
<1>3. op = "durable" => Verdict(s) = EndsBy(DurableEnds, s)
  BY Zenon DEF Verdict, SessionOps
<1>4. op = "volume" => Verdict(s) = EndsBy(VolumeEnds, s)
  BY Zenon DEF Verdict, SessionOps
<1>5. op = "detach" => Verdict(s) = EndsBy(DetachEnds, s)
  BY Zenon DEF Verdict, SessionOps
<1>6. op = "build" => Verdict(s) = EndsBy(BuildEnds, s)
  BY Zenon DEF Verdict, SessionOps
<1> QED
  BY <1>1, <1>2, <1>3, <1>4, <1>5, <1>6

\* A verdict is never one of the other ends of a wait.
LEMMA VerdictIs ==
  ASSUME NEW s, op \in AllOps \ {"delete"}
  PROVE Verdict(s) \in {"ok", "terminal", "failed", "not_durable", "wait"}
<1>1. CASE op \in SessionOps
  BY <1>1, VerdictOf
<1>2. CASE op = "snapshot"
  BY <1>2, VerdictOf DEF EndsBy, SnapshotEnds
<1>3. CASE op = "durable"
  BY <1>3, VerdictOf DEF EndsBy, DurableEnds
<1>4. CASE op = "volume"
  BY <1>4, VerdictOf DEF EndsBy, VolumeEnds
<1>5. CASE op = "detach"
  BY <1>5, VerdictOf DEF EndsBy, DetachEnds
<1>6. CASE op = "build"
  BY <1>6, VerdictOf DEF EndsBy, BuildEnds
<1> QED
  BY <1>1, <1>2, <1>3, <1>4, <1>5, <1>6 DEF AllOps

-----------------------------------------------------------------------------
(* The clock and the place the wait is at.                                 *)

Polling == pc \in {"check", "get", "sleep"}

TypeInv ==
  /\ op \in AllOps /\ limit \in Nat /\ ctx \in {"live", "cancelled"}
  /\ pc \in {"create", "stream", "check", "get", "sleep", "detach", "done"}
  /\ {now, due, start, began, asked, faults, backoff, seen, served} \subseteq Nat
  /\ now <= MaxTime /\ asked <= now /\ start <= began /\ began <= now /\ served >= 1
  /\ pc = "done" <=> out # "none"

\* Where each operation can be.  Only Create and WaitReady begin with a call or a
\* stream, and only they begin later than at time 0.
PlaceInv ==
  /\ pc = "create" => op = "create" /\ start = 0
  /\ pc = "stream" => Readying
  /\ pc = "detach" => op = "detach"
  /\ ~Readying => began = 0
  /\ op = "ready" => start = 0
  /\ Readying /\ (Polling \/ pc = "stream") => limit > 0
  /\ op = "delete" => limit > 0
  /\ op # "delete" => backoff = FirstBackoff
  /\ op \in {"durable", "build"} => limit = 0
  /\ op = "delete" => backoff \in 1..(2 * BackoffCap - 1)

\* When what the wait is doing ends: never before now, and for WaitReady and
\* Create never after the timeout.
DueInv ==
  /\ pc # "done" => now <= due
  /\ pc = "check" => due = now
  /\ Readying /\ limit > 0 /\ pc # "done" => due <= start + limit
  /\ ~Readying /\ op # "delete" /\ limit > 0 /\ faults = 0 =>
       /\ pc = "get" => due <= limit
       /\ pc \in {"check", "sleep", "detach"} => due <= limit + 1
  /\ op = "delete" /\ faults = 0 =>
       /\ pc \in {"check", "sleep"} => due <= limit + 2 * BackoffCap - 1
       /\ pc = "get" => due <= limit + 2 * BackoffCap

LEMMA DeadlineIs == ASSUME TypeInv PROVE Deadline = start + limit /\ Deadline \in Nat
  BY DEF TypeInv, Deadline, PollBudget

\* Nothing happens after the end of a wait.
LEMMA Frozen == ASSUME pc = "done", Next PROVE UNCHANGED vars
  BY DEF Next, CreateStep, WaitStep, Created, CreateFailed, StreamEvent, StreamEnd, Check, GetOk,
         GetRetryable, GetFailed, Sleep, HandlerFails, Delete, Detach, Tick, Cancel, Over, Change

LEMMA FirstIs ==
  /\ FirstBackoff \in 1..2 /\ (Readying => FirstBackoff = 1)
  /\ UNCHANGED op => FirstBackoff' = FirstBackoff
  BY DEF FirstBackoff, Readying

\* What a poll that is not over does next.
LEMMA BackoffIs ==
  ASSUME TypeInv, PlaceInv, DueInv, pc = "get", Backoff
  PROVE /\ pc' = "sleep" /\ out' = out /\ due' \in Nat /\ due' >= now
        /\ op # "delete" => due' <= now + FirstBackoff /\ FirstBackoff \in 1..2
        /\ op = "delete" => due' = now + backoff
        /\ Readying => due' <= start + limit
<1> USE DEF TypeInv, PlaceInv, Backoff, Enter
<1>1. CASE Readying
  <2>1. due' = Min({now + 1, start + limit}) /\ pc' = "sleep" /\ out' = out
    BY <1>1, DeadlineIs
  <2>2. now <= start + limit
    BY <1>1 DEF DueInv, Polling
  <2>3. now + 1 \in Int /\ start + limit \in Int
    OBVIOUS
  <2>4. due' \in {now + 1, start + limit} /\ due' <= now + 1 /\ due' <= start + limit
    BY <2>1, <2>3, MinOf
  <2> QED
    BY <1>1, <2>1, <2>2, <2>4 DEF Readying, FirstBackoff
<1>2. CASE ~Readying
  BY <1>2 DEF Readying, FirstBackoff
<1> QED
  BY <1>1, <1>2

\* When a call is given up.
LEMMA CallEndsAt ==
  ASSUME TypeInv, PlaceInv, DueInv, pc = "check", Readying => now <= Deadline
  PROVE /\ CallEnds \in Nat /\ CallEnds >= now
        /\ Min({now + 1, CallEnds}) \in Nat /\ Min({now + 1, CallEnds}) >= now
        /\ Min({now + 1, CallEnds}) <= now + 1
        /\ Readying => /\ CallEnds <= now + Attempt /\ CallEnds <= start + limit
                       /\ Min({now + 1, CallEnds}) <= start + limit
<1> USE WaitsAssumption DEF TypeInv
<1>1. now + Attempt \in Int /\ start + limit \in Int /\ now + 1 \in Int
  OBVIOUS
<1>2. CallEnds \in Nat /\ CallEnds >= now /\ (Readying => CallEnds <= now + Attempt /\ CallEnds <= start + limit)
  <2>1. CASE Readying
    <3>1. CallEnds = Min({now + Attempt, start + limit}) /\ now <= start + limit
      BY <2>1, DeadlineIs DEF CallEnds
    <3>2. /\ CallEnds \in {now + Attempt, start + limit}
          /\ CallEnds <= now + Attempt /\ CallEnds <= start + limit
      BY <1>1, <3>1, MinOf
    <3> QED
      BY <3>1, <3>2
  <2>2. CASE ~Readying
    BY <2>2 DEF CallEnds
  <2> QED
    BY <2>1, <2>2
<1>3. PICK c \in Int : c = CallEnds
  BY <1>2
<1>4. PICK m : m = Min({now + 1, c})
  OBVIOUS
<1>5. m \in {now + 1, c} /\ m <= now + 1 /\ m <= c
  BY <1>1, <1>4, MinOf
<1> QED
  BY <1>2, <1>3, <1>4, <1>5

\* What a step of the clock needs.
LEMMA TickIs == ASSUME TypeInv, Tick PROVE now' = now + 1 /\ now' <= due /\ now' <= MaxTime
<1> USE WaitsAssumption DEF TypeInv, Tick
<1>1. due \in Int /\ MaxTime \in Int
  OBVIOUS
<1>2. PICK m : m = Min({due, MaxTime})
  OBVIOUS
<1>3. m \in {due, MaxTime} /\ m <= due /\ m <= MaxTime
  BY <1>1, <1>2, MinOf
<1> QED
  BY <1>2, <1>3


\* Steps that only end the wait, and steps that leave it where it is.
LEMMA ReturnKeeps ==
  ASSUME TypeInv, PlaceInv, DueInv, UNCHANGED <<op, limit, now, backoff>>,
         pc' = "done", due' = now, out' # "none", start' \in Nat, began' \in Nat,
         start' <= began', began' <= now, ~Readying => began' = began, op # "create" => start' = start,
         {faults', seen', served', asked'} \subseteq Nat, served' >= 1, asked' <= now, ctx' = ctx
  PROVE TypeInv' /\ PlaceInv' /\ DueInv'
<1>1. TypeInv'
  BY DEF TypeInv
<1>2. PlaceInv'
  BY DEF PlaceInv, Polling, Readying, FirstBackoff
<1>3. DueInv'
  BY DEF DueInv, Readying
<1> QED
  BY <1>1, <1>2, <1>3

-----------------------------------------------------------------------------
(* The states the resource went through.                                   *)

States ==
  {"absent", "creating", "running", "pausing", "paused", "resuming", "user_shutdown", "terminating", "terminated",
   "ready", "failed", "deleting", "deleted", "local", "untracked", "ceph", "durable", "not_propagated", "stalled",
   "unspecified", "available", "in_use", "syncing", "attached", "detaching", "detached", "gone", "pending", "building"}

Entries == [state : States, at : Nat]

HistInv ==
  /\ hist \in Seq(Entries) /\ Len(hist) >= 1
  /\ \A i \in 1..Len(hist) : hist[i].at <= now /\ hist[i].at <= Last.at

Stalled == {"stalled", "not_propagated", "untracked"}

\* What the engine's transitions leave of each resource: the states it can be
\* in, those it began with, and those it does not leave again.
StateInv ==
  /\ Readying => \A i \in 1..Len(hist) :
       hist[i].state \in {"absent", "creating", "running", "terminating", "terminated"}
  /\ op = "pause" =>
       /\ Len(hist) >= 2 /\ hist[1].state = "running" /\ hist[2].state = "pausing" /\ hist[2].at = 0
       /\ \A i \in 1..Len(hist) : hist[i].state \in {"running", "pausing", "paused", "terminating", "terminated"}
  /\ op = "resume" =>
       /\ Len(hist) >= 2 /\ hist[1].state = "paused" /\ hist[2].state = "resuming" /\ hist[2].at = 0
       /\ \A i \in 1..Len(hist) :
            hist[i].state \in {"paused", "resuming", "running", "user_shutdown", "terminating", "terminated"}
  /\ op \in SessionOps => \A i \in 1..Len(hist) : IsTerminal(hist[i].state) => IsTerminal(Last.state)
  /\ op = "durable" =>
       /\ Last.state \in {"creating", "local", "ceph", "durable", "failed", "deleting", "deleted"} \cup Stalled
       /\ Was({"durable"}) => Last.state \in {"durable", "deleting", "deleted"} /\ ~Was(Stalled)
       /\ Was(Stalled) => Last.state \in Stalled \cup {"deleting", "deleted"}
  /\ op = "build" => \A i \in 1..Len(hist) : hist[i].state \in {"ready", "failed"} => i = Len(hist)
  /\ op = "delete" => Last.state \in {"syncing", "available", "in_use", "deleted"}

\* The history after one more state.
LEMMA HistGrows ==
  ASSUME HistInv, NEW s \in States, now \in Nat, hist' = Event(s), now' = now
  PROVE /\ HistInv' /\ Len(hist) \in Nat /\ Len(hist') = Len(hist) + 1
        /\ \A i \in 1..Len(hist) : hist'[i] = hist[i]
        /\ hist'[Len(hist) + 1] = [state |-> s, at |-> now] /\ Last' = [state |-> s, at |-> now]
<1>1. [state |-> s, at |-> now] \in Entries
  BY DEF Entries
<1>2. /\ Len(hist) \in Nat /\ Len(hist') = Len(hist) + 1 /\ hist' \in Seq(Entries)
      /\ \A i \in 1..Len(hist) : hist'[i] = hist[i]
      /\ hist'[Len(hist) + 1] = [state |-> s, at |-> now]
  BY <1>1 DEF HistInv, Event
<1>3. Last' = [state |-> s, at |-> now]
  BY <1>2 DEF Last
<1>4. \A i \in 1..Len(hist') : i \in 1..Len(hist) \/ i = Len(hist) + 1
  BY <1>2
<1>5. \A i \in 1..Len(hist') : hist'[i].at <= now /\ hist'[i].at <= Last'.at
  BY <1>2, <1>3, <1>4 DEF HistInv
<1> QED
  BY <1>2, <1>3, <1>5 DEF HistInv

LEMMA MovesStates == ASSUME op \in AllOps, NEW move \in Moves PROVE move[2] \in States
<1>1. CASE op \in SessionOps
  BY <1>1, MovesOf DEF Transitions, States
<1>2. CASE op \in {"snapshot", "durable"}
  BY <1>2, MovesOf DEF SnapshotTransitions, States
<1>3. CASE op = "volume"
  BY <1>3, MovesOf DEF VolumeTransitions, States
<1>4. CASE op = "detach"
  BY <1>4, MovesOf DEF DetachTransitions, States
<1>5. CASE op = "delete"
  BY <1>5, MovesOf DEF DeleteTransitions, States
<1>6. CASE op = "build"
  BY <1>6, MovesOf DEF BuildTransitions, States
<1> QED
  BY <1>1, <1>2, <1>3, <1>4, <1>5, <1>6 DEF AllOps

LEMMA HistStep == ASSUME TypeInv, HistInv, Next PROVE HistInv'
<1>1. CASE UNCHANGED <<hist, now>>
  BY <1>1 DEF HistInv, Last
<1>2. CASE Tick
  <2>1. now' = now + 1 /\ hist' = hist
    BY <1>2 DEF Tick
  <2>2. \A i \in 1..Len(hist) : hist[i] \in Entries
    BY DEF HistInv
  <2> QED
    BY <2>1, <2>2 DEF HistInv, Last, TypeInv, Entries
<1>3. CASE Change
  <2>1. PICK move \in Moves : hist' = Event(move[2]) /\ now' = now
    BY <1>3 DEF Change
  <2>2. move[2] \in States
    BY MovesStates DEF TypeInv
  <2> QED
    BY <2>1, <2>2, HistGrows DEF TypeInv
<1>4. CASE Delete \/ GetFailed \/ \E accepted \in BOOLEAN : Detach(accepted)
  <2>1. now' = now /\ (hist' = hist \/ hist' = Event("deleted") \/ hist' = Event("detaching"))
    BY <1>4 DEF Delete, GetFailed, Detach
  <2> QED
    BY <1>1, <2>1, HistGrows DEF TypeInv, States
<1> QED
  BY <1>1, <1>2, <1>3, <1>4
     DEF Next, CreateStep, WaitStep, Created, CreateFailed, StreamEvent, StreamEnd, Check, GetOk,
         GetRetryable, GetFailed, Sleep, HandlerFails, Cancel, Over, engine, vars

LEMMA SameOp == ASSUME Next PROVE UNCHANGED <<op, limit>>
  BY DEF Next, CreateStep, WaitStep, Created, CreateFailed, StreamEvent, StreamEnd, Check, GetOk,
         GetRetryable, GetFailed, Sleep, HandlerFails, Delete, Detach, Tick, Cancel, Over, Change, engine, call, vars

\* A transition keeps what StateInv says of its resource.
LEMMA ChangeState ==
  ASSUME HistInv, StateInv, now \in Nat, NEW move \in Moves, move[1] = Last.state, move[2] \in States,
         hist' = Event(move[2]), UNCHANGED <<op, now>>
  PROVE StateInv'
<1>1. PICK n \in Nat : n = Len(hist) /\ n >= 1
  BY DEF HistInv
<1>2. /\ Len(hist') = n + 1 /\ Last' = [state |-> move[2], at |-> now]
      /\ \A i \in 1..n : hist'[i] = hist[i]
      /\ hist'[n + 1].state = move[2] /\ Last'.state = move[2]
  <2>1. PICK s \in States : s = move[2] /\ hist' = Event(s)
    OBVIOUS
  <2>2. /\ Len(hist') = Len(hist) + 1 /\ Last' = [state |-> s, at |-> now]
        /\ \A i \in 1..Len(hist) : hist'[i] = hist[i]
        /\ hist'[Len(hist) + 1] = [state |-> s, at |-> now]
    BY <2>1, HistGrows
  <2> QED
    BY <1>1, <2>1, <2>2
<1>3. \A i \in 1..(n + 1) : i \in 1..n \/ i = n + 1
  OBVIOUS
<1>4. Last = hist[n]
  BY <1>1 DEF Last
<1>5. ASSUME NEW S PROVE Was(S)' <=> Was(S) \/ move[2] \in S
  BY <1>1, <1>2, <1>3 DEF Was
<1>6. CASE op \in SessionOps
  <2>1. move \in Transitions
    BY <1>6, MovesOf
  <2>2. IsTerminal(Last.state) => IsTerminal(move[2])
    BY <2>1 DEF Transitions, IsTerminal
  <2>3. \A i \in 1..(n + 1) : IsTerminal(hist'[i].state) => IsTerminal(Last.state) \/ i = n + 1
    BY <1>1, <1>2, <1>3, <1>6 DEF StateInv
  <2>4. (\A i \in 1..Len(hist) : IsTerminal(hist[i].state) => IsTerminal(Last.state))'
    BY <1>2, <2>2, <2>3 DEF IsTerminal
  <2>5. CASE Readying
    <3>1. move[2] \in {"absent", "creating", "running", "terminating", "terminated"}
      BY <1>1, <1>4, <2>1, <2>5 DEF Transitions, StateInv
    <3> QED
      BY <1>1, <1>2, <1>3, <2>4, <2>5, <3>1 DEF StateInv, Readying
  <2>6. CASE op = "pause"
    <3>1. move[2] \in {"running", "pausing", "paused", "terminating", "terminated"}
      BY <1>1, <1>4, <2>1, <2>6 DEF Transitions, StateInv
    <3> QED
      BY <1>1, <1>2, <1>3, <2>4, <2>6, <3>1 DEF StateInv, Readying
  <2>7. CASE op = "resume"
    <3>1. move[2] \in {"paused", "resuming", "running", "user_shutdown", "terminating", "terminated"}
      BY <1>1, <1>4, <2>1, <2>7 DEF Transitions, StateInv
    <3> QED
      BY <1>1, <1>2, <1>3, <2>4, <2>7, <3>1 DEF StateInv, Readying
  <2> QED
    BY <1>6, <2>5, <2>6, <2>7 DEF SessionOps, Readying
<1>7. CASE op = "durable"
  <2>1. move \in SnapshotTransitions
    BY <1>7, MovesOf
  <2>2. /\ move[2] \in {"creating", "local", "ceph", "durable", "failed", "deleting", "deleted"} \cup Stalled
        /\ move[2] = "durable" => Last.state \in {"local", "ceph"}
        /\ move[2] \in Stalled => Last.state \in {"creating", "local", "ceph"}
        /\ Last.state = "durable" \/ Last.state \in Stalled => move[2] = "deleting"
        /\ Last.state = "deleting" => move[2] = "deleted"
        /\ Last.state # "deleted"
    BY <1>7, <2>1 DEF SnapshotTransitions, Stalled
  <2>3. (Was({"durable"}) => Last.state \in {"durable", "deleting", "deleted"} /\ ~Was(Stalled))'
    BY <1>2, <1>5, <1>7, <2>2 DEF StateInv, Stalled
  <2>4. (Was(Stalled) => Last.state \in Stalled \cup {"deleting", "deleted"})'
    BY <1>2, <1>5, <1>7, <2>2 DEF StateInv, Stalled
  <2> QED
    BY <1>2, <1>7, <2>2, <2>3, <2>4 DEF StateInv, Readying, SessionOps
<1>8. CASE op = "build"
  <2>1. move \in BuildTransitions
    BY <1>8, MovesOf
  <2>2. Last.state \notin {"ready", "failed"}
    BY <2>1 DEF BuildTransitions
  <2>3. \A i \in 1..n : hist[i].state \notin {"ready", "failed"}
    BY <1>1, <1>4, <1>8, <2>2 DEF StateInv
  <2> QED
    BY <1>2, <1>3, <1>8, <2>3 DEF StateInv, Readying, SessionOps
<1>9. CASE op = "delete"
  <2>1. move[2] \in {"syncing", "available", "in_use"}
    BY <1>9, MovesOf DEF DeleteTransitions
  <2> QED
    BY <1>2, <1>9, <2>1 DEF StateInv, Readying, SessionOps
<1>10. CASE op \notin SessionOps \cup {"durable", "build", "delete"}
  BY <1>10 DEF StateInv, Readying, SessionOps
<1> QED
  BY <1>6, <1>7, <1>8, <1>9, <1>10

LEMMA StateStep == ASSUME TypeInv, PlaceInv, HistInv, StateInv, Next PROVE StateInv'
<1>1. CASE UNCHANGED hist
  BY <1>1, SameOp DEF StateInv, Readying, Last, Was
<1>2. CASE Change
  <2>1. PICK move \in Moves : move[1] = Last.state /\ hist' = Event(move[2]) /\ UNCHANGED <<op, now>>
    BY <1>2 DEF Change, call
  <2>2. move[2] \in States
    BY MovesStates DEF TypeInv
  <2> QED
    BY <2>1, <2>2, ChangeState DEF TypeInv
<1>3. CASE (Delete \/ GetFailed) /\ hist' # hist
  <2>1. op = "delete" /\ op' = op /\ now' = now /\ hist' = Event("deleted")
    BY <1>3 DEF Delete, GetFailed, call
  <2>2. Last'.state = "deleted"
    BY <2>1, HistGrows DEF States, TypeInv
  <2> QED
    BY <2>1, <2>2 DEF StateInv, Readying, SessionOps
<1>4. CASE \E accepted \in BOOLEAN : Detach(accepted)
  BY <1>4, SameOp DEF Detach, PlaceInv, StateInv, Readying, SessionOps
<1> QED
  BY <1>1, <1>2, <1>3, <1>4
     DEF Next, CreateStep, WaitStep, Created, CreateFailed, StreamEvent, StreamEnd, Check, GetOk,
         GetRetryable, GetFailed, Sleep, HandlerFails, Cancel, Tick, Over, engine, vars

-----------------------------------------------------------------------------
(* Every step keeps the clock and its place.                               *)

LEMMA VisibleIs ==
  ASSUME TypeInv, HistInv, NEW i \in Visible
  PROVE /\ i \in Nat \ {0} /\ i >= served /\ i \in 1..Len(hist)
        /\ i = Len(hist) \/ asked <= Last.at + Lag
<1>1. i \in served..Len(hist) /\ Len(hist) \in Nat
  BY DEF Visible, HistInv
<1>2. CASE i # Len(hist)
  <2>1. i + 1 \in 1..Len(hist) /\ Len(hist) \in 1..Len(hist)
    BY <1>1, <1>2 DEF TypeInv
  <2>2. hist[i + 1] \in Entries /\ Last \in Entries /\ hist[i + 1].at <= Last.at
    BY <2>1 DEF HistInv, Last
  <2>3. asked - hist[i + 1].at <= Lag
    BY <1>2 DEF Visible
  <2>4. asked <= Last.at + Lag
    BY <2>2, <2>3, WaitsAssumption DEF Entries, TypeInv
  <2> QED
    BY <1>1, <2>4 DEF TypeInv
<1> QED
  BY <1>1, <1>2 DEF TypeInv

\* The counters of the poll.
LEMMA Counters ==
  ASSUME TypeInv, HistInv, Next
  PROVE {faults', seen', served', asked'} \subseteq Nat /\ served' >= 1 /\ asked' <= now'
<1> USE DEF TypeInv, engine, call, poll, replay
<1>1. CASE CreateStep
  BY <1>1 DEF CreateStep, Created, CreateFailed
<1>2. CASE StreamEvent
  BY <1>2 DEF StreamEvent, HistInv
<1>3. ASSUME NEW how, StreamEnd(how) PROVE {faults', seen', served', asked'} \subseteq Nat /\ served' >= 1 /\ asked' <= now'
  BY <1>3 DEF StreamEnd
<1>4. CASE Check
  BY <1>4 DEF Check
<1>5. CASE GetOk
  <2>1. PICK i \in Visible : served' = i /\ (IF op = "build" THEN Replay(i) ELSE UNCHANGED <<seen, given>>)
    BY <1>5 DEF GetOk
  <2>2. i \in Nat \ {0}
    BY VisibleIs
  <2>3. seen' \in Nat
    <3>1. CASE op = "build"
      BY <2>1, <2>2, <3>1, MaxEvents DEF Replay
    <3>2. CASE op # "build"
      BY <2>1, <3>2
    <3> QED
      BY <3>1, <3>2
  <2> QED
    BY <1>5, <2>1, <2>2, <2>3 DEF GetOk
<1>6. CASE GetRetryable
  BY <1>6 DEF GetRetryable
<1>7. CASE GetFailed \/ Sleep \/ Tick \/ Cancel \/ Change
  BY <1>7 DEF GetFailed, Sleep, Tick, Cancel, Change
<1>8. CASE HandlerFails
  <2>1. PICK i \in Visible : served' = i /\ \E n \in Events(i) : seen' = n - 1
    BY <1>8 DEF HandlerFails
  <2>2. i \in Nat \ {0}
    BY VisibleIs
  <2> QED
    BY <1>8, <2>1, <2>2 DEF HandlerFails, Events
<1>9. CASE Delete \/ \E accepted \in BOOLEAN : Detach(accepted)
  BY <1>9 DEF Delete, Detach
<1>10. CASE Over
  BY <1>10 DEF Over, vars
<1> QED
  BY <1>1, <1>2, <1>3, <1>4, <1>5, <1>6, <1>7, <1>8, <1>9, <1>10 DEF Next, WaitStep

Kept == TypeInv /\ PlaceInv /\ DueInv

LEMMA CreateKeeps == ASSUME Kept, HistInv, Next, CreateStep PROVE Kept'
<1> USE DEF Kept, engine, call, poll, replay
<1>0. {faults', seen', served', asked'} \subseteq Nat /\ served' >= 1 /\ asked' <= now'
  BY Counters
<1>1. CASE Created
  <2>0. pc = "create" /\ op = "create" /\ start' = now /\ began' = now
        /\ UNCHANGED <<op, limit, now, backoff, ctx>>
    BY <1>1 DEF Created, PlaceInv
  <2>1. CASE Return("ok") \/ Return("terminal")
    <3>1. pc' = "done" /\ due' = now /\ out' # "none" /\ now \in Nat
      BY <2>1 DEF Return, TypeInv
    <3> QED
      BY <1>0, <2>0, <3>1, ReturnKeeps DEF Readying
  <2>2. CASE limit > 0 /\ Enter("stream", now + limit)
    <3>1. pc' = "stream" /\ due' = now + limit /\ out' = out
      BY <2>2 DEF Enter
    <3>2. TypeInv'
      BY <1>0, <2>0, <3>1 DEF TypeInv
    <3>3. PlaceInv'
      BY <2>0, <2>2, <3>1 DEF PlaceInv, Readying, Polling, FirstBackoff
    <3>4. DueInv'
      BY <2>0, <2>2, <3>1 DEF DueInv, Readying, TypeInv
    <3> QED
      BY <3>2, <3>3, <3>4
  <2> QED
    BY <1>1, <2>1, <2>2 DEF Created
<1>2. ASSUME NEW how \in {"error", "runtime"}, CreateFailed(how) PROVE Kept'
  <2>1. /\ pc' = "done" /\ due' = now /\ out' # "none"
        /\ UNCHANGED <<op, limit, now, backoff, ctx, start, began>>
    BY <1>2 DEF CreateFailed, Return
  <2> QED
    BY <1>0, <2>1, ReturnKeeps DEF TypeInv
<1> QED
  BY <1>1, <1>2 DEF CreateStep

LEMMA StreamKeeps ==
  ASSUME Kept, HistInv, Next, StreamEvent \/ \E how \in {"closed", "retryable", "fatal"} : StreamEnd(how)
  PROVE Kept'
<1> USE DEF Kept, engine, call, poll, replay
<1>0. /\ {faults', seen', served', asked'} \subseteq Nat /\ served' >= 1 /\ asked' <= now'
      /\ {now, start, began, limit, due} \subseteq Nat /\ start <= began /\ began <= now
  BY Counters DEF TypeInv
<1>1. CASE StreamEvent
  <2>0. UNCHANGED <<op, limit, now, backoff, ctx, start, began, faults>>
    BY <1>1 DEF StreamEvent
  <2>1. CASE Return("ok") \/ Return("terminal")
    <3>1. pc' = "done" /\ due' = now /\ out' # "none"
      BY <2>1 DEF Return
    <3> QED
      BY <1>0, <2>0, <3>1, ReturnKeeps
  <2>2. CASE UNCHANGED <<pc, due, out>>
    BY <1>0, <1>1, <2>0, <2>2 DEF StreamEvent, TypeInv, PlaceInv, DueInv, Readying, Polling, FirstBackoff
  <2> QED
    BY <1>1, <2>1, <2>2 DEF StreamEvent
<1>2. ASSUME NEW how \in {"closed", "retryable", "fatal"}, StreamEnd(how) PROVE Kept'
  <2>0. pc = "stream" /\ Readying /\ began' = now /\ UNCHANGED <<op, limit, now, backoff, ctx, start, faults>>
    BY <1>2 DEF StreamEnd, PlaceInv
  <2>1. CASE \E end \in {"ok", "terminal", "cancelled", "error"} : Return(end)
    <3>1. pc' = "done" /\ due' = now /\ out' # "none"
      BY <2>1 DEF Return
    <3> QED
      BY <1>0, <2>0, <3>1, ReturnKeeps
  <2>2. CASE now < start + limit /\ Enter("check", now)
    <3>1. pc' = "check" /\ due' = now /\ out' = out
      BY <2>2 DEF Enter
    <3>2. TypeInv'
      BY <1>0, <2>0, <3>1 DEF TypeInv
    <3>3. PlaceInv'
      BY <2>0, <2>2, <3>1 DEF PlaceInv, Readying, Polling, FirstBackoff
    <3>4. DueInv'
      BY <1>0, <2>0, <2>2, <3>1 DEF DueInv, Readying
    <3> QED
      BY <3>2, <3>3, <3>4
  <2> QED
    BY <1>2, <2>1, <2>2 DEF StreamEnd
<1> QED
  BY <1>1, <1>2

LEMMA CheckKeeps == ASSUME Kept, HistInv, Next, Check PROVE Kept'
<1> USE DEF Kept, engine, call, poll, replay
<1>0. /\ {faults', seen', served', asked'} \subseteq Nat /\ served' >= 1 /\ asked' <= now' /\ pc = "check"
      /\ {now, start, began, limit, due, faults} \subseteq Nat /\ start <= began /\ began <= now
      /\ UNCHANGED <<op, limit, now, backoff, ctx, start, began>>
  BY Counters DEF TypeInv, Check
<1>1. CASE Return("cancelled") \/ Return("timeout")
  <2>1. pc' = "done" /\ due' = now /\ out' # "none"
    BY <1>1 DEF Return
  <2> QED
    BY <1>0, <2>1, ReturnKeeps
<1>2. CASE /\ ~Expired
           /\ \E stalls \in BOOLEAN :
                /\ faults' = IF stalls THEN faults + 1 ELSE faults
                /\ Enter("get", IF stalls THEN CallEnds ELSE Min({now + 1, CallEnds}))
  <2>1. now \in Nat /\ Deadline \in Nat /\ Deadline = start + limit
    BY <1>0, DeadlineIs
  <2>2. Readying => now < Deadline /\ limit > 0
    BY <1>0, <1>2, <2>1 DEF Expired, PlaceInv, Polling, Unbounded, Readying
  <2>3. Readying => now <= Deadline
    BY <2>1, <2>2
  <2>4. PICK stalls \in BOOLEAN :
             /\ faults' = IF stalls THEN faults + 1 ELSE faults
             /\ pc' = "get" /\ out' = out
             /\ due' = IF stalls THEN CallEnds ELSE Min({now + 1, CallEnds})
    BY <1>2 DEF Enter
  <2>5. due' \in Nat /\ due' >= now /\ (Readying => due' <= start + limit)
    BY <1>0, <2>3, <2>4, CallEndsAt
  <2>6. faults' = 0 => due' <= now + 1 /\ faults = 0
    BY <1>0, <2>3, <2>4, CallEndsAt
  <2>7. TypeInv'
    BY <1>0, <2>4, <2>5 DEF TypeInv
  <2>8. PlaceInv'
    BY <1>0, <2>4 DEF PlaceInv, Readying, Polling, FirstBackoff
  <2>9. ~Readying /\ op # "delete" /\ limit > 0 => now < limit
    <3>1. ~Readying => start = 0 /\ began = 0
      BY <1>0 DEF PlaceInv
    <3> QED
      BY <1>0, <1>2, <2>1, <3>1 DEF Expired, Unbounded
  <2>10. op = "delete" /\ faults = 0 => now <= limit + 2 * BackoffCap - 1
    BY <1>0 DEF DueInv
  <2>11. DueInv'
    <3>1. (Readying /\ limit > 0 /\ pc # "done" => due <= start + limit)'
      BY <1>0, <2>5 DEF Readying
    <3>2. (~Readying /\ op # "delete" /\ limit > 0 /\ faults = 0 => due <= limit)'
      BY <1>0, <2>5, <2>6, <2>9 DEF Readying
    <3>3. (op = "delete" /\ faults = 0 => due <= limit + 2 * BackoffCap)'
      BY <1>0, <2>5, <2>6, <2>10, WaitsAssumption
    <3> QED
      BY <1>0, <2>4, <2>5, <3>1, <3>2, <3>3 DEF DueInv
  <2> QED
    BY <2>7, <2>8, <2>11
<1> QED
  BY <1>1, <1>2 DEF Check

\* The answer to a call: the wait ends, or it backs off.
LEMMA AnswerKeeps ==
  ASSUME Kept, pc = "get", Backoff, UNCHANGED <<op, limit, now, ctx, start, began>>,
         {faults', seen', served', asked', backoff'} \subseteq Nat, served' >= 1, asked' <= now', faults' >= faults,
         op # "delete" => backoff' = backoff,
         op = "delete" => now <= limit /\ backoff' \in 1..(2 * BackoffCap - 1)
  PROVE Kept'
<1> USE DEF Kept
<1>0. /\ pc' = "sleep" /\ out' = out /\ due' \in Nat /\ due' >= now
      /\ op # "delete" => due' <= now + FirstBackoff /\ FirstBackoff \in 1..2
      /\ op = "delete" => due' = now + backoff
      /\ Readying => due' <= start + limit
  BY BackoffIs
<1>1. {now, start, began, limit, due, faults} \subseteq Nat /\ start <= began /\ began <= now
  BY DEF TypeInv
<1>2. TypeInv'
  BY <1>0 DEF TypeInv
<1>3. PlaceInv'
  BY <1>0 DEF PlaceInv, Readying, Polling, FirstBackoff
<1>4. ~Readying /\ op # "delete" /\ limit > 0 /\ faults' = 0 => now <= limit
  BY <1>1 DEF DueInv
<1>5. op = "delete" => backoff <= 2 * BackoffCap - 1 /\ backoff \in Nat
  BY WaitsAssumption DEF PlaceInv
<1>6. op = "delete" => due' <= limit + 2 * BackoffCap - 1
  BY <1>0, <1>1, <1>5, WaitsAssumption
<1>7. ~Readying /\ op # "delete" /\ limit > 0 => due' <= now + 1
  BY <1>0, <1>1 DEF PlaceInv, FirstBackoff
<1>8. DueInv'
  BY <1>0, <1>1, <1>4, <1>6, <1>7 DEF DueInv, Readying
<1> QED
  BY <1>2, <1>3, <1>8

LEMMA GetKeeps ==
  ASSUME Kept, HistInv, Next, GetOk \/ GetRetryable \/ GetFailed \/ HandlerFails
  PROVE Kept'
<1> USE DEF Kept, engine, call, poll, replay
<1>0. /\ {faults', seen', served', asked', backoff'} \subseteq Nat /\ served' >= 1 /\ asked' <= now' /\ pc = "get" /\ backoff' = backoff
      /\ UNCHANGED <<op, limit, now, ctx, start, began>>
  BY Counters DEF TypeInv, GetOk, GetRetryable, GetFailed, HandlerFails
<1>1. faults' >= faults
  BY DEF TypeInv, GetOk, GetRetryable, GetFailed, HandlerFails
<1>2. \/ op # "delete" /\ Backoff
      \/ pc' = "done" /\ due' = now /\ out' # "none"
  <2>1. CASE GetOk
    <3>1. PICK s : Settle(s) /\ op # "delete"
      BY <2>1 DEF GetOk
    <3>2. Verdict(s) # "none"
      BY <3>1, VerdictIs DEF TypeInv
    <3> QED
      BY <3>1, <3>2 DEF Settle, Return
  <2>2. CASE GetRetryable
    BY <2>2 DEF GetRetryable, Readying, SessionOps
  <2>3. CASE GetFailed
    BY <2>3 DEF GetFailed, Readying, Return
  <2>4. CASE HandlerFails
    BY <2>4 DEF HandlerFails, Return
  <2> QED
    BY <2>1, <2>2, <2>3, <2>4
<1>3. {now, start, began} \subseteq Nat /\ start <= began /\ began <= now
  BY DEF TypeInv
<1> QED
  BY <1>0, <1>1, <1>2, <1>3, AnswerKeeps, ReturnKeeps

LEMMA DeleteKeeps == ASSUME Kept, HistInv, Next, Delete PROVE Kept'
<1> USE DEF Kept, engine, call, poll, replay
<1>0. /\ {faults', seen', served', asked'} \subseteq Nat /\ served' >= 1 /\ asked' <= now' /\ pc = "get" /\ op = "delete"
      /\ UNCHANGED <<op, limit, now, ctx, start, began, faults>>
      /\ {now, start, began, faults, limit} \subseteq Nat /\ start <= began /\ began <= now /\ start = 0
  BY Counters DEF TypeInv, Delete, PlaceInv, Readying
<1>1. backoff' = backoff \/ (backoff < BackoffCap /\ backoff' = 2 * backoff)
  BY DEF Delete
<1>2. backoff \in 1..(2 * BackoffCap - 1) /\ backoff' \in 1..(2 * BackoffCap - 1) /\ backoff' \in Nat
  BY <1>0, <1>1, WaitsAssumption DEF PlaceInv
<1>3. CASE Backoff /\ now <= Deadline
  <2>1. now <= limit
    BY <1>0, <1>3, DeadlineIs
  <2> QED
    BY <1>0, <1>2, <1>3, <2>1, AnswerKeeps
<1>4. CASE pc' = "done" /\ due' = now /\ out' # "none"
  <2>1. TypeInv'
    BY <1>0, <1>2, <1>4 DEF TypeInv
  <2>2. PlaceInv'
    BY <1>0, <1>2, <1>4 DEF PlaceInv, Readying, Polling, FirstBackoff
  <2>3. DueInv'
    BY <1>0, <1>4 DEF DueInv, Readying
  <2> QED
    BY <2>1, <2>2, <2>3
<1> QED
  BY <1>3, <1>4 DEF Delete, Retries, Return

LEMMA DetachKeeps == ASSUME Kept, HistInv, Next, NEW accepted \in BOOLEAN, Detach(accepted) PROVE Kept'
<1> USE DEF Kept, engine, call, poll, replay
<1>0. /\ {faults', seen', served', asked'} \subseteq Nat /\ served' >= 1 /\ asked' <= now' /\ pc = "detach" /\ op = "detach"
      /\ UNCHANGED <<op, limit, now, ctx, start, began, faults, backoff>>
      /\ {now, start, began, faults, limit, due} \subseteq Nat /\ start <= began /\ began <= now
  BY Counters DEF TypeInv, Detach, PlaceInv
<1>1. CASE pc' = "done" /\ due' = now /\ out' # "none"
  BY <1>0, <1>1, ReturnKeeps
<1>2. CASE Enter("check", now)
  <2>1. pc' = "check" /\ due' = now /\ out' = out
    BY <1>2 DEF Enter
  <2>2. TypeInv'
    BY <1>0, <2>1 DEF TypeInv
  <2>3. PlaceInv'
    BY <1>0, <2>1 DEF PlaceInv, Readying, Polling, FirstBackoff
  <2>4. DueInv'
    BY <1>0, <2>1 DEF DueInv, Readying
  <2> QED
    BY <2>2, <2>3, <2>4
<1> QED
  BY <1>1, <1>2 DEF Detach, Return

LEMMA OtherKeeps ==
  ASSUME Kept, HistInv, Next, Sleep \/ Tick \/ Cancel \/ Change \/ Over PROVE Kept'
<1> USE DEF Kept, engine, call, poll, replay
<1>0. /\ {faults', seen', served', asked'} \subseteq Nat /\ served' >= 1 /\ asked' <= now'
      /\ {now, start, began, faults, limit, due} \subseteq Nat /\ start <= began /\ began <= now
  BY Counters DEF TypeInv
<1>1. CASE Sleep
  <2>0. pc = "sleep" /\ UNCHANGED <<op, limit, now, ctx, start, began, faults, backoff>>
    BY <1>1 DEF Sleep
  <2>1. CASE Return("cancelled")
    <3>1. pc' = "done" /\ due' = now /\ out' # "none"
      BY <2>1 DEF Return
    <3> QED
      BY <1>0, <2>0, <3>1, ReturnKeeps
  <2>2. CASE Enter("check", now)
    <3>1. pc' = "check" /\ due' = now /\ out' = out
      BY <2>2 DEF Enter
    <3>2. TypeInv'
      BY <1>0, <2>0, <3>1 DEF TypeInv
    <3>3. PlaceInv'
      BY <2>0, <3>1 DEF PlaceInv, Readying, Polling, FirstBackoff
    <3>4. DueInv'
      BY <1>0, <2>0, <3>1, WaitsAssumption DEF DueInv, Readying
    <3> QED
      BY <3>2, <3>3, <3>4
  <2> QED
    BY <1>1, <2>1, <2>2 DEF Sleep
<1>2. CASE Tick
  <2>0. pc # "done" /\ UNCHANGED <<op, limit, ctx, start, began, faults, backoff, pc, due, out>>
    BY <1>2 DEF Tick
  <2>1. now' = now + 1 /\ now' <= due /\ now' <= MaxTime
    BY <1>2, TickIs
  <2>2. TypeInv'
    BY <1>0, <2>0, <2>1 DEF TypeInv
  <2>3. PlaceInv'
    BY <2>0 DEF PlaceInv, Readying, Polling, FirstBackoff
  <2>4. DueInv'
    BY <1>0, <2>0, <2>1 DEF DueInv, Readying
  <2> QED
    BY <2>2, <2>3, <2>4
<1>3. CASE UNCHANGED <<op, limit, now, start, began, faults, backoff, pc, due, out>>
            /\ ctx' \in {ctx, "cancelled"}
  <2>1. TypeInv'
    BY <1>0, <1>3 DEF TypeInv
  <2>2. PlaceInv'
    BY <1>3 DEF PlaceInv, Readying, Polling, FirstBackoff
  <2>3. DueInv'
    BY <1>3 DEF DueInv, Readying
  <2> QED
    BY <2>1, <2>2, <2>3
<1> QED
  BY <1>1, <1>2, <1>3 DEF Cancel, Change, Over, vars

LEMMA KeptStep == ASSUME Kept, HistInv, Next PROVE Kept'
  BY CreateKeeps, StreamKeeps, CheckKeeps, GetKeeps, DeleteKeeps, DetachKeeps, OtherKeeps
     DEF Next, WaitStep

-----------------------------------------------------------------------------
(* What the wait has read.                                                 *)

\* What was read did happen: a pause or resume seen under way was read after the
\* state it started from, and a session seen to terminate is not coming back.
ViewInv ==
  /\ served <= Len(hist)
  /\ op \in {"pause", "resume"} /\ saw => served >= 2
  /\ op \in SessionOps /\ IsTerminal(view) => IsTerminal(Last.state)

\* The handler got the events up to the last one seen, and none was seen that
\* was not served.
EventInv ==
  /\ given \in Seq(Nat) /\ given = Numbers(0, Len(given))
  /\ pc # "done" => seen = Len(given)
  /\ op = "build" /\ pc # "done" => seen < served

\* the waits that have to report a settled resource
Watched == Settled /\ IF Readying THEN ctx = "live" ELSE faults = 0

\* Once the resource has settled, the poll under way is the last but one.
PollInv ==
  op # "delete" /\ Polling =>
    /\ pc = "sleep" => due <= now + FirstBackoff
    /\ pc = "get" /\ ~stalled => due <= asked + 1
    /\ pc = "get" /\ stalled => faults >= 1 /\ (Readying => due <= now + Attempt)
    /\ Watched =>
         /\ pc \in {"check", "sleep"} => due <= Telling + FirstBackoff + 1
         /\ pc = "get" => due <= Telling + IF stalled THEN FirstBackoff ELSE FirstBackoff + 2

\* CreateSession is held no longer than Held, and the wait after it begins by then.
HeldInv ==
  op = "create" /\ limit > 0 => start <= Held /\ (pc = "create" => due <= Held)

\* After CreateSession the SDK knows the session, unless the call failed.
KnownInv ==
  op = "create" =>
    \/ pc = "create" /\ view = "absent"
    \/ pc # "create" /\ view # "absent" /\ Last.state # "absent"
    \/ pc = "done" /\ out = "error" /\ view = "absent"

IInv ==
  /\ Kept /\ KnownInv /\ HeldInv /\ HistInv /\ StateInv /\ ViewInv /\ EventInv /\ PollInv
  /\ OutcomeIsReal /\ TimeoutIsReal /\ EventsOnce

\* What GetOk reads.
LEMMA GetOkIs ==
  ASSUME Kept, HistInv, GetOk
  PROVE \E i \in Visible :
          /\ i \in 1..Len(hist) /\ i >= served /\ i \in Nat \ {0} /\ hist[i] \in Entries
          /\ i = Len(hist) \/ asked <= Last.at + Lag
          /\ served' = i /\ Settle(hist[i].state) /\ saw' = (saw \/ Underway(hist[i].state))
          /\ op # "detach" => view' = hist[i].state
          /\ IF op = "build" THEN Replay(i) ELSE UNCHANGED <<seen, given>>
<1>1. PICK i \in Visible :
          /\ served' = i /\ Settle(hist[i].state) /\ saw' = (saw \/ Underway(hist[i].state))
          /\ op # "detach" => view' = hist[i].state
          /\ IF op = "build" THEN Replay(i) ELSE UNCHANGED <<seen, given>>
  BY DEF GetOk
<1>2. /\ i \in 1..Len(hist) /\ i >= served /\ i \in Nat \ {0}
      /\ i = Len(hist) \/ asked <= Last.at + Lag
  BY VisibleIs DEF Kept
<1>3. hist[i] \in Entries
  BY <1>2 DEF HistInv
<1> QED
  BY <1>1, <1>2, <1>3

LEMMA ViewStep ==
  ASSUME Kept, HistInv, HistInv', StateInv, StateInv', ViewInv, Next PROVE ViewInv'
<1> USE DEF engine, call, poll, replay
<1>0. UNCHANGED op /\ Len(hist) \in Nat /\ Len(hist) >= 1
  BY SameOp DEF HistInv
<1>1. CASE UNCHANGED <<hist, served, saw, view>>
  BY <1>0, <1>1 DEF ViewInv, Last
<1>2. CASE \E s \in States : hist' = Event(s) /\ UNCHANGED <<now, served, saw>>
                             /\ (op \in SessionOps => view' = view)
  <2>1. PICK s \in States : hist' = Event(s) /\ now' = now
    BY <1>2
  <2>2. Len(hist') = Len(hist) + 1 /\ \A i \in 1..Len(hist) : hist'[i] = hist[i]
    BY <2>1, HistGrows DEF Kept, TypeInv
  <2>3. Len(hist) \in 1..Len(hist) /\ Len(hist) \in 1..Len(hist')
    BY <1>0, <2>2
  <2>4. op \in SessionOps /\ IsTerminal(Last.state) => IsTerminal(Last'.state)
    BY <1>0, <2>2, <2>3 DEF StateInv, Last
  <2> QED
    BY <1>0, <1>2, <2>2, <2>4 DEF ViewInv, Kept, TypeInv
<1>3. CASE CreateStep
  BY <1>0, <1>3 DEF CreateStep, Created, CreateFailed, ViewInv, Last, Kept, PlaceInv, Readying
<1>4. CASE StreamEvent
  BY <1>0, <1>4 DEF StreamEvent, ViewInv, Last, Kept, PlaceInv, Readying
<1>5. CASE GetOk
  <2>1. PICK i \in Visible :
          /\ i \in 1..Len(hist) /\ i >= served /\ hist[i] \in Entries
          /\ served' = i /\ saw' = (saw \/ Underway(hist[i].state))
          /\ op # "detach" => view' = hist[i].state
    BY <1>5, GetOkIs
  <2>2. hist' = hist /\ Last' = Last
    BY <1>5 DEF GetOk, Last
  <2>3. op \in SessionOps /\ IsTerminal(view') => IsTerminal(Last.state)
    BY <2>1 DEF StateInv, SessionOps
  <2>4. op \in {"pause", "resume"} /\ saw' => i >= 2
    <3>1. CASE saw
      BY <2>1, <3>1 DEF ViewInv, Kept, TypeInv
    <3>2. CASE Underway(hist[i].state)
      BY <2>1, <3>2 DEF Underway, StateInv
    <3> QED
      BY <2>1, <3>1, <3>2
  <2> QED
    BY <1>0, <2>1, <2>2, <2>3, <2>4 DEF ViewInv
<1>6. CASE HandlerFails
  <2>1. PICK i \in Visible : served' = i
    BY <1>6 DEF HandlerFails
  <2>2. i \in 1..Len(hist)
    BY VisibleIs DEF Kept
  <2> QED
    BY <1>0, <1>6, <2>1, <2>2 DEF HandlerFails, ViewInv, SessionOps
<1>7. CASE Change
  BY <1>2, <1>7, MovesStates DEF Change, Kept, TypeInv
<1>8. CASE Delete \/ (GetFailed /\ hist' # hist) \/ \E accepted \in BOOLEAN : Detach(accepted)
  <2>1. op \notin SessionOps /\ UNCHANGED <<now, served, saw>>
    BY <1>8 DEF Delete, GetFailed, Detach, Kept, PlaceInv, SessionOps
  <2>2. hist' = hist \/ hist' = Event("deleted") \/ hist' = Event("detaching")
    BY <1>8 DEF Delete, GetFailed, Detach
  <2>3. CASE hist' = hist
    BY <1>0, <2>1, <2>3 DEF ViewInv, SessionOps
  <2> QED
    BY <1>2, <2>1, <2>2, <2>3 DEF States
<1> QED
  BY <1>1, <1>3, <1>4, <1>5, <1>6, <1>7, <1>8
     DEF Next, WaitStep, StreamEnd, Check, GetRetryable, GetFailed, Sleep, Cancel, Tick, Over, vars

LEMMA EventStep ==
  ASSUME Kept, HistInv, ViewInv, EventInv, Next PROVE EventInv'
<1> USE DEF engine, call, poll, replay
<1>0. UNCHANGED op /\ {seen, served} \subseteq Nat
  BY SameOp DEF Kept, TypeInv
<1>1. CASE UNCHANGED <<seen, given>> /\ (op = "build" => served' = served) /\ (pc = "done" => pc' = "done")
  BY <1>0, <1>1 DEF EventInv
<1>2. CASE GetOk
  <2>1. PICK i \in Visible :
          /\ i \in 1..Len(hist) /\ i >= served /\ i \in Nat \ {0} /\ served' = i
          /\ IF op = "build" THEN Replay(i) ELSE UNCHANGED <<seen, given>>
    BY <1>2, GetOkIs
  <2>2. pc = "get"
    BY <1>2 DEF GetOk
  <2>3. CASE op = "build"
    <3>1. seen < served /\ seen = Len(given) /\ given = Numbers(0, seen)
      BY <2>2, <2>3 DEF EventInv
    <3>2. seen' = i - 1 /\ seen' >= seen /\ seen' \in Nat
      BY <1>0, <2>1, <2>3, <3>1, MaxEvents DEF Replay
    <3>3. given' = Numbers(0, seen) \o Numbers(seen, seen')
      BY <2>1, <2>3, <3>1 DEF Replay
    <3>4. PICK m \in Nat : m = seen'
      BY <3>2
    <3>5. given' = Numbers(0, m)
      BY <1>0, <3>2, <3>3, <3>4, NumbersJoin
    <3>6. given' \in Seq(Nat) /\ Len(given') = m
      BY <3>5, NumbersJoin
    <3> QED
      BY <2>1, <3>2, <3>4, <3>5, <3>6 DEF EventInv
  <2>4. CASE op # "build"
    BY <1>0, <2>1, <2>2, <2>4 DEF EventInv
  <2> QED
    BY <2>3, <2>4
<1>3. CASE HandlerFails
  <2>1. PICK i \in Visible : \E n \in Events(i) : n > seen /\ given' = given \o Numbers(seen, n)
    BY <1>3 DEF HandlerFails
  <2>2. i \in Nat \ {0} /\ pc' = "done" /\ pc = "get"
    BY <1>3, VisibleIs DEF HandlerFails, Return, Kept
  <2>3. PICK n \in Nat : n > seen /\ given' = given \o Numbers(seen, n)
    BY <2>1, <2>2 DEF Events
  <2>4. PICK m \in Nat : m = seen /\ m <= n /\ given = Numbers(0, m)
    BY <1>0, <2>2, <2>3 DEF EventInv
  <2>5. given' = Numbers(0, m) \o Numbers(m, n)
    BY <2>3, <2>4
  <2>6. given' = Numbers(0, n)
    BY <2>4, <2>5, NumbersJoin
  <2>7. given' \in Seq(Nat) /\ Len(given') = n
    BY <2>6, NumbersJoin
  <2> QED
    BY <2>2, <2>6, <2>7 DEF EventInv
<1>4. CASE CreateStep \/ StreamEvent
  <2>1. op # "build" /\ UNCHANGED <<seen, given>> /\ pc # "done"
    BY <1>4 DEF CreateStep, Created, CreateFailed, StreamEvent, Kept, PlaceInv, Readying
  <2> QED
    BY <1>1, <2>1
<1>5. CASE Delete \/ \E accepted \in BOOLEAN : Detach(accepted)
  BY <1>1, <1>5 DEF Delete, Detach
<1>6. CASE Tick \/ Change \/ Cancel \/ Over
  BY <1>1, <1>6 DEF Tick, Change, Cancel, Over, vars
<1> QED
  BY <1>1, <1>2, <1>3, <1>4, <1>5, <1>6
     DEF Next, WaitStep, StreamEnd, Check, GetRetryable, GetFailed, Sleep

-----------------------------------------------------------------------------
(* How a wait ends.                                                        *)

\* The ways to the end of a wait: on an answer to GetOk, on its deadline, on the
\* answer to a delete or a detach, or in a way that reports no state.
LEMMA EndsHow ==
  ASSUME Kept, Next, pc # "done", pc' = "done"
  PROVE \/ GetOk
        \/ Delete
        \/ Check /\ Expired /\ out' = "timeout"
        \/ op = "detach" /\ limit = 0 /\ out' = "ok"
        \/ Readying /\ out' \in {"ok", "terminal", "cancelled", "error", "runtime"} /\ hist' = hist
        \/ out' \in {"cancelled", "error", "handler"} /\ (op = "delete" => hist' = hist \/ out' = "error")
<1> USE DEF Return, Enter, engine, call, poll, replay
<1>1. CASE CreateStep
  BY <1>1 DEF CreateStep, Created, CreateFailed, Kept, PlaceInv, Readying
<1>2. CASE StreamEvent
  BY <1>2 DEF StreamEvent, Kept, PlaceInv
<1>3. ASSUME NEW how, StreamEnd(how)
      PROVE Readying /\ out' \in {"ok", "terminal", "cancelled", "error", "runtime"} /\ hist' = hist
  <2>1. pc = "stream" /\ hist' = hist
    BY <1>3 DEF StreamEnd
  <2>2. out' \in {"ok", "terminal", "cancelled", "error"}
    BY <1>3 DEF StreamEnd
  <2> QED
    BY <2>1, <2>2 DEF Kept, PlaceInv
<1>4. CASE Check
  BY <1>4 DEF Check
<1>5. CASE GetRetryable
  BY <1>5 DEF GetRetryable, Backoff
<1>6. CASE GetFailed
  BY <1>6 DEF GetFailed, Backoff
<1>7. CASE Sleep
  BY <1>7 DEF Sleep
<1>8. CASE HandlerFails
  BY <1>8 DEF HandlerFails
<1>9. ASSUME NEW accepted \in BOOLEAN, Detach(accepted)
      PROVE \/ op = "detach" /\ limit = 0 /\ out' = "ok"
            \/ out' = "error" /\ op = "detach"
  BY <1>9 DEF Detach, Kept, PlaceInv
<1>10. CASE Tick \/ Cancel \/ Over \/ Change
  BY <1>10 DEF Tick, Cancel, Over, Change, vars
<1> QED
  BY <1>1, <1>2, <1>3, <1>4, <1>5, <1>6, <1>7, <1>8, <1>9, <1>10 DEF Next, WaitStep

\* What GetOk ends with is the verdict on the state it read.
LEMMA GetOkEnds ==
  ASSUME Kept, HistInv, GetOk, pc' = "done"
  PROVE \E i \in Visible :
          /\ i \in 1..Len(hist) /\ i >= served /\ hist[i] \in Entries
          /\ i = Len(hist) \/ asked <= Last.at + Lag
          /\ served' = i /\ hist' = hist /\ op \in AllOps \ {"delete"}
          /\ Verdict(hist[i].state) # "wait" /\ out' = Verdict(hist[i].state)
          /\ op = "build" => Replay(i)
<1>1. PICK i \in Visible :
          /\ i \in 1..Len(hist) /\ i >= served /\ hist[i] \in Entries
          /\ i = Len(hist) \/ asked <= Last.at + Lag
          /\ served' = i /\ Settle(hist[i].state)
          /\ op = "build" => Replay(i)
  BY GetOkIs
<1>2. Verdict(hist[i].state) # "wait" /\ out' = Verdict(hist[i].state)
  BY <1>1 DEF Settle, Backoff, Enter, Return
<1>3. hist' = hist /\ op \in AllOps \ {"delete"}
  BY DEF GetOk, engine, Kept, TypeInv
<1> QED
  BY <1>1, <1>2, <1>3

LEMMA EventsStep ==
  ASSUME Kept, HistInv, StateInv, ViewInv, EventInv, EventInv', EventsOnce, Next PROVE EventsOnce'
<1>1. CASE pc = "done"
  BY <1>1, Frozen DEF EventsOnce, vars, engine, call, poll, replay
<1>2. CASE pc' # "done" /\ pc # "done"
  <2>1. Kept'
    BY KeptStep
  <2> QED
    BY <1>2, <2>1 DEF EventsOnce, EventInv, Kept, TypeInv
<1>3. CASE pc # "done" /\ pc' = "done" /\ op = "build" /\ GetOk
  <2>1. PICK i \in Visible :
          /\ i \in 1..Len(hist) /\ i >= served /\ hist' = hist
          /\ out' = Verdict(hist[i].state) /\ Replay(i)
    BY <1>3, GetOkEnds
  <2>2. i \in Nat \ {0} /\ {seen, served} \subseteq Nat /\ pc = "get"
    BY <1>3, VisibleIs DEF Kept, TypeInv, GetOk
  <2>3. seen < served /\ seen = Len(given) /\ given = Numbers(0, seen)
    BY <1>3, <2>2 DEF EventInv
  <2>4. PICK m \in Nat, n \in Nat : m = seen /\ n = i - 1 /\ m <= n
    BY <2>1, <2>2, <2>3
  <2>5. seen' = n
    BY <2>1, <2>2, <2>4, MaxEvents DEF Replay
  <2>6. given' = Numbers(0, n)
    BY <2>1, <2>3, <2>4, <2>5, NumbersJoin DEF Replay
  <2>7. Len(given') = i - 1
    BY <2>4, <2>6, NumbersJoin
  <2>8. out' \in {"ok", "failed"} => i = Len(hist)
    BY <1>3, <2>1, VerdictOf DEF EndsBy, BuildEnds, StateInv
  <2> QED
    BY <2>1, <2>7, <2>8, SameOp DEF EventsOnce, EventInv
<1>4. CASE pc # "done" /\ pc' = "done" /\ ~(op = "build" /\ GetOk)
  <2>1. op = "build" => out' \notin {"ok", "failed"}
    BY <1>4, EndsHow DEF Delete, Readying
  <2> QED
    BY <2>1, SameOp DEF EventsOnce, EventInv
<1> QED
  BY <1>1, <1>2, <1>3, <1>4

\* A pause or resume is found to have reverted only in a state that came after
\* it began, or by a call made within the lag of its beginning that is answered
\* with the state before it once the grace is over.
LEMMA RevertIsReal ==
  ASSUME Kept, HistInv, StateInv, ViewInv, op \in {"pause", "resume"},
         NEW i \in Visible, Reverted(hist[i].state)
  PROVE \/ i \in 3..Len(hist) /\ hist[i].state \in IF op = "pause" THEN {"running"} ELSE Stopped
        \/ asked <= Lag /\ now > Grace
<1>1. i \in 1..Len(hist) /\ i >= served /\ Len(hist) \in Nat /\ Len(hist) >= 2
  BY VisibleIs DEF Kept, HistInv, StateInv
<1>2. hist[i].state \in IF op = "pause" THEN {"running"} ELSE Stopped
  BY DEF Reverted
<1>3. i # 2
  BY <1>2 DEF StateInv, Stopped
<1>4. ASSUME i = 1 PROVE asked <= Lag /\ now > Grace
  <2>1. hist[2].at = 0 /\ i + 1 = 2
    BY <1>4 DEF StateInv
  <2>2. asked - 0 <= Lag
    BY <1>1, <1>4, <2>1 DEF Visible
  <2>3. asked <= Lag
    BY <2>2, WaitsAssumption DEF Kept, TypeInv
  <2>4. ~saw
    BY <1>1, <1>4 DEF ViewInv, Kept, TypeInv
  <2> QED
    BY <2>3, <2>4 DEF Reverted
<1> QED
  BY <1>1, <1>2, <1>3, <1>4

LEMMA OutcomeGetOk ==
  ASSUME Kept, HistInv, StateInv, ViewInv, GetOk, pc' = "done", op' = op, limit' = limit
  PROVE OutcomeIsReal'
<1>0. UNCHANGED <<now, asked>>
  BY DEF GetOk, engine
<1>1. PICK i \in Visible :
          /\ i \in 1..Len(hist) /\ hist' = hist /\ op \in AllOps \ {"delete"}
          /\ out' = Verdict(hist[i].state)
  BY GetOkEnds
<1>2. ASSUME NEW S, hist[i].state \in S PROVE Was(S)'
  BY <1>1, <1>2 DEF Was
<1>3. CASE op \in {"pause", "resume"}
  <2>1. out' = "failed" => Reverted(hist[i].state)
    BY <1>1, <1>3, VerdictOf DEF SessionOps
  <2>2. out' = "failed" => \/ \E k \in 3..Len(hist) : hist[k].state \in IF op = "pause" THEN {"running"} ELSE Stopped
                           \/ asked <= Lag /\ now > Grace
    BY <1>3, <2>1, RevertIsReal
  <2>3. out' = "ok" => Goal(hist[i].state)
    BY <1>1, <1>3, VerdictOf DEF SessionOps
  <2>4. out' = "ok" => hist[i].state \in {IF op = "pause" THEN "paused" ELSE "running"}
    BY <1>3, <2>3 DEF Goal, IsReady
  <2>5. out' = "ok" => Was({IF op = "pause" THEN "paused" ELSE "running"})'
    BY <1>2, <2>4
  <2>6. out' # "not_durable"
    BY <1>1, <1>3, VerdictOf DEF SessionOps
  <2> QED
    BY <1>0, <1>1, <1>3, <2>2, <2>5, <2>6 DEF OutcomeIsReal
<1>4. CASE op = "durable"
  <2>1. /\ out' = "ok" => hist[i].state \in {"durable"}
        /\ out' = "not_durable" => hist[i].state \in Stalled
    BY <1>1, <1>4, VerdictOf DEF EndsBy, DurableEnds, Stalled
  <2>2. out' = "ok" => Was({"durable"})'
    BY <1>2, <2>1
  <2>3. out' = "not_durable" => Was(Stalled)'
    BY <1>2, <2>1
  <2>4. Was(Stalled)' => ~Was({"durable"})'
    BY <1>1, <1>4 DEF StateInv, Was
  <2> QED
    BY <1>4, <2>2, <2>3, <2>4 DEF OutcomeIsReal, Stalled
<1>5. CASE op = "detach"
  <2>1. /\ out' = "ok" => hist[i].state \in {"detached", "gone"}
        /\ out' # "not_durable"
    BY <1>1, <1>5, VerdictOf DEF EndsBy, DetachEnds
  <2>2. out' = "ok" => Was({"detached", "gone"})'
    BY <1>2, <2>1
  <2> QED
    BY <1>5, <2>1, <2>2 DEF OutcomeIsReal
<1>6. CASE op \in {"create", "ready", "snapshot", "volume", "build"}
  <2>1. out' # "not_durable"
    <3>1. CASE op \in {"create", "ready"}
      BY <1>1, <3>1, VerdictOf DEF SessionOps
    <3>2. CASE op = "snapshot"
      BY <1>1, <3>2, VerdictOf DEF EndsBy, SnapshotEnds
    <3>3. CASE op = "volume"
      BY <1>1, <3>3, VerdictOf DEF EndsBy, VolumeEnds
    <3>4. CASE op = "build"
      BY <1>1, <3>4, VerdictOf DEF EndsBy, BuildEnds
    <3> QED
      BY <1>6, <3>1, <3>2, <3>3, <3>4
  <2> QED
    BY <1>6, <2>1 DEF OutcomeIsReal
<1> QED
  BY <1>1, <1>3, <1>4, <1>5, <1>6 DEF AllOps, SessionOps

LEMMA OutcomeDelete ==
  ASSUME Kept, HistInv, StateInv, OutcomeIsReal, Delete PROVE OutcomeIsReal'
<1>1. pc = "get" /\ op = "delete" /\ op' = op /\ out = "none" /\ Last.state # "deleted" /\ now' = now
  BY DEF Delete, call, OutcomeIsReal, Kept, TypeInv
<1>2. CASE hist' = Event("deleted") /\ Return("ok")
  <2>1. Last'.state = "deleted"
    BY <1>1, <1>2, HistGrows DEF States, Kept, TypeInv
  <2> QED
    BY <1>1, <1>2, <2>1 DEF OutcomeIsReal, Return
<1>3. CASE Last.state # "available" /\ UNCHANGED hist /\ (Backoff \/ Return(IF Last.state = "syncing" THEN "timeout" ELSE "refused"))
  <2>1. Last' = Last
    BY <1>3 DEF Last
  <2>2. out' = "none" \/ (Last.state = "syncing" /\ out' = "timeout") \/ (Last.state # "syncing" /\ out' = "refused")
    BY <1>1, <1>3 DEF Backoff, Enter, Return
  <2>3. out' = "refused" => Last.state = "in_use"
    BY <1>1, <1>3, <2>2 DEF StateInv
  <2> QED
    BY <1>1, <2>1, <2>2, <2>3 DEF OutcomeIsReal
<1> QED
  BY <1>2, <1>3 DEF Delete

LEMMA OutcomeStep ==
  ASSUME Kept, HistInv, StateInv, ViewInv, OutcomeIsReal, Next PROVE OutcomeIsReal'
<1>0. UNCHANGED <<op, limit>>
  BY SameOp
<1>1. CASE pc = "done"
  BY <1>1, Frozen DEF OutcomeIsReal, Was, Last, vars, engine, call, poll
<1>2. CASE Delete
  BY <1>2, OutcomeDelete
<1>3. CASE pc # "done" /\ pc' # "done" /\ ~Delete
  <2>1. out = "none" /\ out' = "none"
    BY <1>3, KeptStep DEF Kept, TypeInv
  <2>2. op = "delete" => Last.state # "deleted"
    BY <2>1 DEF OutcomeIsReal
  <2>3. op = "delete" => Last'.state # "deleted"
    <3>1. CASE Change
      <4>1. PICK move \in Moves : hist' = Event(move[2]) /\ now' = now
        BY <3>1 DEF Change
      <4>2. PICK s \in States : s = move[2]
        BY MovesStates DEF Kept, TypeInv
      <4>3. hist' = Event(s) /\ now \in Nat
        BY <4>1, <4>2 DEF Kept, TypeInv
      <4>4. Last' = [state |-> s, at |-> now]
        BY <4>1, <4>3, HistGrows
      <4>5. op = "delete" => s # "deleted"
        BY <4>2, MovesOf DEF DeleteTransitions
      <4> QED
        BY <4>4, <4>5
    <3>2. CASE UNCHANGED hist
      BY <2>2, <3>2 DEF Last
    <3>3. op = "delete" /\ ~Change => UNCHANGED hist
      BY <1>3 DEF Return, Next, CreateStep, WaitStep, Created, CreateFailed, StreamEvent, StreamEnd, Check, GetOk,
         GetRetryable, GetFailed, Sleep, HandlerFails, Detach, Kept, PlaceInv, Cancel, Tick, Over, Readying, engine, vars
    <3> QED
      BY <3>1, <3>2, <3>3
  <2> QED
    BY <1>0, <2>1, <2>3 DEF OutcomeIsReal
<1>4. CASE pc # "done" /\ pc' = "done" /\ GetOk
  BY <1>0, <1>4, OutcomeGetOk
<1>5. CASE pc # "done" /\ pc' = "done" /\ ~GetOk /\ ~Delete
  <2>1. \/ out' = "timeout" /\ hist' = hist /\ op # "delete"
        \/ op = "detach" /\ limit = 0 /\ out' = "ok"
        \/ Readying /\ out' \in {"ok", "terminal", "cancelled", "error", "runtime"} /\ hist' = hist
        \/ out' \in {"cancelled", "error", "handler"} /\ (op = "delete" => hist' = hist \/ out' = "error")
    BY <1>5, EndsHow DEF Check, Expired
  <2>2. op = "delete" => Last.state # "deleted"
    BY <1>5 DEF OutcomeIsReal, Kept, TypeInv
  <2>3. hist' = hist => Last' = Last
    BY DEF Last
  <2> QED
    BY <1>0, <2>1, <2>2, <2>3 DEF OutcomeIsReal, Readying
<1> QED
  BY <1>1, <1>2, <1>3, <1>4, <1>5

-----------------------------------------------------------------------------
(* When a settled resource is reported.                                    *)

LEMMA Product ==
  ASSUME NEW f \in Nat, NEW a \in Nat
  PROVE f * (a + 1) \in Nat /\ (f + 1) * (a + 1) = f * (a + 1) + a + 1 /\ (f >= 1 => f * (a + 1) >= a + 1)
<1>1. f * (a + 1) \in Nat
  BY SMT
<1>2. (f + 1) * (a + 1) = f * (a + 1) + a + 1
  BY SMT
<1>3. f >= 1 => f * (a + 1) >= a + 1
  BY SMT
<1> QED
  BY <1>1, <1>2, <1>3

\* the moment Telling is counted from
Base == Max({Last.at + Lag, began, IF op \in {"pause", "resume"} THEN Grace + 1 ELSE 0})

LEMMA LastIs == ASSUME HistInv PROVE Last \in Entries /\ Last.at \in Nat /\ Last.at <= now
<1>1. Len(hist) \in 1..Len(hist)
  BY DEF HistInv
<1>2. Last \in Entries /\ Last.at <= now
  BY <1>1 DEF HistInv, Last
<1> QED
  BY <1>2 DEF Entries

LEMMA BaseIs ==
  ASSUME TypeInv, HistInv
  PROVE /\ Base \in Nat /\ Base >= Last.at + Lag /\ Base >= began
        /\ op \in {"pause", "resume"} => Base > Grace
        /\ Telling = Base + faults * (Attempt + 1)
        /\ faults * (Attempt + 1) \in Nat /\ (faults >= 1 => faults * (Attempt + 1) >= Attempt + 1)
        /\ Telling \in Nat /\ Telling >= Base
<1> USE WaitsAssumption
<1>1. PICK a \in Nat, b \in Nat, g \in Nat :
           /\ a = Last.at + Lag /\ b = began
           /\ g = IF op \in {"pause", "resume"} THEN Grace + 1 ELSE 0
  BY LastIs DEF TypeInv
<1>2. Base = Max({a, b, g}) /\ Telling = Max({a, b, g}) + faults * (Attempt + 1)
  BY <1>1 DEF Base, Telling
<1>3. Max({a, b, g}) \in {a, b, g} /\ Max({a, b, g}) >= a /\ Max({a, b, g}) >= b /\ Max({a, b, g}) >= g
  <2>1. a \in Int /\ b \in Int /\ g \in Int
    OBVIOUS
  <2> QED
    BY <2>1, MaxOf, Zenon
<1>4. faults * (Attempt + 1) \in Nat /\ (faults >= 1 => faults * (Attempt + 1) >= Attempt + 1)
  BY Product DEF TypeInv
<1>5. PICK c \in Nat : c = faults * (Attempt + 1)
  BY <1>4
<1> QED
  BY <1>1, <1>2, <1>3, <1>4, <1>5

\* How it moves with the steps of the wait and of the engine.
LEMMA TellingMoves ==
  ASSUME TypeInv, HistInv, HistInv', UNCHANGED op, faults' \in Nat, began' \in Nat
  PROVE /\ UNCHANGED <<hist, began, faults>> => Telling' = Telling
        /\ UNCHANGED <<hist, began>> /\ faults' = faults + 1 => Telling' = Telling + Attempt + 1
        /\ Telling' >= Last'.at + Lag + faults' * (Attempt + 1)
        /\ faults' * (Attempt + 1) \in Nat /\ (faults' >= 1 => faults' * (Attempt + 1) >= Attempt + 1)
        /\ Telling' >= began' /\ Telling' \in Nat
<1> USE WaitsAssumption
<1>1. UNCHANGED <<hist, began, faults>> => Telling' = Telling
  BY DEF Telling, Last
<1>2. ASSUME UNCHANGED <<hist, began>>, faults' = faults + 1 PROVE Telling' = Telling + Attempt + 1
  <2>1. PICK b \in Nat, c \in Nat : b = Base /\ c = faults * (Attempt + 1) /\ Telling = b + c
    BY BaseIs
  <2>2. Base' = Base /\ Telling' = Base' + faults' * (Attempt + 1)
    BY <1>2 DEF Base, Telling, Last
  <2>3. faults' * (Attempt + 1) = c + Attempt + 1
    BY <1>2, <2>1, Product DEF TypeInv
  <2> QED
    BY <2>1, <2>2, <2>3
<1>3. PICK a \in Nat, b \in Nat, g \in Nat :
           /\ a = Last'.at + Lag /\ b = began'
           /\ g = IF op \in {"pause", "resume"} THEN Grace + 1 ELSE 0
  <2>1. Len(hist)' \in (1..Len(hist))'
    BY DEF HistInv
  <2>2. Last' \in Entries
    BY <2>1 DEF HistInv, Last
  <2>3. Last'.at \in Nat
    BY <2>2 DEF Entries
  <2> QED
    BY <2>3
<1>4. Telling' = Max({a, b, g}) + faults' * (Attempt + 1)
  BY <1>3 DEF Telling
<1>5. Max({a, b, g}) \in {a, b, g} /\ Max({a, b, g}) >= a /\ Max({a, b, g}) >= b
  <2>1. a \in Int /\ b \in Int /\ g \in Int
    OBVIOUS
  <2> QED
    BY <2>1, MaxOf, Zenon
<1>6. faults' * (Attempt + 1) \in Nat /\ (faults' >= 1 => faults' * (Attempt + 1) >= Attempt + 1)
  BY Product
<1>7. PICK c \in Nat : c = faults' * (Attempt + 1)
  BY <1>6
<1>8. Telling' >= a + c /\ Telling' >= b /\ Telling' \in Nat
  BY <1>4, <1>5, <1>7
<1> QED
  BY <1>1, <1>2, <1>3, <1>6, <1>7, <1>8

LEMMA SettledOf ==
  /\ op \in SessionOps => (Settled <=> Last.state \notin {"absent", "creating", "pausing", "resuming"})
  /\ op = "snapshot" => (Settled <=> Last.state \in {"ready", "failed", "deleted"})
  /\ op = "durable" => (Settled <=> Last.state \notin {"creating", "local", "ceph"})
  /\ op = "volume" => (Settled <=> Last.state \in {"available", "deleted"})
  /\ op = "detach" => (Settled <=> Last.state \in {"detached", "gone"})
  /\ op = "delete" => (Settled <=> Last.state # "syncing")
  /\ op = "build" => (Settled <=> Last.state \in {"ready", "failed"})
<1>1. op \in SessionOps => (Settled <=> Last.state \notin {"absent", "creating", "pausing", "resuming"})
  BY Zenon DEF Settled, SessionOps
<1>2. op = "snapshot" => (Settled <=> Last.state \in {"ready", "failed", "deleted"})
  BY Zenon DEF Settled, SessionOps
<1>3. op = "durable" => (Settled <=> Last.state \notin {"creating", "local", "ceph"})
  BY Zenon DEF Settled, SessionOps
<1>4. op = "volume" => (Settled <=> Last.state \in {"available", "deleted"})
  BY Zenon DEF Settled, SessionOps
<1>5. op = "detach" => (Settled <=> Last.state \in {"detached", "gone"})
  BY Zenon DEF Settled, SessionOps
<1>6. op = "delete" => (Settled <=> Last.state # "syncing")
  BY Zenon DEF Settled, SessionOps
<1>7. op = "build" => (Settled <=> Last.state \in {"ready", "failed"})
  BY Zenon DEF Settled, SessionOps
<1> QED
  BY <1>1, <1>2, <1>3, <1>4, <1>5, <1>6, <1>7

\* A call made after Base on a settled resource ends the wait.
LEMMA Tells ==
  ASSUME Kept, HistInv, StateInv, op # "delete", Settled, NEW i \in Visible, asked > Base
  PROVE Verdict(hist[i].state) # "wait" /\ (op \in SessionOps => hist[i].state # "absent")
<1>1. /\ i \in 1..Len(hist) /\ now \in Nat /\ asked \in Nat /\ asked <= now
      /\ i = Len(hist) \/ asked <= Last.at + Lag
  BY VisibleIs DEF Kept, TypeInv
<1>2. /\ Base \in Nat /\ Base >= Last.at + Lag
      /\ op \in {"pause", "resume"} => Base > Grace
  BY BaseIs DEF Kept
<1>3. Last.at + Lag \in Nat
  BY LastIs, WaitsAssumption
<1>4. i = Len(hist)
  BY <1>1, <1>2, <1>3
<1>5. hist[i].state = Last.state /\ i \in 1..Len(hist)
  BY <1>1, <1>4 DEF Last
<1>6. op \in {"pause", "resume"} => now > Grace
  BY <1>1, <1>2, WaitsAssumption
<1>7. CASE op \in {"create", "ready"}
  BY <1>5, <1>7, SettledOf, VerdictOf DEF SessionOps, StateInv, Readying, Goal, IsReady, IsTerminal
<1>8. CASE op = "pause"
  BY <1>5, <1>6, <1>8, SettledOf, VerdictOf DEF SessionOps, StateInv, Goal, IsReady, IsTerminal, Reverted
<1>9. CASE op = "resume"
  BY <1>5, <1>6, <1>9, SettledOf, VerdictOf DEF SessionOps, StateInv, Goal, IsReady, IsTerminal, Reverted, Stopped
<1>10. CASE op = "snapshot"
  BY <1>5, <1>10, SettledOf, VerdictOf DEF EndsBy, SnapshotEnds, SessionOps
<1>11. CASE op = "durable"
  BY <1>5, <1>11, SettledOf, VerdictOf DEF EndsBy, DurableEnds, SessionOps, StateInv, Stalled
<1>12. CASE op = "volume"
  BY <1>5, <1>12, SettledOf, VerdictOf DEF EndsBy, VolumeEnds, SessionOps
<1>13. CASE op = "detach"
  BY <1>5, <1>13, SettledOf, VerdictOf DEF EndsBy, DetachEnds, SessionOps
<1>14. CASE op = "build"
  BY <1>5, <1>14, SettledOf, VerdictOf DEF EndsBy, BuildEnds, SessionOps
<1> QED
  BY <1>7, <1>8, <1>9, <1>10, <1>11, <1>12, <1>13, <1>14 DEF Kept, TypeInv, AllOps, SessionOps

LEMMA SettledSame == ASSUME UNCHANGED <<op, hist>> PROVE Settled' <=> Settled
<1>1. UNCHANGED <<op, Last>>
  BY DEF Last
<1> QED
  BY <1>1, Zenon DEF Settled

\* A call begins.
LEMMA PollCheck ==
  ASSUME Kept, Kept', HistInv, HistInv', PollInv, Check, UNCHANGED <<op, limit>> PROVE PollInv'
<1> SUFFICES ASSUME op # "delete", Polling' PROVE PollInv'
  BY DEF PollInv
<1>1. /\ pc = "check" /\ due = now /\ Polling /\ UNCHANGED <<hist, now, began, start, ctx>>
      /\ {now, faults, faults', began'} \subseteq Nat /\ FirstBackoff \in 1..2 /\ FirstBackoff' = FirstBackoff
  BY FirstIs DEF Check, Kept, DueInv, TypeInv, Polling
<1>2. ~Expired /\ \E stalls \in BOOLEAN :
           /\ stalled' = stalls /\ asked' = now
           /\ faults' = IF stalls THEN faults + 1 ELSE faults
           /\ pc' = "get" /\ due' = IF stalls THEN CallEnds ELSE Min({now + 1, CallEnds})
  BY DEF Check, Return, Enter, Polling
<1>3. Readying => now <= Deadline
  <2>1. Deadline \in Nat
    BY DeadlineIs DEF Kept
  <2>2. Readying => limit > 0 /\ op # "delete"
    BY <1>1 DEF Kept, PlaceInv, Readying
  <2>3. limit \in Nat
    BY DEF Kept, TypeInv
  <2> QED
    BY <1>1, <1>2, <2>1, <2>2, <2>3 DEF Expired, Unbounded
<1>4. CallEnds \in Nat /\ (Readying => CallEnds <= now + Attempt) /\ Min({now + 1, CallEnds}) <= now + 1
      /\ Min({now + 1, CallEnds}) \in Nat
  BY <1>1, <1>3, CallEndsAt DEF Kept
<1>5. Settled' <=> Settled
  BY <1>1, SettledSame
<1>6. Telling \in Nat /\ Telling' \in Nat
  BY <1>1, BaseIs, TellingMoves DEF Kept
<1>7. CASE stalled'
  <2>1. faults' = faults + 1 /\ pc' = "get" /\ due' = CallEnds
    BY <1>2, <1>7
  <2>2. Telling' = Telling + Attempt + 1
    BY <1>1, <2>1, TellingMoves DEF Kept
  <2>3. Watched' => Readying /\ Watched
    BY <1>1, <1>5, <2>1 DEF Watched, Readying
  <2>4. Watched' => due' <= Telling' + FirstBackoff
    BY <1>1, <1>4, <1>6, <2>1, <2>2, <2>3, WaitsAssumption DEF PollInv
  <2> QED
    <3>1. (Watched => pc = "get" /\ due <= Telling + FirstBackoff)'
      BY <1>1, <1>6, <2>1, <2>4
    <3>2. (pc = "get" /\ faults >= 1 /\ (Readying => due <= now + Attempt))'
      BY <1>1, <1>4, <2>1 DEF Readying
    <3> QED
      BY <1>7, <3>1, <3>2 DEF PollInv
<1>8. CASE ~stalled'
  <2>1. faults' = faults /\ pc' = "get" /\ due' = Min({now + 1, CallEnds})
    BY <1>2, <1>8
  <2>2. Telling' = Telling
    BY <1>1, <2>1, TellingMoves DEF Kept
  <2>3. Watched' => Watched
    BY <1>1, <1>5, <2>1 DEF Watched, Readying
  <2>4. Watched' => due' <= Telling' + FirstBackoff + 2
    BY <1>1, <1>4, <1>6, <2>1, <2>2, <2>3 DEF PollInv
  <2>5. due' <= asked' + 1
    BY <1>1, <1>2, <1>4, <2>1
  <2> QED
    BY <1>1, <1>4, <1>6, <1>8, <2>1, <2>4, <2>5 DEF PollInv, Readying
<1> QED
  BY <1>7, <1>8

\* A call is answered and the wait goes on.
LEMMA PollGet ==
  ASSUME Kept, Kept', HistInv, HistInv', StateInv, PollInv, GetOk \/ GetRetryable \/ GetFailed,
         UNCHANGED <<op, limit>>
  PROVE PollInv'
<1> SUFFICES ASSUME op # "delete", Polling' PROVE PollInv'
  BY DEF PollInv
<1>1. /\ pc = "get" /\ Polling /\ UNCHANGED <<hist, now, began, start, ctx>>
      /\ {now, due, asked, faults, faults', began', due'} \subseteq Nat /\ now <= due /\ asked <= now
  BY DEF GetOk, GetRetryable, GetFailed, Kept, DueInv, TypeInv, Polling, engine
<1>2. Backoff
  BY DEF GetOk, GetRetryable, GetFailed, Settle, Return, Polling
<1>3. /\ FirstBackoff' = FirstBackoff /\ FirstBackoff \in Nat /\ (Readying => FirstBackoff = 1)
      /\ pc' = "sleep" /\ due' <= now + FirstBackoff
  BY <1>1, <1>2, BackoffIs, FirstIs DEF Kept
<1>4. Settled' <=> Settled
  BY <1>1, SettledSame
<1>5. Telling \in Nat /\ Telling' \in Nat /\ Base \in Nat /\ Base <= Telling
  BY <1>1, BaseIs, TellingMoves DEF Kept
<1>6. \* it is enough that the wait sleeps no longer than it may
      ASSUME Watched' => now <= Telling' + 1 PROVE PollInv'
  <2>1. due' <= now' + FirstBackoff' /\ (Watched' => due' <= Telling' + FirstBackoff' + 1)
    BY <1>1, <1>3, <1>5, <1>6
  <2> QED
    BY <1>3, <2>1 DEF PollInv
<1>7. ASSUME Watched, asked <= Base PROVE now <= Telling + 1
  <2>1. CASE stalled
    <3>1. Readying
      BY <1>1, <1>7, <2>1 DEF PollInv, Watched
    <3> QED
      BY <1>1, <1>3, <1>5, <1>7, <2>1, <3>1 DEF PollInv
  <2>2. CASE ~stalled
    BY <1>1, <1>5, <1>7, <2>2 DEF PollInv
  <2> QED
    BY <2>1, <2>2
<1>8. CASE GetOk
  <2>1. PICK i \in Visible : Settle(hist[i].state)
    BY <1>8, GetOkIs
  <2>2. Verdict(hist[i].state) = "wait"
    BY <2>1 DEF Settle, Return, Polling
  <2>3. Settled => asked <= Base
    BY <1>1, <1>5, <2>2, Tells
  <2>4. Telling' = Telling /\ faults' = faults
    BY <1>1, <1>8, TellingMoves DEF Kept, GetOk, engine
  <2>5. Watched' => Watched
    BY <1>1, <1>4, <2>4 DEF Watched, Readying
  <2> QED
    BY <1>6, <1>7, <2>3, <2>4, <2>5 DEF Watched
<1>9. CASE GetRetryable /\ faults' = faults
  <2>0. Telling' = Telling
    BY <1>1, <1>9, TellingMoves DEF Kept
  <2>1. Watched' => Watched
    BY <1>1, <1>4, <1>9 DEF Watched, Readying
  <2>2. CASE Readying /\ stalled /\ now = due
    <3>1. Watched' => now <= Telling + 1
      BY <1>1, <1>3, <1>5, <2>1, <2>2 DEF PollInv
    <3> QED
      BY <1>6, <2>0, <3>1
  <2>3. CASE op \in SessionOps /\ \E i \in Visible : hist[i].state = "absent"
    <3>1. Settled => asked <= Base
      BY <1>1, <1>5, <2>3, Tells
    <3> QED
      BY <1>6, <1>7, <2>0, <2>1, <3>1 DEF Watched
  <2> QED
    BY <1>1, <1>9, <2>2, <2>3 DEF GetRetryable
<1>10. CASE GetRetryable /\ faults' = faults + 1
  <2>1. Telling' = Telling + Attempt + 1
    BY <1>1, <1>10, TellingMoves DEF Kept
  <2>2. Watched' => Readying /\ Watched
    BY <1>1, <1>4, <1>10 DEF Watched, Readying
  <2>3. Watched' => now <= Telling + 3
    BY <1>1, <1>3, <1>5, <2>2 DEF PollInv
  <2> QED
    BY <1>1, <1>5, <1>6, <2>1, <2>3, WaitsAssumption
<1>11. CASE GetFailed
  <2>1. ~Watched'
    BY <1>1, <1>11 DEF GetFailed, Watched, Readying, Return, Polling
  <2> QED
    BY <1>6, <2>1
<1> QED
  BY <1>8, <1>9, <1>10, <1>11 DEF GetRetryable

\* The resource changes under a poll: there is the lag to tell of it.
LEMMA PollGrows ==
  ASSUME Kept, Kept', HistInv, HistInv', PollInv, NEW s \in States, hist' = Event(s),
         UNCHANGED <<op, limit, now, asked, began, faults, ctx, stalled>>,
         UNCHANGED <<pc, due>> \/ (pc' = "check" /\ due' = now)
  PROVE PollInv'
<1>1. {now, due, asked, faults, faults', began', due'} \subseteq Nat /\ asked <= now
  BY DEF Kept, TypeInv
<1>2. Last'.at = now
  <2>1. Last' = [state |-> s, at |-> now]
    BY <1>1, HistGrows
  <2> QED
    BY <2>1
<1>3. PICK c \in Nat : c = faults' * (Attempt + 1) /\ (faults' >= 1 => c >= Attempt + 1)
  BY <1>1, TellingMoves DEF Kept
<1>4. Telling' \in Nat /\ Telling' >= now + Lag + c
  BY <1>1, <1>2, <1>3, TellingMoves DEF Kept
<1>5. Telling' >= now /\ (faults >= 1 => Telling' >= now + Attempt)
  BY <1>1, <1>3, <1>4, WaitsAssumption
<1>6. PICK f \in 1..2 : f = FirstBackoff /\ f = FirstBackoff'
  BY FirstIs
<1>7. CASE pc' = "check" /\ due' = now
  BY <1>1, <1>4, <1>5, <1>6, <1>7 DEF PollInv
<1>8. CASE UNCHANGED <<pc, due>>
  <2> SUFFICES ASSUME op # "delete", Polling PROVE PollInv'
    BY <1>8 DEF PollInv, Polling
  <2>1. pc = "check" => due = now
    BY DEF Kept, DueInv
  <2>2. pc = "get" /\ stalled /\ Watched' => Readying
    BY <1>1 DEF PollInv, Watched, Readying
  <2>3. Watched' => /\ pc \in {"check", "sleep"} => due <= Telling' + f + 1
                    /\ pc = "get" => due <= Telling' + IF stalled THEN f ELSE f + 2
    <3>1. pc = "check" => due <= Telling' + f + 1
      BY <1>1, <1>4, <1>5, <2>1
    <3>2. pc = "sleep" => due <= Telling' + f + 1
      BY <1>1, <1>4, <1>5, <1>6 DEF PollInv
    <3>3. pc = "get" /\ ~stalled => due <= Telling' + f + 2
      BY <1>1, <1>4, <1>5 DEF PollInv
    <3>4. pc = "get" /\ stalled /\ Watched' => due <= Telling' + f
      BY <1>1, <1>4, <1>5, <2>2, WaitsAssumption DEF PollInv
    <3> QED
      BY <1>4, <3>1, <3>2, <3>3, <3>4
  <2>4. (pc \in {"check", "sleep"} => due <= Telling' + f + 1)
          /\ (pc = "get" => due <= Telling' + IF stalled THEN f ELSE f + 2)
        => (/\ pc \in {"check", "sleep"} => due <= Telling + FirstBackoff + 1
            /\ pc = "get" => due <= Telling + IF stalled THEN FirstBackoff ELSE FirstBackoff + 2)'
    BY <1>6, <1>8
  <2>5. (/\ pc = "sleep" => due <= now + FirstBackoff
         /\ pc = "get" /\ ~stalled => due <= asked + 1
         /\ pc = "get" /\ stalled => faults >= 1 /\ (Readying => due <= now + Attempt))'
    BY <1>6, <1>8 DEF PollInv, Readying
  <2> QED
    BY <2>3, <2>4, <2>5 DEF PollInv
<1> QED
  BY <1>7, <1>8

LEMMA PollStep ==
  ASSUME Kept, Kept', HistInv, HistInv', StateInv, PollInv, Next PROVE PollInv'
<1> USE DEF engine, call, poll, replay
<1>0. /\ UNCHANGED <<op, limit>> /\ {now, due, faults, faults', began', due'} \subseteq Nat
      /\ FirstBackoff \in 1..2 /\ FirstBackoff' = FirstBackoff
  BY SameOp, FirstIs DEF Kept, TypeInv
<1>1. CASE Check
  BY <1>0, <1>1, PollCheck
<1>2. CASE GetOk \/ GetRetryable \/ GetFailed
  BY <1>0, <1>2, PollGet
<1>3. CASE Change
  <2>1. PICK move \in Moves : hist' = Event(move[2])
    BY <1>3 DEF Change
  <2>2. PICK s \in States : s = move[2] /\ hist' = Event(s)
    BY <2>1, MovesStates DEF Kept, TypeInv
  <2> QED
    BY <1>0, <1>3, <2>2, PollGrows DEF Change
<1>4. ASSUME NEW accepted \in BOOLEAN, Detach(accepted) PROVE PollInv'
  <2>1. CASE Polling'
    <3>1. pc' = "check" /\ due' = now /\ hist' = Event("detaching")
          /\ UNCHANGED <<now, asked, began, faults, ctx, stalled>>
      BY <1>4, <2>1 DEF Detach, Return, Enter, Polling
    <3> QED
      BY <1>0, <3>1, PollGrows DEF States
  <2> QED
    BY <2>1 DEF PollInv
<1>5. ASSUME NEW how, StreamEnd(how) PROVE PollInv'
  <2>1. CASE Polling'
    <3>1. pc' = "check" /\ due' = now /\ began' = now
      BY <1>5, <2>1 DEF StreamEnd, Return, Enter, Polling
    <3>2. Telling' \in Nat /\ Telling' >= now
      BY <1>0, <3>1, TellingMoves DEF Kept
    <3> QED
      BY <1>0, <3>1, <3>2 DEF PollInv
  <2> QED
    BY <2>1 DEF PollInv
<1>6. CASE CreateStep \/ StreamEvent \/ HandlerFails
  BY <1>6 DEF CreateStep, Created, CreateFailed, StreamEvent, HandlerFails, Return, Enter, Polling, PollInv
<1>7. CASE Delete
  BY <1>0, <1>7 DEF Delete, PollInv
<1>8. CASE Sleep
  <2> SUFFICES ASSUME op # "delete", Polling' PROVE PollInv'
    BY <1>0 DEF PollInv
  <2>1. /\ pc' = "check" /\ due' = now /\ pc = "sleep" /\ Polling
        /\ UNCHANGED <<hist, now, began, faults, ctx>> /\ now <= due
    BY <1>8 DEF Sleep, Return, Enter, Polling, Kept, DueInv
  <2>2. Telling' = Telling /\ Telling \in Nat
    BY <1>0, <2>1, TellingMoves, BaseIs DEF Kept
  <2>3. Watched' => Watched
    BY <1>0, <2>1, SettledSame DEF Watched, Readying
  <2>4. Watched' => due' <= Telling' + FirstBackoff + 1
    BY <1>0, <2>1, <2>2, <2>3 DEF PollInv
  <2> QED
    BY <1>0, <2>1, <2>4 DEF PollInv
<1>9. CASE /\ UNCHANGED <<hist, asked, began, faults, stalled, pc, due>>
           /\ now' >= now /\ now' \in Nat /\ ctx' \in {ctx, "cancelled"}
  <2>1. Telling' = Telling
    BY <1>0, <1>9, TellingMoves DEF Kept
  <2>2. Watched' => Watched
    BY <1>0, <1>9, SettledSame DEF Watched, Readying
  <2> QED
    BY <1>0, <1>9, <2>1, <2>2, WaitsAssumption DEF PollInv, Polling, Readying
<1>10. CASE Tick \/ Cancel \/ Over
  BY <1>0, <1>9, <1>10 DEF Tick, Cancel, Over, vars
<1> QED
  BY <1>1, <1>2, <1>3, <1>4, <1>5, <1>6, <1>7, <1>8, <1>10 DEF Next, WaitStep

LEMMA TimeoutStep ==
  ASSUME Kept, Kept', HistInv, HistInv', PollInv, TimeoutIsReal, Next PROVE TimeoutIsReal'
<1>0. UNCHANGED <<op, limit>>
  BY SameOp
<1>1. CASE pc = "done"
  <2>1. UNCHANGED <<hist, op, limit, out, faults, began, start>>
    BY <1>1, Frozen DEF vars, engine, call, poll
  <2>2. Telling' = Telling /\ (Settled' <=> Settled) /\ Deadline' = Deadline
    BY <2>1, SettledSame DEF Telling, Last, Deadline, PollBudget
  <2> QED
    BY <2>1, <2>2 DEF TimeoutIsReal, Readying
<1>2. CASE pc # "done" /\ Check /\ Expired /\ out' = "timeout"
  <2>1. /\ pc = "check" /\ due = now /\ op # "delete" /\ now >= Deadline
        /\ Readying => ctx = "live"
        /\ UNCHANGED <<hist, faults, began, start>>
    BY <1>2 DEF Check, Expired, Return, Enter, Kept, DueInv
  <2>2. Telling' = Telling /\ (Settled' <=> Settled) /\ Deadline' = Deadline
    BY <1>0, <2>1, SettledSame DEF Telling, Last, Deadline, PollBudget
  <2>3. FirstBackoff = 1
    BY <1>2 DEF Expired, Unbounded, FirstBackoff, Kept, PlaceInv
  <2>4. Telling \in Nat /\ Deadline \in Nat /\ now \in Nat
    BY BaseIs, DeadlineIs DEF Kept, TypeInv
  <2>5. Settled /\ (Readying \/ faults = 0) => now <= Telling + 2
    BY <2>1, <2>3, <2>4 DEF PollInv, Polling, Watched
  <2> QED
    BY <1>0, <2>1, <2>2, <2>4, <2>5 DEF TimeoutIsReal, Readying
<1>3. CASE pc # "done" /\ Delete /\ out' = "timeout"
  <2>1. op = "delete" /\ Last.state = "syncing" /\ hist' = hist
    <3>1. out # "timeout"
      BY <1>3 DEF Kept, TypeInv
    <3> QED
      BY <1>3, <3>1 DEF Delete, Return, Backoff, Enter
  <2>2. ~Settled'
    BY <1>0, <2>1, SettledSame, SettledOf
  <2> QED
    BY <2>2 DEF TimeoutIsReal
<1>4. CASE pc # "done" /\ out' # "timeout"
  BY <1>4 DEF TimeoutIsReal
<1>5. ASSUME pc # "done", out' = "timeout" PROVE (Check /\ Expired) \/ Delete
  <2>1. pc' = "done"
    BY <1>5 DEF Kept, TypeInv
  <2>2. CASE GetOk
    <3>1. PICK s : out' = Verdict(s)
      BY <2>1, <2>2, GetOkEnds
    <3>2. op \in AllOps \ {"delete"}
      BY <2>2 DEF GetOk, Kept, TypeInv
    <3> QED
      BY <1>5, <3>1, <3>2, VerdictIs
  <2> QED
    BY <1>5, <2>1, <2>2, EndsHow
<1> QED
  BY <1>1, <1>2, <1>3, <1>4, <1>5

-----------------------------------------------------------------------------
(* The operation as it begins.                                             *)

LEMMA HeldIs == ASSUME limit \in Nat, limit > 0 PROVE Held \in Nat \ {0} /\ Held <= limit
<1> USE WaitsAssumption
<1>1. CASE Transport > 3
  <2>1. Held = Min({limit, Transport - 1}) /\ limit \in Int /\ Transport - 1 \in Int
    BY <1>1 DEF Held
  <2>2. Held \in {limit, Transport - 1} /\ Held <= limit
    BY <2>1, MinOf
  <2> QED
    BY <1>1, <2>2
<1>2. CASE ~(Transport > 3)
  BY <1>2 DEF Held
<1> QED
  BY <1>1, <1>2

LEMMA CreateEndsIs ==
  ASSUME limit \in Nat
  PROVE CreateEnds \in Nat /\ (limit > 0 => CreateEnds <= Held /\ CreateEnds <= limit)
<1> USE WaitsAssumption
<1>1. limit > 0 => Held \in Nat \ {0} /\ Held <= limit
  BY HeldIs
<1>2. PICK h \in Nat : h = IF limit > 0 THEN Held ELSE 0
  BY <1>1
<1> DEFINE S == {MaxTime} \cup ({Transport, h} \ {0})
<1>3. CreateEnds = Min(S)
  BY <1>2 DEF CreateEnds
<1>4. S \subseteq Nat /\ \E x \in S : \A y \in S : x =< y
  <2>1. CASE MaxTime <= Transport /\ MaxTime <= h
    BY <2>1
  <2>2. CASE Transport # 0 /\ Transport <= MaxTime /\ (Transport <= h \/ h = 0)
    BY <2>2
  <2>3. CASE h # 0 /\ h <= MaxTime /\ (h <= Transport \/ Transport = 0)
    BY <2>3
  <2>4. CASE \/ Transport = 0 /\ (h = 0 \/ MaxTime <= h)
             \/ h = 0 /\ MaxTime <= Transport
    BY <2>4
  <2> QED
    BY <2>1, <2>2, <2>3, <2>4
<1>5. Min(S) \in S /\ \A y \in S : Min(S) =< y
  BY <1>4 DEF Min
<1>6. limit > 0 => h \in S
  BY <1>1, <1>2
<1> QED
  BY <1>1, <1>2, <1>3, <1>4, <1>5, <1>6

LEMMA InitInv == ASSUME Init PROVE IInv
<1> USE WaitsAssumption DEF Init
<1>0. op \in AllOps
  OBVIOUS
<1>1. \/ op = "create" /\ limit \in Nat /\ pc = "create" /\ due = CreateEnds
      \/ op = "ready" /\ limit \in Nat \ {0} /\ pc = "stream" /\ due = limit
      \/ op = "detach" /\ limit \in Nat /\ pc = "detach" /\ due = 1
      \/ op \notin {"create", "ready", "detach"} /\ limit \in Nat /\ pc = "check" /\ due = 0
         /\ (op = "delete" => limit > 0) /\ (op \in {"durable", "build"} => limit = 0)
  BY DEF InitSession, InitResource, SessionOps
<1>2. limit \in Nat
  BY <1>1
<1>3. due \in Nat /\ (op = "create" /\ limit > 0 => due <= limit /\ due <= Held /\ 0 <= Held)
  BY <1>1, <1>2, CreateEndsIs, HeldIs
<1>4. TypeInv
  BY <1>0, <1>1, <1>2, <1>3, FirstIs DEF TypeInv
<1>5. PlaceInv
  BY <1>1, <1>2 DEF PlaceInv, Polling, Readying, FirstBackoff
<1>6. DueInv
  <2>1. now = 0 /\ start = 0
    OBVIOUS
  <2>2. CASE op = "create"
    <3>1. pc = "create"
      BY <1>1, <2>2
    <3> HIDE DEF Init
    <3> QED
      BY <1>2, <1>3, <2>1, <2>2, <3>1 DEF DueInv, Readying
  <2>3. CASE op # "create"
    <3> HIDE DEF Init
    <3> QED
      BY <1>1, <1>2, <2>1, <2>3 DEF DueInv, Readying
  <2> QED
    BY <2>2, <2>3
<1>7. \/ \E s \in States : hist = <<[state |-> s, at |-> 0]>> /\ (op \in SessionOps => view = s)
      \/ \E s, u \in States : hist = <<[state |-> s, at |-> 0], [state |-> u, at |-> 0]>>
                               /\ (op \in SessionOps => view = u)
  BY DEF InitSession, InitResource, SessionOps, States
<1>8. HistInv
  <2>1. CASE \E s \in States : hist = <<[state |-> s, at |-> 0]>>
    <3>1. PICK s \in States : hist = <<[state |-> s, at |-> 0]>>
      BY <2>1
    <3>2. [state |-> s, at |-> 0] \in Entries
      BY DEF Entries
    <3>3. hist \in Seq(Entries) /\ Len(hist) = 1 /\ hist[1] = [state |-> s, at |-> 0]
      BY <3>1, <3>2
    <3> QED
      BY <3>3 DEF HistInv, Last
  <2>2. CASE \E s, u \in States : hist = <<[state |-> s, at |-> 0], [state |-> u, at |-> 0]>>
    <3>1. PICK s \in States, u \in States : hist = <<[state |-> s, at |-> 0], [state |-> u, at |-> 0]>>
      BY <2>2
    <3>2. [state |-> s, at |-> 0] \in Entries /\ [state |-> u, at |-> 0] \in Entries
      BY DEF Entries
    <3>3. /\ hist \in Seq(Entries) /\ Len(hist) = 2
          /\ hist[1] = [state |-> s, at |-> 0] /\ hist[2] = [state |-> u, at |-> 0]
      BY <3>1, <3>2
    <3> QED
      BY <3>3 DEF HistInv, Last
  <2> QED
    BY <1>7, <2>1, <2>2
<1>9. ASSUME Readying PROVE StateInv /\ ViewInv
  <2>1. PICK s \in {"absent", "creating", "running", "terminating"} :
             hist = <<[state |-> s, at |-> 0]>> /\ view = s
    BY <1>9 DEF InitSession, Readying, SessionOps
  <2>2. Len(hist) = 1 /\ hist[1].state = s /\ Last.state = s
    BY <2>1 DEF Last
  <2>3. \A i \in 1..Len(hist) : i = 1
    BY <2>2
  <2> QED
    BY <1>9, <2>1, <2>2, <2>3 DEF StateInv, ViewInv, Readying, IsTerminal
<1>10. ASSUME op = "pause" PROVE StateInv /\ ViewInv
  <2>1. hist = <<[state |-> "running", at |-> 0], [state |-> "pausing", at |-> 0]>> /\ view = "pausing"
    BY <1>10 DEF InitSession, SessionOps
  <2>2. /\ Len(hist) = 2 /\ hist[1].state = "running" /\ hist[2].state = "pausing"
        /\ hist[2].at = 0 /\ Last.state = "pausing"
    BY <2>1 DEF Last
  <2>3. \A i \in 1..Len(hist) : i = 1 \/ i = 2
    BY <2>2
  <2> QED
    BY <1>10, <2>1, <2>2, <2>3 DEF StateInv, ViewInv, Readying, IsTerminal
<1>11. ASSUME op = "resume" PROVE StateInv /\ ViewInv
  <2>1. hist = <<[state |-> "paused", at |-> 0], [state |-> "resuming", at |-> 0]>> /\ view = "resuming"
    BY <1>11 DEF InitSession, SessionOps
  <2>2. /\ Len(hist) = 2 /\ hist[1].state = "paused" /\ hist[2].state = "resuming"
        /\ hist[2].at = 0 /\ Last.state = "resuming"
    BY <2>1 DEF Last
  <2>3. \A i \in 1..Len(hist) : i = 1 \/ i = 2
    BY <2>2
  <2> QED
    BY <1>11, <2>1, <2>2, <2>3 DEF StateInv, ViewInv, Readying, IsTerminal
<1>12. ASSUME op \notin SessionOps PROVE StateInv /\ ViewInv
  <2>1. ViewInv
    BY <1>8, <1>12 DEF ViewInv, SessionOps, HistInv
  <2>2. CASE op = "durable"
    <3>1. hist = <<[state |-> "absent", at |-> 0], [state |-> "creating", at |-> 0]>>
      BY <1>12, <2>2 DEF InitResource
    <3>2. Len(hist) = 2 /\ hist[1].state = "absent" /\ hist[2].state = "creating" /\ Last.state = "creating"
      BY <3>1 DEF Last
    <3>3. \A i \in 1..Len(hist) : i = 1 \/ i = 2
      BY <3>2
    <3> QED
      BY <2>1, <2>2, <3>2, <3>3 DEF StateInv, Readying, SessionOps, Was, Stalled
  <2>3. CASE op \in {"build", "delete"}
    <3>1. hist = <<[state |-> IF op = "build" THEN "pending" ELSE "syncing", at |-> 0]>>
      BY <1>12, <2>3 DEF InitResource
    <3>2. Len(hist) = 1 /\ Last.state = IF op = "build" THEN "pending" ELSE "syncing"
      BY <3>1 DEF Last
    <3>3. \A i \in 1..Len(hist) : i = 1
      BY <3>2
    <3> QED
      BY <2>1, <2>3, <3>2, <3>3 DEF StateInv, Readying, SessionOps
  <2>4. CASE op \notin {"durable", "build", "delete"}
    BY <1>12, <2>1, <2>4 DEF StateInv, Readying, SessionOps
  <2> QED
    BY <2>1, <2>2, <2>3, <2>4
<1>13. StateInv /\ ViewInv
  BY <1>0, <1>9, <1>10, <1>11, <1>12 DEF SessionOps, Readying
<1>14. EventInv /\ EventsOnce
  <2>1. <<>> \in Seq(Nat) /\ Len(<<>>) = 0 /\ Numbers(0, 0) = <<>>
    BY DEF Numbers
  <2> QED
    BY <2>1 DEF EventInv, EventsOnce
<1>15. PollInv
  <2>1. Telling \in Nat
    BY <1>4, <1>8, BaseIs
  <2> QED
    BY <1>1, <2>1, FirstIs DEF PollInv, Polling
<1>16. OutcomeIsReal
  <2>1. op = "delete" => Last.state # "deleted"
    <3> SUFFICES ASSUME op = "delete" PROVE Last.state # "deleted"
      OBVIOUS
    <3>1. hist = <<[state |-> "syncing", at |-> 0]>>
      BY DEF InitResource, SessionOps
    <3> QED
      BY <3>1 DEF Last
  <2> QED
    BY <2>1 DEF OutcomeIsReal
<1>17. TimeoutIsReal /\ HeldInv /\ KnownInv
  BY <1>3 DEF TimeoutIsReal, HeldInv, KnownInv, InitSession, SessionOps
<1> QED
  BY <1>4, <1>5, <1>6, <1>8, <1>13, <1>14, <1>15, <1>16, <1>17 DEF IInv, Kept

LEMMA HeldStep == ASSUME Kept, HeldInv, Next PROVE HeldInv'
<1> USE DEF engine, call, poll, replay
<1>1. UNCHANGED <<op, limit>> /\ Held' = Held
  BY SameOp DEF Held
<1>2. CASE Created
  <2>1. pc = "create" /\ start' = now /\ pc' # "create" /\ now <= due /\ {now, due, limit} \subseteq Nat
    BY <1>2 DEF Created, Return, Enter, Kept, DueInv, TypeInv
  <2>2. limit > 0 => Held \in Nat
    BY <2>1, HeldIs
  <2> QED
    BY <1>1, <2>1, <2>2 DEF HeldInv
<1>3. CASE start' = start /\ (pc' = "create" => pc = "create" /\ due' = due)
  BY <1>1, <1>3 DEF HeldInv
<1>4. ASSUME ~Created PROVE start' = start
  BY <1>4 DEF Next, CreateStep, WaitStep, CreateFailed, StreamEvent, StreamEnd, Check, GetOk,
         GetRetryable, GetFailed, Sleep, HandlerFails, Delete, Detach, Tick, Cancel, Over, Change, vars
<1>5. ASSUME ~Created, pc' = "create" PROVE pc = "create" /\ due' = due
  BY <1>5 DEF Next, CreateStep, WaitStep, CreateFailed, StreamEvent, StreamEnd, Check, GetOk, Settle, Return, Enter, Backoff,
         GetRetryable, GetFailed, Sleep, HandlerFails, Delete, Detach, Tick, Cancel, Over, Change, vars
<1> QED
  BY <1>2, <1>3, <1>4, <1>5

LEMMA KnownStep == ASSUME Kept, HistInv, KnownInv, Next PROVE KnownInv'
<1> USE DEF engine, call, poll, replay
<1> SUFFICES ASSUME op = "create" PROVE KnownInv'
  BY SameOp DEF KnownInv
<1>1. CASE UNCHANGED <<hist, view>> /\ ((pc' = pc /\ out' = out) \/ (pc' # "create" /\ view # "absent" /\ Last.state # "absent"))
  BY <1>1 DEF KnownInv, Last
<1>2. CASE Created
  BY <1>2 DEF Created, KnownInv, Last, Return, Enter
<1>3. ASSUME NEW how \in {"error", "runtime"}, CreateFailed(how) PROVE KnownInv'
  <2>1. pc = "create" /\ view = "absent" /\ pc' = "done" /\ out' = how /\ Last' = Last
    BY <1>3 DEF CreateFailed, Return, KnownInv, Last
  <2>2. CASE how = "error"
    BY <1>3, <2>1, <2>2 DEF CreateFailed, KnownInv
  <2>3. CASE how = "runtime"
    BY <1>3, <2>1, <2>3 DEF CreateFailed, KnownInv
  <2> QED
    BY <2>2, <2>3
<1>4. CASE StreamEvent
  <2>1. pc = "stream" /\ pc' # "create" /\ view' = Last.state /\ Last' = Last
    BY <1>4 DEF StreamEvent, Return, Last
  <2> QED
    BY <2>1 DEF KnownInv
<1>5. CASE GetOk
  <2>1. pc = "get" /\ pc' # "create" /\ view' # "absent" /\ Last' = Last
    BY <1>5 DEF GetOk, Last, Settle, Return, Backoff, Enter
  <2> QED
    BY <2>1 DEF KnownInv
<1>6. CASE Change
  <2>1. PICK move \in Moves : hist' = Event(move[2]) /\ UNCHANGED <<now, pc, out, view>>
    BY <1>6 DEF Change
  <2>2. PICK s \in States : s = move[2] /\ s # "absent"
    BY MovesStates, MovesOf DEF SessionOps, Transitions, Kept, TypeInv
  <2>3. hist' = Event(s) /\ now \in Nat /\ now' = now
    BY <2>1, <2>2 DEF Kept, TypeInv
  <2>4. Last' = [state |-> s, at |-> now]
    BY <2>3, HistGrows
  <2> QED
    BY <2>1, <2>2, <2>4 DEF KnownInv
<1>7. CASE StreamEvent \/ Check \/ GetRetryable \/ GetFailed \/ Sleep \/ \E how : StreamEnd(how)
  <2>1. pc \in {"stream", "check", "get", "sleep"} /\ UNCHANGED hist
    BY <1>7 DEF StreamEvent, Check, GetRetryable, GetFailed, Sleep, StreamEnd
  <2>2. CASE ~StreamEvent
    <3>1. UNCHANGED view
      BY <1>7, <2>2 DEF Check, GetRetryable, GetFailed, Sleep, StreamEnd
    <3>2. pc' # "create"
      BY <1>7, <2>2 DEF Check, GetRetryable, GetFailed, Sleep, StreamEnd, Return, Backoff, Enter
    <3> QED
      BY <1>1, <2>1, <3>1, <3>2 DEF KnownInv
  <2> QED
    BY <1>4, <2>2
<1>8. CASE Tick \/ Cancel \/ Over
  BY <1>1, <1>8 DEF Tick, Cancel, Over, vars
<1> QED
  BY <1>2, <1>3, <1>4, <1>5, <1>6, <1>7, <1>8
     DEF Next, CreateStep, WaitStep, HandlerFails, Delete, Detach, Kept, PlaceInv

-----------------------------------------------------------------------------
LEMMA NextInv == ASSUME IInv, Next PROVE IInv'
<1> USE DEF IInv
<1>1. Kept' /\ KnownInv' /\ HeldInv' /\ HistInv' /\ StateInv'
  BY KeptStep, KnownStep, HeldStep, HistStep, StateStep DEF Kept
<1>2. ViewInv' /\ EventInv' /\ PollInv'
  BY <1>1, ViewStep, EventStep, PollStep
<1>3. OutcomeIsReal' /\ TimeoutIsReal' /\ EventsOnce'
  BY <1>1, <1>2, OutcomeStep, TimeoutStep, EventsStep
<1> QED
  BY <1>1, <1>2, <1>3

LEMMA StutterInv == ASSUME IInv, UNCHANGED vars PROVE IInv'
<1> USE DEF IInv, vars, engine, call, poll, replay
<1>1. TypeInv'
  BY DEF Kept, TypeInv
<1>2. PlaceInv' /\ DueInv'
  BY DEF Kept, PlaceInv, DueInv, Polling, Readying, FirstBackoff
<1>3. HistInv'
  BY DEF HistInv, Last
<1>4. StateInv'
  BY DEF StateInv, Readying, Last, Was
<1>5. ViewInv' /\ EventInv' /\ EventsOnce'
  BY DEF ViewInv, EventInv, EventsOnce, Last
<1>6. (Settled' <=> Settled) /\ Telling' = Telling /\ Deadline' = Deadline
  BY SettledSame DEF Telling, Last, Deadline, PollBudget
<1>7. PollInv'
  BY <1>6 DEF PollInv, Watched, Polling, Readying, FirstBackoff
<1>8. OutcomeIsReal'
  BY DEF OutcomeIsReal, Was, Last
<1>9. TimeoutIsReal' /\ HeldInv' /\ KnownInv'
  BY <1>6 DEF TimeoutIsReal, Readying, HeldInv, Held, KnownInv, Last
<1> QED
  BY <1>1, <1>2, <1>3, <1>4, <1>5, <1>7, <1>8, <1>9 DEF Kept

LEMMA Invariance == Spec => []IInv
<1>1. IInv /\ [Next]_vars => IInv'
  BY NextInv, StutterInv
<1> QED
  BY <1>1, InitInv, PTL DEF Spec

\* A wait reports only what happened to its resource, whatever the lag of the
\* replica and the grace are and whichever answers are lost: WaitPaused,
\* WaitResumed, WaitForSnapshotDurable, DetachVolume and DeleteVolume.  The one
\* false failure is named: a call made within the lag, answered after the grace.
THEOREM OutcomeCorrect == Spec => []OutcomeIsReal
<1>1. IInv => OutcomeIsReal
  BY DEF IInv
<1> QED
  BY <1>1, Invariance, PTL

\* A wait that times out was not waiting for a resource that had settled long
\* enough before the deadline to be polled, whatever attempts stalled.
THEOREM TimeoutCorrect == Spec => []TimeoutIsReal
<1>1. IInv => TimeoutIsReal
  BY DEF IInv
<1> QED
  BY <1>1, Invariance, PTL

\* A wait is over by its deadline, but for the call and the backoff under way; a
\* Create by the time CreateSession is held for plus its whole timeout.
THEOREM BudgetCorrect == Spec => []BudgetKept
<1>1. ASSUME IInv, pc # "done", limit > 0
      PROVE /\ op = "ready" => now <= limit
            /\ op = "create" => now <= Held + limit
            /\ ~Readying /\ faults = 0 => now <= limit + IF op = "delete" THEN 2 * BackoffCap ELSE 1
  <2>1. {now, due, limit, start} \subseteq Nat /\ BackoffCap \in Nat /\ now <= due
    BY <1>1, WaitsAssumption DEF IInv, Kept, TypeInv, DueInv
  <2>2. /\ op = "ready" => now <= limit
        /\ op = "create" => now <= Held + limit
    <3>1. Readying => now <= start + limit
      BY <1>1, <2>1 DEF IInv, Kept, DueInv
    <3>2. Held \in Nat
      BY <1>1, <2>1, HeldIs
    <3>3. op = "create" => start <= Held
      BY <1>1 DEF IInv, HeldInv
    <3>4. op = "ready" => start = 0
      BY <1>1 DEF IInv, Kept, PlaceInv
    <3> QED
      BY <2>1, <3>1, <3>2, <3>3, <3>4 DEF Readying
  <2>3. CASE ~Readying /\ op = "delete" /\ faults = 0
    <3>1. pc \in {"check", "get", "sleep"}
      BY <1>1, <2>3 DEF IInv, Kept, TypeInv, PlaceInv
    <3>2. due <= limit + 2 * BackoffCap
      BY <1>1, <2>1, <2>3, <3>1 DEF IInv, Kept, DueInv
    <3> QED
      BY <2>1, <2>3, <3>2
  <2>4. CASE ~Readying /\ op # "delete" /\ faults = 0
    <3>1. pc \in {"check", "get", "sleep", "detach"}
      BY <1>1, <2>4 DEF IInv, Kept, TypeInv, PlaceInv, Readying
    <3>2. due <= limit + 1
      BY <1>1, <2>1, <2>4, <3>1 DEF IInv, Kept, DueInv
    <3> QED
      BY <2>1, <2>4, <3>2 DEF Readying
  <2> QED
    BY <2>2, <2>3, <2>4
<1>2. IInv => BudgetKept
  <2> SUFFICES ASSUME IInv, pc # "done", limit > 0
               PROVE CASE op = "ready" -> now <= limit
                       [] op = "create" -> now <= Held + limit
                       [] OTHER -> faults = 0 => now <= limit + IF op = "delete" THEN 2 * BackoffCap ELSE 1
    BY DEF BudgetKept
  <2> QED
    BY <1>1 DEF Readying
<1> QED
  BY <1>2, Invariance, PTL

\* A pause, durability or build wait without a timeout is over a poll, a backoff
\* and a poll after the moment from which polls tell that its resource has settled.
THEOREM SettledCorrect == Spec => []SettledReported
<1>1. ASSUME IInv, Unbounded, op \in {"pause", "durable", "build"}, faults = 0, pc # "done", Settled
      PROVE now <= Telling + FirstBackoff + 2
  <2>1. Telling \in Nat /\ {now, due} \subseteq Nat /\ now <= due
    BY <1>1, BaseIs DEF IInv, Kept, TypeInv, DueInv
  <2>2. Polling /\ Watched
    BY <1>1 DEF IInv, Kept, TypeInv, PlaceInv, Polling, Watched, Readying
  <2>3. due <= Telling + FirstBackoff + 2
    BY <1>1, <2>1, <2>2, FirstIs DEF IInv, PollInv, Polling
  <2> QED
    BY <2>1, <2>3, FirstIs
<1>2. IInv => SettledReported
  BY <1>1 DEF SettledReported
<1> QED
  BY <1>2, Invariance, PTL

\* The handler of a template build gets every event once and in order, and all of
\* them before the wait reports the build's end (waitForTemplateBuild).
THEOREM EventsCorrect == Spec => []EventsOnce
<1>1. IInv => EventsOnce
  BY DEF IInv
<1> QED
  BY <1>1, Invariance, PTL

\* A Create that fails loses a live session in one way only, by a CreateSession
\* that failed after it admitted the session; whatever the stream and the polls do
\* after CreateSession was answered, the caller gets the session (Client.Create).
THEOREM OrphanCorrect == Spec => []NoOrphan
<1>1. ASSUME IInv, pc = "done", ~HandsOver, Last.state # "absent", ~IsTerminal(Last.state)
      PROVE out = "error" /\ view = "absent"
  <2>1. op = "create" /\ (view = "absent" \/ IsTerminal(view))
    BY <1>1 DEF HandsOver
  <2>2. ~IsTerminal(view)
    BY <1>1, <2>1 DEF IInv, ViewInv, SessionOps
  <2> QED
    BY <1>1, <2>1, <2>2 DEF IInv, KnownInv
<1>2. IInv => NoOrphan
  BY <1>1 DEF NoOrphan
<1> QED
  BY <1>2, Invariance, PTL
=============================================================================
