-------------------------- MODULE SchedulingProofs --------------------------
(***************************************************************************)
(* Freezing a queue takes hold, no job is lost and none is run early: for  *)
(* any number of queues, workers and jobs, and whatever else is frozen,    *)
(* thawed, queued and interrupted meanwhile.                               *)
(***************************************************************************)
EXTENDS Scheduling, TLAPS

\* What the argument needs of the types of the variables.
Registrations ==
    /\ wpc \in [Workers -> {"top", "assess", "get", "execute", "done", "gone"}]
    /\ functions \in [Workers -> SUBSET Queues]
    /\ unchecked \in [Workers -> SUBSET Queues]
    /\ late \in [Workers -> [Queues -> {0, 1}]]

Registered(w, q) == wpc[w] \in {"assess", "get"} /\ q \in functions[w]

\* A worker that has taken its late job of a queue does not register for the queue
\* again, as long as it is frozen.
LateOnce ==
    \A w \in Workers, q \in Queues :
        late[w][q] # 0 => q \in frozen /\ ~Registered(w, q)

IInv == Registrations /\ LateOnce

LEMMA InitIInv == Init => IInv
BY DEF Init, IInv, Registrations, LateOnce

\* Whatever leaves these variables alone leaves the invariant.
LEMMA Unmoved ==
    ASSUME IInv, UNCHANGED <<wpc, functions, unchecked, late>>, frozen \subseteq frozen'
    PROVE  IInv'
BY DEF IInv, Registrations, LateOnce, Registered

LEMMA ThawIInv ==
    ASSUME IInv, NEW l \in Locks, Thaw(l)
    PROVE  IInv'
<1>1. UNCHANGED <<wpc, functions, unchecked>> /\ frozen' = frozen \ {l}
  BY DEF Thaw, loop
<1>2. late' = [w \in Workers |-> [q \in Queues |-> IF q = l THEN 0 ELSE late[w][q]]]
  BY DEF Thaw
<1>3. late' \in [Workers -> [Queues -> {0, 1}]]
  BY <1>2 DEF IInv, Registrations
<1>4. \A w \in Workers, q \in Queues : late'[w][q] # 0 => q # l /\ late[w][q] # 0
  BY <1>2
<1> QED
  BY <1>1, <1>3, <1>4 DEF IInv, Registrations, LateOnce, Registered

LEMMA QueueDelayedIInv ==
    ASSUME IInv, NEW w \in Workers, QueueDelayed(w)
    PROVE  IInv'
<1>1. /\ wpc' = [wpc EXCEPT ![w] = "assess"]
      /\ functions' = [functions EXCEPT ![w] = {}]
      /\ unchecked' = [unchecked EXCEPT ![w] = Queues \ Ignored[w]]
      /\ late' = late /\ frozen' = frozen
  BY DEF QueueDelayed, Goto, locks
<1>2. Registrations'
  BY <1>1 DEF IInv, Registrations
<1>3. \A v \in Workers, q \in Queues : Registered(v, q)' => Registered(v, q)
  BY <1>1 DEF IInv, Registrations, Registered
<1> QED
  BY <1>1, <1>2, <1>3 DEF IInv, LateOnce

LEMMA AssessIInv ==
    ASSUME IInv, NEW w \in Workers, Assess(w)
    PROVE  IInv'
<1>1. PICK q \in unchecked[w] :
        /\ unchecked' = [unchecked EXCEPT ![w] = @ \ {q}]
        /\ functions' = IF q \in frozen THEN functions
                        ELSE [functions EXCEPT ![w] = @ \cup {q}]
        /\ UNCHANGED <<wpc, late, frozen>>
  BY DEF Assess, locks
<1>2. q \in Queues
  BY DEF IInv, Registrations
<1>3. Registrations'
  BY <1>1, <1>2 DEF IInv, Registrations
<1>4. \A v \in Workers, p \in Queues :
        Registered(v, p)' => Registered(v, p) \/ p \notin frozen
  BY <1>1 DEF IInv, Registrations, Registered
<1> QED
  BY <1>1, <1>3, <1>4 DEF IInv, LateOnce

LEMMA GetIInv ==
    ASSUME IInv, NEW w \in Workers, Get(w)
    PROVE  IInv'
<1>1. PICK e \in Entries :
        /\ wpc[w] = "get"
        /\ QueueOf[e.job] \in functions[w]
        /\ late' = IF QueueOf[e.job] \in frozen
                   THEN [late EXCEPT ![w][QueueOf[e.job]] = @ + 1] ELSE late
        /\ wpc' = [wpc EXCEPT ![w] = "execute"]
        /\ UNCHANGED <<functions, unchecked, frozen>>
  BY DEF Get, Goto, locks
<1> DEFINE q == QueueOf[e.job]
<1>2. q \in Queues /\ Registered(w, q)
  BY <1>1 DEF IInv, Registrations, Registered
<1>3. late[w][q] = 0
  BY <1>2 DEF IInv, LateOnce, Registrations
<1>4. /\ late' \in [Workers -> [Queues -> {0, 1}]]
      /\ \A v \in Workers, p \in Queues :
            late'[v][p] # 0 => late[v][p] # 0 \/ (v = w /\ p = q /\ q \in frozen)
  <2> HIDE DEF q
  <2>1. late' = IF q \in frozen THEN [late EXCEPT ![w] = [late[w] EXCEPT ![q] = 1]] ELSE late
    BY <1>1, <1>2, <1>3 DEF IInv, Registrations, q
  <2> QED
    BY <1>2, <2>1 DEF IInv, Registrations
<1>5. Registrations'
  BY <1>1, <1>4 DEF IInv, Registrations
<1>6. \A v \in Workers, p \in Queues :
        Registered(v, p)' => Registered(v, p) /\ v # w
  BY <1>1 DEF IInv, Registrations, Registered
<1> QED
  BY <1>1, <1>4, <1>5, <1>6 DEF IInv, LateOnce

\* A worker that goes on to a step in which it is not registered.
LEMMA MoveIInv ==
    ASSUME IInv, NEW w \in Workers, NEW step \in {"top", "execute", "done"},
           wpc' = [wpc EXCEPT ![w] = step], UNCHANGED <<functions, unchecked, late, frozen>>
    PROVE  IInv'
<1>1. Registrations'
  BY DEF IInv, Registrations
<1>2. \A v \in Workers, q \in Queues : Registered(v, q)' => Registered(v, q)
  BY DEF IInv, Registrations, Registered
<1> QED
  BY <1>1, <1>2 DEF IInv, LateOnce

LEMMA RegisterIInv ==
    ASSUME IInv, NEW w \in Workers, Register(w)
    PROVE  IInv'
<1>1. CASE functions[w] = {}
  BY <1>1, MoveIInv DEF Register, Goto, locks
<1>2. CASE functions[w] # {}
  <2>1. /\ wpc' = [wpc EXCEPT ![w] = "get"] /\ wpc[w] = "assess"
        /\ UNCHANGED <<functions, unchecked, late, frozen>>
    BY <1>2 DEF Register, Goto, locks
  <2>2. Registrations'
    BY <2>1 DEF IInv, Registrations
  <2>3. \A v \in Workers, q \in Queues : Registered(v, q)' => Registered(v, q)
    BY <2>1 DEF IInv, Registrations, Registered
  <2> QED
    BY <2>1, <2>2, <2>3 DEF IInv, LateOnce
<1> QED
  BY <1>1, <1>2

LEMMA LeaveIInv ==
    ASSUME IInv, NEW w \in Workers, NEW g, NEW left, Leave(w, g, left)
    PROVE  IInv'
<1>1. /\ wpc' = [wpc EXCEPT ![w] = "gone"]
      /\ functions' = [functions EXCEPT ![w] = {}]
      /\ unchecked' = [unchecked EXCEPT ![w] = {}]
      /\ late' = late /\ frozen' = frozen
  BY DEF Leave, Goto, locks
<1>2. Registrations'
  BY <1>1 DEF IInv, Registrations
<1>3. \A v \in Workers, q \in Queues : Registered(v, q)' => Registered(v, q)
  BY <1>1 DEF IInv, Registrations, Registered
<1> QED
  BY <1>1, <1>2, <1>3 DEF IInv, LateOnce

LEMMA WorkerIInv ==
    ASSUME IInv, NEW w \in Workers, WorkerNext(w)
    PROVE  IInv'
<1>1. CASE StopWaiting(w) \/ Defer(w) \/ RunScript(w) \/ Done(w)
  BY <1>1, MoveIInv DEF StopWaiting, Defer, RunScript, Done, Goto, locks
<1>2. CASE InfraExit(w)
  BY <1>2, LeaveIInv DEF InfraExit
<1>3. CASE Interrupt(w) \/ Kill(w)
  <2>1. \E g, left : Leave(w, g, left)
    BY <1>3, Zenon DEF Interrupt, Kill
  <2> QED
    BY <2>1, LeaveIInv
<1> QED
  BY <1>1, <1>2, <1>3, QueueDelayedIInv, AssessIInv, RegisterIInv, GetIInv
     DEF WorkerNext, LoopNext

LEMMA NextIInv == IInv /\ [Next]_vars => IInv'
<1> SUFFICES ASSUME IInv, [Next]_vars PROVE IInv'
  OBVIOUS
<1>1. ASSUME NEW l \in Locks, Freeze(l) PROVE IInv'
  BY <1>1, Unmoved DEF Freeze, loop
<1>2. ASSUME NEW i \in Importers, ImportNext(i) PROVE IInv'
  <2>1. UNCHANGED <<frozen, wpc, functions, unchecked, late>>
    BY <1>2 DEF ImportNext, OpenLock, Flock, LockReturns, ImportSubmits, ImportEnds, locks, loop
  <2> QED
    BY <2>1, Unmoved
<1>3. CASE QueueLater \/ Tick \/ UNCHANGED vars
  <2>1. UNCHANGED <<frozen, wpc, functions, unchecked, late>>
    BY <1>3 DEF QueueLater, Tick, vars, locks, loop
  <2> QED
    BY <2>1, Unmoved
<1> QED
  BY <1>1, <1>2, <1>3, ThawIInv, WorkerIInv DEF Next

\* OneLateJob is an invariant: once a queue is frozen, no worker takes more than one
\* more job of it, however long its loop goes on.
THEOREM FreezesSoon == Spec => []OneLateJob
<1>1. IInv => OneLateJob
  <2> SUFFICES ASSUME IInv, NEW w \in Workers, NEW q \in Queues PROVE late[w][q] <= 1
    BY DEF OneLateJob
  <2>1. late[w][q] \in {0, 1}
    BY DEF IInv, Registrations
  <2> QED
    BY <2>1
<1> QED
  BY <1>1, InitIInv, NextIInv, PTL DEF Spec

-----------------------------------------------------------------------------
(* No job is lost and none is run early                                    *)

\* What an entry says of its job: with no time left in it, the time has come.
Timely(e) ==
    /\ e.job \in submitted
    /\ ~e.wait => e.job \in due
    /\ e.wait => e.job \in Delayed

InTime ==
    /\ Jobs \ Delayed \subseteq due /\ ran \subseteq due
    /\ \A e \in Entries : gearman[e] > 0 => Timely(e)
    /\ \A w \in Workers : wentry[w] # NoEntry => Timely(wentry[w])
    /\ \A w \in Workers, j \in Jobs :
            delayed[w][j] > 0 => j \in submitted /\ j \in Delayed

\* A worker that is done with an entry has run its job or put it on its list.
AtDone ==
    \A w \in Workers :
        wpc[w] = "done" => wentry[w].job \in ran \/ delayed[w][wentry[w].job] > 0

\* Where a job may be that has been submitted and not run: JobsKept in terms of the
\* entries.
Somewhere(j) ==
    \/ \E e \in Entries : e.job = j /\ gearman[e] > 0
    \/ \E w \in Workers : wentry[w].job = j \/ delayed[w][j] > 0
    \/ j \in lost

Kept == \A j \in submitted \ ran : Somewhere(j)

JInv == TypeOK /\ InTime /\ AtDone /\ Kept

LEMMA EntryParts ==
    /\ \A j \in Jobs, wait \in BOOLEAN :
            /\ Entry(j, wait) \in Entries
            /\ Entry(j, wait).job = j
            /\ Entry(j, wait).wait = wait
    /\ \A e \in Entries : e.job \in Jobs /\ e.wait \in BOOLEAN /\ e = Entry(e.job, e.wait)
    /\ NoEntry \notin Entries /\ NoEntry.job \notin Jobs
BY SchedulingAssumption DEF Entry, Entries, NoEntry

LEMMA KeptIsKept ==
    ASSUME TypeOK, Kept
    PROVE  JobsKept
<1> SUFFICES ASSUME NEW j \in submitted \ ran
             PROVE  \/ \E wait \in BOOLEAN : gearman[Entry(j, wait)] > 0
                    \/ \E w \in Workers : wentry[w].job = j \/ delayed[w][j] > 0
                    \/ j \in lost
  BY DEF JobsKept
<1>1. ASSUME NEW e \in Entries, e.job = j, gearman[e] > 0
      PROVE  \E wait \in BOOLEAN : gearman[Entry(j, wait)] > 0
  <2>1. e.wait \in BOOLEAN /\ gearman[Entry(j, e.wait)] > 0
    BY <1>1, EntryParts
  <2> QED
    BY <2>1
<1> QED
  BY <1>1, Zenon DEF Kept, Somewhere

LEMMA InitJInv == Init => JInv
<1> SUFFICES ASSUME Init PROVE JInv
  OBVIOUS
<1>1. TypeOK
  BY DEF Init, TypeOK, None
<1>2. InTime
  BY SchedulingAssumption DEF Init, InTime, None
<1>3. AtDone /\ Kept
  BY DEF Init, AtDone, Kept
<1> QED
  BY <1>1, <1>2, <1>3 DEF JInv

-----------------------------------------------------------------------------
\* Whatever leaves the jobs where they are, and lets no worker come to "done", leaves
\* the invariant.
LEMMA UnmovedJInv ==
    ASSUME JInv, TypeOK', UNCHANGED <<gearman, wentry, delayed, ran, submitted>>,
           due \subseteq due', lost \subseteq lost',
           \A w \in Workers : wpc'[w] = "done" => wpc[w] = "done"
    PROVE  JInv'
<1>1. InTime'
  BY DEF JInv, InTime, Timely
<1>2. AtDone'
  BY DEF JInv, AtDone
<1>3. Kept'
  BY DEF JInv, Kept, Somewhere
<1> QED
  BY <1>1, <1>2, <1>3 DEF JInv

LEMMA ImportJInv ==
    ASSUME JInv, NEW i \in Importers,
           OpenLock(i) \/ Flock(i) \/ LockReturns(i) \/ ImportEnds(i)
    PROVE  JInv'
<1>1. /\ UNCHANGED <<submitted, due, gearman, loop, ran, lost, late, frozen>>
      /\ holder' \subseteq holder \cup {i}
      /\ \E step \in {"idle", "open", "locked", "run"} : ipc' = [ipc EXCEPT ![i] = step]
  BY DEF OpenLock, Flock, LockReturns, ImportEnds, GotoI, locks
<1>2. TypeOK'
  BY <1>1 DEF JInv, TypeOK, loop
<1> QED
  BY <1>1, <1>2, UnmovedJInv DEF loop

LEMMA LocksJInv ==
    ASSUME JInv, NEW l \in Locks, Freeze(l) \/ Thaw(l)
    PROVE  JInv'
<1>1. /\ UNCHANGED <<holder, ipc, submitted, due, gearman, loop, ran, lost>>
      /\ frozen' \subseteq Locks
  BY DEF Freeze, Thaw, JInv, TypeOK
<1>2. late' \in [Workers -> [Queues -> Nat]]
  <2>1. CASE Freeze(l)
    BY <2>1 DEF Freeze, JInv, TypeOK
  <2>2. CASE Thaw(l)
    BY <2>2 DEF Thaw, JInv, TypeOK
  <2> QED
    BY <2>1, <2>2
<1>3. TypeOK'
  BY <1>1, <1>2 DEF JInv, TypeOK, loop
<1> QED
  BY <1>1, <1>3, UnmovedJInv DEF loop

LEMMA TickJInv ==
    ASSUME JInv, Tick
    PROVE  JInv'
<1>1. /\ UNCHANGED <<locks, ipc, submitted, gearman, loop, ran, lost, late>>
      /\ due' \subseteq Jobs /\ due \subseteq due'
  BY DEF Tick, JInv, TypeOK
<1>2. TypeOK'
  BY <1>1 DEF JInv, TypeOK, loop, locks
<1> QED
  BY <1>1, <1>2, UnmovedJInv DEF loop

\* A worker that goes on to a step at which it has no entry, and takes none.
LEMMA IdleJInv ==
    ASSUME JInv, NEW w \in Workers,
           Assess(w) \/ Register(w) \/ StopWaiting(w)
    PROVE  JInv'
<1>1. /\ UNCHANGED <<locks, ipc, submitted, due, gearman, wentry, delayed, ran, lost, late>>
      /\ wpc[w] \in {"assess", "get"}
      /\ \E step \in {"assess", "top", "get"} : wpc' = [wpc EXCEPT ![w] = step]
  <2>1. CASE Assess(w)
    <3>1. wpc' = [wpc EXCEPT ![w] = "assess"]
      BY <2>1 DEF Assess, JInv, TypeOK
    <3> QED
      BY <2>1, <3>1 DEF Assess
  <2>2. CASE Register(w) \/ StopWaiting(w)
    BY <2>2 DEF Register, StopWaiting, Goto
  <2> QED
    BY <2>1, <2>2
<1>2. unchecked' \in [Workers -> SUBSET Queues] /\ functions' \in [Workers -> SUBSET Queues]
  <2>1. CASE Assess(w)
    <3>1. PICK q \in unchecked[w] :
            /\ unchecked' = [unchecked EXCEPT ![w] = @ \ {q}]
            /\ functions' = IF q \in frozen THEN functions
                            ELSE [functions EXCEPT ![w] = @ \cup {q}]
      BY <2>1 DEF Assess
    <3>2. q \in Queues
      BY DEF JInv, TypeOK
    <3> QED
      BY <3>1, <3>2 DEF JInv, TypeOK
  <2>2. CASE Register(w) \/ StopWaiting(w)
    BY <2>2 DEF Register, StopWaiting, JInv, TypeOK
  <2> QED
    BY <2>1, <2>2
<1>3. TypeOK'
  <2>1. \A v \in Workers : wpc[v] \in {"execute", "done"} <=> wpc'[v] \in {"execute", "done"}
    BY <1>1 DEF JInv, TypeOK
  <2>2. wpc' \in [Workers -> {"top", "assess", "get", "execute", "done", "gone"}]
    BY <1>1 DEF JInv, TypeOK
  <2> QED
    BY <1>1, <1>2, <2>1, <2>2 DEF JInv, TypeOK, locks
<1>4. \A v \in Workers : wpc'[v] = "done" => wpc[v] = "done"
  BY <1>1 DEF JInv, TypeOK
<1> QED
  BY <1>1, <1>3, <1>4, UnmovedJInv

\* A job that is submitted: what the entry says of it is true.
LEMMA SubmitJInv ==
    ASSUME JInv, NEW j \in Jobs, NEW wait \in BOOLEAN, Submit(j, wait),
           wait => j \in Delayed, ~wait => j \notin Delayed,
           UNCHANGED <<locks, ipc, due, loop, ran, lost, late>>
    PROVE  JInv'
<1> DEFINE e == Entry(j, wait)
<1>1. e \in Entries /\ e.job = j /\ e.wait = wait
  BY EntryParts
<1> HIDE DEF e
<1>2. gearman' = [gearman EXCEPT ![e] = @ + 1] /\ submitted' = submitted \cup {j}
  BY DEF Submit, e
<1>3. /\ gearman' \in [Entries -> Nat]
      /\ gearman'[e] > 0
      /\ \A d \in Entries : gearman[d] > 0 => gearman'[d] > 0
      /\ \A d \in Entries : gearman'[d] > 0 => gearman[d] > 0 \/ d = e
  BY <1>1, <1>2 DEF JInv, TypeOK
<1>4. TypeOK'
  BY <1>2, <1>3 DEF JInv, TypeOK, locks, loop
<1>5. InTime'
  <2>1. Timely(e)'
    BY <1>1, <1>2 DEF Timely, JInv, InTime
  <2>2. \A d : Timely(d) => Timely(d)'
    BY <1>2 DEF Timely
  <2> QED
    BY <1>2, <1>3, <2>1, <2>2 DEF JInv, InTime, loop
<1>6. AtDone'
  BY DEF JInv, AtDone, loop
<1>7. Kept'
  BY <1>1, <1>2, <1>3 DEF JInv, Kept, Somewhere, loop
<1> QED
  BY <1>4, <1>5, <1>6, <1>7 DEF JInv

LEMMA GetJInv ==
    ASSUME JInv, NEW w \in Workers, Get(w)
    PROVE  JInv'
<1>1. PICK e \in Entries :
        /\ wpc[w] = "get" /\ gearman[e] > 0
        /\ gearman' = [gearman EXCEPT ![e] = @ - 1]
        /\ wentry' = [wentry EXCEPT ![w] = e]
        /\ late' = IF QueueOf[e.job] \in frozen
                   THEN [late EXCEPT ![w][QueueOf[e.job]] = @ + 1] ELSE late
        /\ wpc' = [wpc EXCEPT ![w] = "execute"]
        /\ UNCHANGED <<locks, ipc, submitted, due, unchecked, functions, delayed, ran, lost>>
  BY DEF Get, Goto
<1>2. e.job \in Jobs /\ e # NoEntry /\ QueueOf[e.job] \in Queues
  BY EntryParts, SchedulingAssumption
<1>3. late' \in [Workers -> [Queues -> Nat]]
  <2> DEFINE q == QueueOf[e.job]
  <2>1. q \in Queues /\ late' = IF q \in frozen THEN [late EXCEPT ![w][q] = @ + 1] ELSE late
    BY <1>1, <1>2
  <2> HIDE DEF q
  <2>2. CASE q \in frozen
    <3>1. late[w][q] + 1 \in Nat
      BY <2>1 DEF JInv, TypeOK
    <3>2. late' = [late EXCEPT ![w] = [late[w] EXCEPT ![q] = late[w][q] + 1]]
      BY <2>1, <2>2
    <3> QED
      BY <2>1, <3>1, <3>2 DEF JInv, TypeOK
  <2>3. CASE q \notin frozen
    BY <2>1, <2>3 DEF JInv, TypeOK
  <2> QED
    BY <2>2, <2>3
<1>4. /\ gearman' \in [Entries -> Nat]
      /\ \A d \in Entries : gearman[d] > 0 => gearman'[d] > 0 \/ d = e
      /\ \A d \in Entries : gearman'[d] > 0 => gearman[d] > 0
  BY <1>1 DEF JInv, TypeOK
<1>5. TypeOK'
  BY <1>1, <1>2, <1>3, <1>4 DEF JInv, TypeOK, locks
<1>6. Timely(e) /\ wentry[w] = NoEntry
  BY <1>1 DEF JInv, InTime, TypeOK
<1>7. InTime'
  BY <1>1, <1>4, <1>6 DEF JInv, InTime, Timely, TypeOK
<1>8. AtDone'
  BY <1>1 DEF JInv, AtDone, TypeOK
<1>9. Kept'
  <2> SUFFICES ASSUME NEW j \in submitted \ ran PROVE Somewhere(j)'
    BY <1>1 DEF Kept
  <2>1. Somewhere(j) /\ j \in Jobs
    BY DEF JInv, Kept, TypeOK
  <2>2. CASE \E d \in Entries : d.job = j /\ gearman[d] > 0
    BY <1>1, <1>4, <2>2 DEF Somewhere, JInv, TypeOK
  <2>3. CASE \E v \in Workers : wentry[v].job = j \/ delayed[v][j] > 0
    BY <1>1, <1>6, <2>1, <2>3, EntryParts DEF Somewhere, JInv, TypeOK
  <2>4. CASE j \in lost
    BY <1>1, <2>4 DEF Somewhere, JInv, TypeOK
  <2> QED
    BY <2>1, <2>2, <2>3, <2>4 DEF Somewhere
<1> QED
  BY <1>5, <1>7, <1>8, <1>9 DEF JInv

\* What WithJobs adds to a queue content.
LEMMA WithJobsAdds ==
    ASSUME NEW g \in [Entries -> Nat], NEW list \in [Jobs -> Nat], NEW wait \in BOOLEAN
    PROVE  /\ WithJobs(g, list, wait) \in [Entries -> Nat]
           /\ \A e \in Entries : g[e] > 0 => WithJobs(g, list, wait)[e] > 0
           /\ \A j \in Jobs : list[j] > 0 => WithJobs(g, list, wait)[Entry(j, wait)] > 0
           /\ \A e \in Entries : WithJobs(g, list, wait)[e] > 0 =>
                                    g[e] > 0 \/ (e.wait = wait /\ list[e.job] > 0)
<1> DEFINE h == WithJobs(g, list, wait)
<1>1. ASSUME NEW e \in Entries
      PROVE  /\ h[e] = IF e.wait = wait THEN g[e] + list[e.job] ELSE g[e]
             /\ g[e] \in Nat /\ list[e.job] \in Nat
  BY EntryParts DEF WithJobs
<1>2. ASSUME NEW e \in Entries, e.wait = wait
      PROVE  /\ h[e] \in Nat
             /\ h[e] > 0 <=> g[e] > 0 \/ list[e.job] > 0
  <2>1. PICK m \in Nat : m = g[e]
    BY <1>1
  <2>2. PICK n \in Nat : n = list[e.job]
    BY <1>1
  <2>3. h[e] = m + n
    BY <1>1, <1>2, <2>1, <2>2
  <2>4. m + n \in Nat /\ (m + n > 0 <=> m > 0 \/ n > 0)
    OBVIOUS
  <2> QED
    BY <2>1, <2>2, <2>3, <2>4
<1>3. ASSUME NEW e \in Entries, e.wait # wait
      PROVE  h[e] = g[e] /\ h[e] \in Nat
  BY <1>1, <1>3
<1>4. h \in [Entries -> Nat]
  <2>1. h = [e \in Entries |-> h[e]]
    BY Zenon DEF WithJobs
  <2>2. \A e \in Entries : h[e] \in Nat
    BY <1>2, <1>3
  <2> HIDE DEF h
  <2> QED
    BY <2>1, <2>2
<1>5. \A j \in Jobs : Entry(j, wait) \in Entries /\ Entry(j, wait).wait = wait
                       /\ Entry(j, wait).job = j
  BY EntryParts
<1> HIDE DEF h
<1>6. \A e \in Entries : g[e] > 0 => h[e] > 0
  BY <1>2, <1>3
<1>7. \A j \in Jobs : list[j] > 0 => h[Entry(j, wait)] > 0
  BY <1>2, <1>5
<1>8. \A e \in Entries : h[e] > 0 => g[e] > 0 \/ (e.wait = wait /\ list[e.job] > 0)
  BY <1>2, <1>3
<1> QED
  BY <1>4, <1>6, <1>7, <1>8 DEF h

\* A list is parted by what is due, and an interrupt leaves a part of that.
LEMMA ListParts ==
    ASSUME NEW list \in [Jobs -> Nat]
    PROVE  /\ DueOf(list) \in [Jobs -> Nat] /\ RestOf(list) \in [Jobs -> Nat]
           /\ \A j \in Jobs : list[j] > 0 => DueOf(list)[j] > 0 \/ RestOf(list)[j] > 0
           /\ \A j \in Jobs : RestOf(list)[j] > 0 => list[j] > 0
           /\ \A j \in Jobs : DueOf(list)[j] > 0 => list[j] > 0 /\ j \in due
           /\ \A part \in PartsOf(list) :
                /\ part \in [Jobs -> Nat]
                /\ \A j \in Jobs : part[j] > 0 => list[j] > 0 /\ j \in due
<1>1. /\ DueOf(list) \in [Jobs -> Nat] /\ RestOf(list) \in [Jobs -> Nat]
      /\ \A j \in Jobs : DueOf(list)[j] > 0 => list[j] > 0 /\ j \in due
  BY DEF DueOf, RestOf, IsDue
<1>2. \A j \in Jobs : list[j] > 0 => DueOf(list)[j] > 0 \/ RestOf(list)[j] > 0
  BY DEF DueOf, RestOf
<1>3. \A j \in Jobs : RestOf(list)[j] > 0 => list[j] > 0
  BY DEF RestOf
<1>4. ASSUME NEW part \in PartsOf(list)
      PROVE  /\ part \in [Jobs -> Nat]
             /\ \A j \in Jobs : part[j] > 0 => list[j] > 0 /\ j \in due
  <2>1. /\ part \in [Jobs -> UNION {0..list[j] : j \in Jobs}]
        /\ \A j \in Jobs : part[j] <= DueOf(list)[j]
    BY DEF PartsOf
  <2>2. UNION {0..list[j] : j \in Jobs} \subseteq Nat
    OBVIOUS
  <2>3. part \in [Jobs -> Nat]
    BY <2>1, <2>2
  <2>4. \A j \in Jobs : part[j] > 0 => DueOf(list)[j] > 0
    BY <1>1, <2>1, <2>3
  <2> QED
    BY <1>1, <2>3, <2>4
<1> QED
  BY <1>1, <1>2, <1>3, <1>4

LEMMA QueueDelayedJInv ==
    ASSUME JInv, NEW w \in Workers, QueueDelayed(w)
    PROVE  JInv'
<1> DEFINE list == delayed[w]
<1>1. /\ gearman' = WithJobs(gearman, DueOf(list), FALSE)
      /\ delayed' = [delayed EXCEPT ![w] = RestOf(list)]
      /\ wpc[w] = "top" /\ wpc' = [wpc EXCEPT ![w] = "assess"]
      /\ unchecked' = [unchecked EXCEPT ![w] = Queues \ Ignored[w]]
      /\ functions' = [functions EXCEPT ![w] = {}]
      /\ UNCHANGED <<locks, ipc, submitted, due, wentry, ran, lost, late>>
  BY DEF QueueDelayed, Goto
<1>2. list \in [Jobs -> Nat] /\ gearman \in [Entries -> Nat]
  BY DEF JInv, TypeOK
<1> HIDE DEF list
<1>3. /\ gearman' \in [Entries -> Nat]
      /\ \A e \in Entries : gearman[e] > 0 => gearman'[e] > 0
      /\ \A j \in Jobs : DueOf(list)[j] > 0 => gearman'[Entry(j, FALSE)] > 0
      /\ \A e \in Entries : gearman'[e] > 0 =>
            gearman[e] > 0 \/ (e.wait = FALSE /\ DueOf(list)[e.job] > 0)
  BY <1>1, <1>2, ListParts, WithJobsAdds, Zenon
<1>4. delayed' \in [Workers -> [Jobs -> Nat]]
  BY <1>1, <1>2, ListParts DEF JInv, TypeOK
<1>5. TypeOK'
  BY <1>1, <1>3, <1>4 DEF JInv, TypeOK, locks
<1>6. \A v \in Workers, j \in Jobs : delayed'[v][j] > 0 => delayed[v][j] > 0
  BY <1>1, <1>2, ListParts DEF JInv, TypeOK, list
<1>7. InTime'
  <2>1. ASSUME NEW e \in Entries, gearman'[e] > 0 PROVE Timely(e)
    <3>1. CASE gearman[e] > 0
      BY <3>1 DEF JInv, InTime
    <3>2. CASE ~e.wait /\ DueOf(list)[e.job] > 0
      <4>1. e.job \in Jobs /\ list[e.job] > 0 /\ e.job \in due
        BY <1>2, <3>2, EntryParts, ListParts
      <4> QED
        BY <3>2, <4>1 DEF Timely, JInv, InTime, list
    <3> QED
      BY <1>3, <2>1, <3>1, <3>2
  <2> QED
    BY <1>1, <1>6, <2>1 DEF JInv, InTime, Timely
<1>8. AtDone'
  BY <1>1 DEF JInv, AtDone, TypeOK
<1>9. Kept'
  <2> SUFFICES ASSUME NEW j \in submitted \ ran PROVE Somewhere(j)'
    BY <1>1 DEF Kept
  <2>1. Somewhere(j) /\ j \in Jobs
    BY DEF JInv, Kept, TypeOK
  <2>2. CASE delayed[w][j] > 0
    <3>1. CASE DueOf(list)[j] > 0
      BY <1>3, <2>1, <3>1, EntryParts DEF Somewhere
    <3>2. CASE RestOf(list)[j] > 0
      BY <1>1, <3>2 DEF Somewhere, JInv, TypeOK
    <3> QED
      BY <1>2, <2>1, <2>2, <3>1, <3>2, ListParts DEF list
  <2>3. CASE \E v \in Workers : wentry[v].job = j \/ (v # w /\ delayed[v][j] > 0)
    BY <1>1, <2>3 DEF Somewhere, JInv, TypeOK
  <2>4. CASE \E e \in Entries : e.job = j /\ gearman[e] > 0
    BY <1>3, <2>4 DEF Somewhere
  <2>5. CASE j \in lost
    BY <1>1, <2>5 DEF Somewhere, JInv, TypeOK
  <2> QED
    BY <2>1, <2>2, <2>3, <2>4, <2>5 DEF Somewhere
<1> QED
  BY <1>5, <1>7, <1>8, <1>9 DEF JInv

LEMMA DeferJInv ==
    ASSUME JInv, NEW w \in Workers, Defer(w)
    PROVE  JInv'
<1> DEFINE j == wentry[w].job
<1>1. /\ wpc[w] = "execute" /\ wpc' = [wpc EXCEPT ![w] = "done"]
      /\ delayed' = [delayed EXCEPT ![w][j] = @ + 1]
      /\ UNCHANGED <<locks, ipc, submitted, due, gearman, unchecked, functions, wentry,
                     ran, lost, late>>
  BY DEF Defer, Goto
<1>2. wentry[w] \in Entries /\ wentry[w] # NoEntry /\ wentry[w].wait
  BY DEF JInv, TypeOK, Defer
<1>3. j \in Jobs /\ j \in submitted /\ j \in Delayed
  BY <1>2, EntryParts DEF JInv, InTime, Timely
<1>4. wentry[w].job = j
  OBVIOUS
<1> HIDE DEF j
<1>5. /\ delayed' \in [Workers -> [Jobs -> Nat]]
      /\ delayed'[w][j] > 0
      /\ \A v \in Workers, i \in Jobs : delayed[v][i] > 0 => delayed'[v][i] > 0
      /\ \A v \in Workers, i \in Jobs : delayed'[v][i] > 0 => delayed[v][i] > 0 \/ i = j
  BY <1>1, <1>3 DEF JInv, TypeOK
<1>6. TypeOK'
  BY <1>1, <1>2, <1>5 DEF JInv, TypeOK, locks
<1>7. InTime'
  BY <1>1, <1>3, <1>5 DEF JInv, InTime, Timely
<1>8. AtDone'
  <2> SUFFICES ASSUME NEW v \in Workers, wpc'[v] = "done"
               PROVE  wentry[v].job \in ran \/ delayed'[v][wentry[v].job] > 0
    BY <1>1 DEF AtDone
  <2>1. CASE v = w
    BY <1>4, <1>5, <2>1
  <2>2. CASE v # w
    <3>1. wpc[v] = "done" /\ wentry[v] \in Entries
      BY <1>1, <2>2 DEF JInv, TypeOK
    <3>2. wentry[v].job \in Jobs
      BY <3>1, EntryParts
    <3> QED
      BY <1>5, <3>1, <3>2 DEF JInv, AtDone
  <2> QED
    BY <2>1, <2>2
<1>9. Kept'
  <2> SUFFICES ASSUME NEW i \in submitted \ ran PROVE Somewhere(i)'
    BY <1>1 DEF Kept
  <2>1. Somewhere(i) /\ i \in Jobs
    BY DEF JInv, Kept, TypeOK
  <2> QED
    BY <1>1, <1>5, <2>1 DEF Somewhere
<1> QED
  BY <1>6, <1>7, <1>8, <1>9 DEF JInv

LEMMA RunScriptJInv ==
    ASSUME JInv, NEW w \in Workers, RunScript(w)
    PROVE  JInv'
<1>1. /\ wpc[w] = "execute" /\ wpc' = [wpc EXCEPT ![w] = "done"]
      /\ ran' = ran \cup {wentry[w].job}
      /\ UNCHANGED <<locks, ipc, submitted, due, gearman, unchecked, functions, wentry,
                     delayed, lost, late>>
  BY DEF RunScript, Goto
<1>2. wentry[w].job \in submitted /\ wentry[w].job \in due /\ wentry[w] # NoEntry
  BY DEF RunScript, JInv, TypeOK, InTime, Timely
<1>3. TypeOK'
  BY <1>1, <1>2 DEF JInv, TypeOK, locks
<1>4. InTime'
  BY <1>1, <1>2 DEF JInv, InTime, Timely
<1>5. AtDone'
  BY <1>1 DEF JInv, AtDone, TypeOK
<1>6. Kept'
  BY <1>1 DEF JInv, Kept, Somewhere
<1> QED
  BY <1>3, <1>4, <1>5, <1>6 DEF JInv

LEMMA DoneJInv ==
    ASSUME JInv, NEW w \in Workers, Done(w)
    PROVE  JInv'
<1>1. /\ wpc[w] = "done" /\ wpc' = [wpc EXCEPT ![w] = "top"]
      /\ wentry' = [wentry EXCEPT ![w] = NoEntry]
      /\ UNCHANGED <<locks, ipc, submitted, due, gearman, unchecked, functions, delayed,
                     ran, lost, late>>
  BY DEF Done, Goto
<1>2. TypeOK'
  BY <1>1 DEF JInv, TypeOK, locks
<1>3. InTime'
  BY <1>1 DEF JInv, InTime, Timely, TypeOK
<1>4. AtDone'
  BY <1>1 DEF JInv, AtDone, TypeOK
<1>5. Kept'
  <2> SUFFICES ASSUME NEW j \in submitted \ ran PROVE Somewhere(j)'
    BY <1>1 DEF Kept
  <2>1. Somewhere(j)
    BY DEF JInv, Kept
  <2>2. CASE wentry[w].job = j
    BY <1>1, <2>2 DEF Somewhere, JInv, AtDone
  <2>3. CASE wentry[w].job # j
    BY <1>1, <2>1, <2>3 DEF Somewhere, JInv, TypeOK
  <2> QED
    BY <2>2, <2>3
<1> QED
  BY <1>2, <1>3, <1>4, <1>5 DEF JInv

\* A worker that goes: what its list held is queued again, or left and lost.
LEMMA LeaveJInv ==
    ASSUME JInv, NEW w \in Workers, NEW g \in [Entries -> Nat], NEW left, Leave(w, g, left),
           \A e \in Entries : gearman[e] > 0 => g[e] > 0,
           \A e \in Entries : g[e] > 0 => Timely(e),
           \A j \in Jobs : left[j] > 0 => delayed[w][j] > 0,
           \A j \in Jobs : delayed[w][j] > 0 =>
                left[j] > 0 \/ \E e \in Entries : e.job = j /\ g[e] > 0
    PROVE  JInv'
<1>1. /\ gearman' = [e \in Entries |-> IF e = wentry[w] THEN g[e] + 1 ELSE g[e]]
      /\ lost' = lost \cup {j \in Jobs : left[j] > 0}
      /\ wentry' = [wentry EXCEPT ![w] = NoEntry]
      /\ delayed' = [delayed EXCEPT ![w] = None]
      /\ unchecked' = [unchecked EXCEPT ![w] = {}]
      /\ functions' = [functions EXCEPT ![w] = {}]
      /\ wpc' = [wpc EXCEPT ![w] = "gone"]
      /\ UNCHANGED <<locks, ipc, submitted, due, ran, late>>
  BY DEF Leave, Goto
<1>2. /\ gearman' \in [Entries -> Nat]
      /\ \A e \in Entries : g[e] > 0 => gearman'[e] > 0
      /\ \A e \in Entries : gearman'[e] > 0 => g[e] > 0 \/ e = wentry[w]
      /\ \A e \in Entries : e = wentry[w] => gearman'[e] > 0
  BY <1>1
<1>3. /\ None \in [Jobs -> Nat] /\ \A j \in Jobs : ~(None[j] > 0)
      /\ NoEntry.job \notin Jobs
  BY EntryParts DEF None
<1>4. TypeOK'
  <2>1. delayed' \in [Workers -> [Jobs -> Nat]] /\ wpc'[w] = "gone" /\ wentry'[w] = NoEntry
    BY <1>1, <1>3 DEF JInv, TypeOK
  <2>2. lost' \subseteq Delayed
    BY <1>1 DEF JInv, TypeOK, InTime
  <2> QED
    BY <1>1, <1>2, <2>1, <2>2 DEF JInv, TypeOK, locks
<1>5. InTime'
  <2>1. \A e \in Entries : gearman'[e] > 0 => Timely(e)
    BY <1>2, EntryParts DEF JInv, InTime
  <2>2. \A v \in Workers : wentry'[v] # NoEntry => Timely(wentry'[v])
    BY <1>1 DEF JInv, InTime, TypeOK
  <2>3. \A v \in Workers, j \in Jobs : delayed'[v][j] > 0 => delayed[v][j] > 0
    BY <1>1, <1>3 DEF JInv, TypeOK
  <2> QED
    BY <1>1, <2>1, <2>2, <2>3 DEF JInv, InTime, Timely
<1>6. AtDone'
  BY <1>1 DEF JInv, AtDone, TypeOK
<1>7. Kept'
  <2> SUFFICES ASSUME NEW j \in submitted \ ran PROVE Somewhere(j)'
    BY <1>1 DEF Kept
  <2>1. Somewhere(j) /\ j \in Jobs
    BY DEF JInv, Kept, TypeOK
  <2>2. CASE \E e \in Entries : e.job = j /\ gearman[e] > 0
    BY <1>2, <2>2 DEF Somewhere
  <2>3. CASE wentry[w].job = j
    <3>1. wentry[w] \in Entries
      BY <1>3, <2>1, <2>3 DEF JInv, TypeOK
    <3> QED
      BY <1>2, <2>3, <3>1 DEF Somewhere
  <2>4. CASE delayed[w][j] > 0
    <3>1. CASE left[j] > 0
      BY <1>1, <2>1, <3>1 DEF Somewhere
    <3>2. CASE \E e \in Entries : e.job = j /\ g[e] > 0
      BY <1>2, <3>2 DEF Somewhere
    <3> QED
      BY <2>1, <2>4, <3>1, <3>2
  <2>5. CASE \E v \in Workers \ {w} : wentry[v].job = j \/ delayed[v][j] > 0
    BY <1>1, <2>5 DEF Somewhere, JInv, TypeOK
  <2>6. CASE j \in lost
    BY <1>1, <2>6 DEF Somewhere
  <2> QED
    BY <2>1, <2>2, <2>3, <2>4, <2>5, <2>6 DEF Somewhere
<1> QED
  BY <1>4, <1>5, <1>6, <1>7 DEF JInv

LEMMA InfraExitJInv ==
    ASSUME JInv, NEW w \in Workers, InfraExit(w)
    PROVE  JInv'
<1>1. Leave(w, gearman, delayed[w])
  BY DEF InfraExit
<1>2. gearman \in [Entries -> Nat] /\ \A e \in Entries : gearman[e] > 0 => Timely(e)
  BY DEF JInv, TypeOK, InTime
<1> QED
  BY <1>1, <1>2, LeaveJInv

\* What is queued of a worker's list when queue_delayed_jobs is broken off.
LEMMA HalfwayQueued ==
    ASSUME JInv, NEW w \in Workers, NEW again \in Halfway(w)
    PROVE  LET f == WithJobs(gearman, again, FALSE) IN
           /\ again \in [Jobs -> Nat] /\ \A j \in Jobs : again[j] <= delayed[w][j]
           /\ f \in [Entries -> Nat]
           /\ \A e \in Entries : gearman[e] > 0 => f[e] > 0
           /\ \A j \in Jobs : again[j] > 0 => \E e \in Entries : e.job = j /\ f[e] > 0
           /\ \A e \in Entries : f[e] > 0 => Timely(e)
<1> DEFINE list == delayed[w]
           f == WithJobs(gearman, again, FALSE)
<1>1. list \in [Jobs -> Nat] /\ gearman \in [Entries -> Nat] /\ again \in PartsOf(list)
  BY DEF JInv, TypeOK, Halfway
<1>2. \A j \in Jobs : list[j] > 0 => j \in submitted /\ j \in Delayed
  BY DEF JInv, InTime
<1>3. \A j \in Jobs : again[j] <= DueOf(list)[j]
  BY <1>1 DEF PartsOf
<1> HIDE DEF list
<1>4. again \in [Jobs -> Nat] /\ \A j \in Jobs : again[j] > 0 => list[j] > 0 /\ j \in due
  BY <1>1, ListParts
<1>5. \A j \in Jobs : again[j] <= list[j]
  BY <1>1, <1>3, <1>4 DEF DueOf
<1>6. /\ f \in [Entries -> Nat]
      /\ \A e \in Entries : gearman[e] > 0 => f[e] > 0
      /\ \A j \in Jobs : again[j] > 0 => f[Entry(j, FALSE)] > 0
      /\ \A e \in Entries : f[e] > 0 => gearman[e] > 0 \/ (e.wait = FALSE /\ again[e.job] > 0)
  BY <1>1, <1>4, WithJobsAdds, Zenon
<1> HIDE DEF f
<1>7. ASSUME NEW e \in Entries, f[e] > 0 PROVE Timely(e)
  <2>1. e.job \in Jobs
    BY EntryParts
  <2>2. CASE gearman[e] > 0
    BY <2>2 DEF JInv, InTime
  <2>3. CASE ~e.wait /\ again[e.job] > 0
    BY <1>2, <1>4, <2>1, <2>3 DEF Timely
  <2> QED
    BY <1>6, <1>7, <2>2, <2>3
<1>8. \A j \in Jobs : again[j] > 0 => \E e \in Entries : e.job = j /\ f[e] > 0
  BY <1>6, EntryParts
<1> QED
  BY <1>4, <1>5, <1>6, <1>7, <1>8 DEF f, list

LEMMA InterruptJInv ==
    ASSUME JInv, NEW w \in Workers, Interrupt(w)
    PROVE  JInv'
<1> DEFINE list == delayed[w]
<1>1. PICK again \in Halfway(w) :
        Leave(w, WithJobs(WithJobs(gearman, again, FALSE), list, TRUE), None)
  BY DEF Interrupt
<1> DEFINE f == WithJobs(gearman, again, FALSE)
           g == WithJobs(f, list, TRUE)
<1>2. list \in [Jobs -> Nat] /\ \A j \in Jobs : list[j] > 0 => j \in submitted /\ j \in Delayed
  BY DEF JInv, TypeOK, InTime
<1>3. /\ f \in [Entries -> Nat]
      /\ \A e \in Entries : gearman[e] > 0 => f[e] > 0
      /\ \A e \in Entries : f[e] > 0 => Timely(e)
  BY HalfwayQueued
<1>4. Leave(w, g, None)
  BY <1>1
<1> HIDE DEF f, list
<1>5. /\ g \in [Entries -> Nat]
      /\ \A e \in Entries : f[e] > 0 => g[e] > 0
      /\ \A j \in Jobs : list[j] > 0 => g[Entry(j, TRUE)] > 0
      /\ \A e \in Entries : g[e] > 0 => f[e] > 0 \/ (e.wait = TRUE /\ list[e.job] > 0)
  BY <1>2, <1>3, WithJobsAdds, Zenon
<1> HIDE DEF g
<1>6. ASSUME NEW e \in Entries, g[e] > 0 PROVE Timely(e)
  <2>1. e.job \in Jobs
    BY EntryParts
  <2>2. CASE e.wait = TRUE /\ list[e.job] > 0
    BY <1>2, <2>1, <2>2 DEF Timely
  <2> QED
    BY <1>3, <1>5, <1>6, <2>2
<1>7. \A j \in Jobs : list[j] > 0 => \E e \in Entries : e.job = j /\ g[e] > 0
  BY <1>5, EntryParts
<1>8. \A j \in Jobs : ~(None[j] > 0)
  BY DEF None
<1>9. \A e \in Entries : gearman[e] > 0 => g[e] > 0
  BY <1>3, <1>5
<1> QED
  BY <1>4, <1>5, <1>6, <1>7, <1>8, <1>9, LeaveJInv DEF list

LEMMA KillJInv ==
    ASSUME JInv, NEW w \in Workers, Kill(w)
    PROVE  JInv'
<1>1. PICK again \in Halfway(w) :
        Leave(w, WithJobs(gearman, again, FALSE), [j \in Jobs |-> delayed[w][j] - again[j]])
  BY DEF Kill
<1> DEFINE f == WithJobs(gearman, again, FALSE)
           left == [j \in Jobs |-> delayed[w][j] - again[j]]
<1>2. /\ again \in [Jobs -> Nat] /\ \A j \in Jobs : again[j] <= delayed[w][j]
      /\ f \in [Entries -> Nat]
      /\ \A e \in Entries : gearman[e] > 0 => f[e] > 0
      /\ \A j \in Jobs : again[j] > 0 => \E e \in Entries : e.job = j /\ f[e] > 0
      /\ \A e \in Entries : f[e] > 0 => Timely(e)
  BY HalfwayQueued
<1>3. \A j \in Jobs : /\ left[j] > 0 => delayed[w][j] > 0
                      /\ delayed[w][j] > 0 => left[j] > 0 \/ again[j] > 0
  <2> TAKE j \in Jobs
  <2>1. delayed[w][j] \in Nat /\ again[j] \in Nat /\ left[j] = delayed[w][j] - again[j]
    BY <1>2 DEF JInv, TypeOK
  <2> QED
    BY <1>2, <2>1
<1>4. Leave(w, f, left)
  BY <1>1
<1> HIDE DEF f, left
<1> QED
  BY <1>2, <1>3, <1>4, LeaveJInv

LEMMA NextJInv == JInv /\ [Next]_vars => JInv'
<1> SUFFICES ASSUME JInv, [Next]_vars PROVE JInv'
  OBVIOUS
<1>1. ASSUME NEW i \in Importers, ImportSubmits(i) PROVE JInv'
  <2>1. PICK j \in Jobs \ (Delayed \cup submitted) :
            Submit(j, FALSE) /\ UNCHANGED <<locks, ipc, due, loop, ran, lost, late>>
    BY <1>1 DEF ImportSubmits
  <2> QED
    BY <2>1, SubmitJInv
<1>2. CASE QueueLater
  <2>1. PICK j \in Delayed \ submitted :
            Submit(j, TRUE) /\ UNCHANGED <<locks, ipc, due, loop, ran, lost, late>>
    BY <1>2 DEF QueueLater
  <2> QED
    BY <2>1, SubmitJInv, SchedulingAssumption
<1>3. CASE UNCHANGED vars
  <2>1. TypeOK'
    BY <1>3 DEF JInv, TypeOK, vars, locks, loop
  <2> QED
    BY <1>3, <2>1, UnmovedJInv DEF vars, loop
<1>4. ASSUME NEW w \in Workers, WorkerNext(w) PROVE JInv'
  BY <1>4, QueueDelayedJInv, IdleJInv, GetJInv, DeferJInv, RunScriptJInv, DoneJInv,
     InfraExitJInv, InterruptJInv, KillJInv DEF WorkerNext, LoopNext
<1> QED
  BY <1>1, <1>2, <1>3, <1>4, LocksJInv, ImportJInv, TickJInv DEF Next, ImportNext

\* TypeOK is an invariant; in it, that only a worker that is busy has an entry, and
\* that nothing has run that was not submitted.
THEOREM SchedulingTypes == Spec => []TypeOK
<1>1. JInv => TypeOK
  BY DEF JInv
<1> QED
  BY <1>1, InitJInv, NextJInv, PTL DEF Spec

\* No job is run before its time, whichever workers have had it, and however often an
\* interrupted worker has given it back or queued it twice.
THEOREM RunInTime == Spec => []NotEarly
<1>1. JInv => NotEarly
  BY DEF JInv, InTime, NotEarly
<1> QED
  BY <1>1, InitJInv, NextJInv, PTL DEF Spec

\* Whatever is submitted is queued, with a worker or has run, unless it was itself on the
\* list of delayed jobs of a worker that quit or was killed: a worker that goes for any
\* reason loses nothing else, and one that is interrupted loses nothing.
THEOREM NoJobLost == Spec => []JobsKept
<1>1. JInv => JobsKept
  BY KeptIsKept DEF JInv
<1> QED
  BY <1>1, InitJInv, NextJInv, PTL DEF Spec
=============================================================================
