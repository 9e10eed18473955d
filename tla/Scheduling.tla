----------------------------- MODULE Scheduling -----------------------------
(***************************************************************************)
(* When dsv-import and the workers get to work: the lock of dsv-import,    *)
(* the locks of the queues that "dsv-queue-freeze" and "dsv-queue-thaw"    *)
(* set, the main loop of dsv-worker, and jobs that are not to run before a *)
(* given time ("dsv-queue --not-before").  A lock is a file: it is frozen  *)
(* when nobody may write it, and locked by flock(2).                       *)
(*                                                                         *)
(* What a job's script does is left to Pipeline; here it has run.  Workers *)
(* are processes: the one that supervisor starts in place of another is    *)
(* another one of them.                                                    *)
(***************************************************************************)
EXTENDS Naturals

CONSTANTS
    Queues,     \* the names of the queues
    Jobs,       \* the jobs that are ever submitted
    Delayed,    \* those of them with a not-before time
    QueueOf,    \* the queue of each job
    Importers,  \* processes that run dsv-import
    Workers,    \* dsv-worker processes
    Ignored,    \* each worker's --ignore-queue
    NoJob

ASSUME SchedulingAssumption ==
    /\ "import" \notin Queues
    /\ Delayed \subseteq Jobs /\ NoJob \notin Jobs
    /\ QueueOf \in [Jobs -> Queues]
    /\ Ignored \in [Workers -> SUBSET Queues]

Locks == Queues \cup {"import"}

\* An empty delayed_jobs_list.  The order of the list is left out: all of it that is
\* to be queued is, and a queue has no order here.
None == [j \in Jobs |-> 0]

\* What Gearman holds: a job, with or without its time in its arguments.
Entries == [job : Jobs, wait : BOOLEAN]

Entry(j, wait) == [job |-> j, wait |-> wait]

NoEntry == [job |-> NoJob, wait |-> FALSE]

VARIABLES
    frozen,     \* the locks that are frozen
    holder,     \* the processes whose flock on dsv-import's lock is in force
    ipc,        \* where each dsv-import is
    submitted,  \* the jobs that have been submitted
    due,        \* the jobs whose time has come
    gearman,    \* how many of each entry the queues hold
    wpc,        \* where each worker is in its loop
    unchecked,  \* the queues whose lock it has still to look at
    functions,  \* the queues it registers for
    wentry,     \* what it has taken
    delayed,    \* its delayed_jobs_list: how often it holds each job
    ran,        \* the jobs whose script has run
    lost,       \* the jobs on a list of delayed jobs that a worker took with it
    late        \* how many jobs each worker has taken since each queue was frozen

locks == <<frozen, holder>>
loop == <<wpc, unchecked, functions, wentry, delayed>>
vars == <<locks, ipc, submitted, due, gearman, loop, ran, lost, late>>

Init ==
    /\ frozen = {} /\ holder = {}
    /\ ipc = [i \in Importers |-> "idle"]
    /\ submitted = {}
    /\ due = Jobs \ Delayed
    /\ gearman = [e \in Entries |-> 0]
    /\ wpc = [w \in Workers |-> "top"]
    /\ unchecked = [w \in Workers |-> {}]
    /\ functions = [w \in Workers |-> {}]
    /\ wentry = [w \in Workers |-> NoEntry]
    /\ delayed = [w \in Workers |-> None]
    /\ ran = {} /\ lost = {}
    /\ late = [w \in Workers |-> [q \in Queues |-> 0]]

-----------------------------------------------------------------------------
(* Freezing and thawing                                                    *)

Freeze(l) ==
    /\ l \notin frozen
    /\ frozen' = frozen \cup {l}
    /\ UNCHANGED <<holder, ipc, submitted, due, gearman, loop, ran, lost, late>>

Thaw(l) ==
    /\ l \in frozen
    /\ frozen' = frozen \ {l}
    /\ late' = [w \in Workers |-> [q \in Queues |-> IF q = l THEN 0 ELSE late[w][q]]]
    /\ UNCHANGED <<holder, ipc, submitted, due, gearman, loop, ran, lost>>

-----------------------------------------------------------------------------
(* dsv-import                                                              *)

GotoI(i, step) == ipc' = [ipc EXCEPT ![i] = step]

\* The lock file cannot be opened for writing while it is frozen.
OpenLock(i) ==
    /\ ipc[i] = "idle"
    /\ "import" \notin frozen
    /\ GotoI(i, "open")
    /\ UNCHANGED <<locks, submitted, due, gearman, loop, ran, lost, late>>

Flock(i) ==
    /\ ipc[i] = "open"
    /\ IF holder = {} THEN holder' = {i} /\ GotoI(i, "locked")
                      ELSE UNCHANGED holder /\ GotoI(i, "idle")
    /\ UNCHANGED <<frozen, submitted, due, gearman, loop, ran, lost, late>>

\* The file object is local to DSVLock.lock: returning closes the file, and that
\* ends the lock.
LockReturns(i) ==
    /\ ipc[i] = "locked"
    /\ holder' = holder \ {i}
    /\ GotoI(i, "run")
    /\ UNCHANGED <<frozen, submitted, due, gearman, loop, ran, lost, late>>

Submit(j, wait) ==
    /\ submitted' = submitted \cup {j}
    /\ gearman' = [gearman EXCEPT ![Entry(j, wait)] = @ + 1]

ImportSubmits(i) ==
    \E j \in Jobs \ (Delayed \cup submitted) :
        /\ ipc[i] = "run"
        /\ Submit(j, FALSE)
        /\ UNCHANGED <<locks, ipc, due, loop, ran, lost, late>>

ImportEnds(i) ==
    /\ ipc[i] = "run"
    /\ GotoI(i, "idle")
    /\ UNCHANGED <<locks, submitted, due, gearman, loop, ran, lost, late>>

ImportNext(i) ==
    \/ OpenLock(i) \/ Flock(i) \/ LockReturns(i) \/ ImportSubmits(i) \/ ImportEnds(i)

\* dsv-queue --not-before
QueueLater ==
    \E j \in Delayed \ submitted :
        /\ Submit(j, TRUE)
        /\ UNCHANGED <<locks, ipc, due, loop, ran, lost, late>>

Tick ==
    \E j \in Jobs \ due :
        /\ due' = due \cup {j}
        /\ UNCHANGED <<locks, ipc, submitted, gearman, loop, ran, lost, late>>

-----------------------------------------------------------------------------
(* dsv-worker                                                              *)

Goto(w, step) == wpc' = [wpc EXCEPT ![w] = step]

IsDue(j) == j \in due

\* A queue content g, with the jobs of a list added to it.
WithJobs(g, list, wait) ==
    [e \in Entries |-> IF e.wait = wait THEN g[e] + list[e.job] ELSE g[e]]

\* The jobs of a list whose time has come, and the others.
DueOf(list) == [j \in Jobs |-> IF IsDue(j) THEN list[j] ELSE 0]

RestOf(list) == [j \in Jobs |-> IF IsDue(j) THEN 0 ELSE list[j]]

\* What an interrupted queue_delayed_jobs may have queued.
PartsOf(list) ==
    {part \in [Jobs -> UNION {0..list[j] : j \in Jobs}] :
        \A j \in Jobs : part[j] <= DueOf(list)[j]}

\* Faulty: the jobs whose time has not come are queued as well.
QueueDelayedAll(w) ==
    /\ wpc[w] = "top"
    /\ gearman' = WithJobs(gearman, delayed[w], FALSE)
    /\ delayed' = [delayed EXCEPT ![w] = None]
    /\ unchecked' = [unchecked EXCEPT ![w] = Queues \ Ignored[w]]
    /\ functions' = [functions EXCEPT ![w] = {}]
    /\ Goto(w, "assess")
    /\ UNCHANGED <<locks, ipc, submitted, due, wentry, ran, lost, late>>

\* queue_delayed_jobs, and then the locks are to be assessed.
QueueDelayed(w) ==
    /\ wpc[w] = "top"
    /\ gearman' = WithJobs(gearman, DueOf(delayed[w]), FALSE)
    /\ delayed' = [delayed EXCEPT ![w] = RestOf(@)]
    /\ unchecked' = [unchecked EXCEPT ![w] = Queues \ Ignored[w]]
    /\ functions' = [functions EXCEPT ![w] = {}]
    /\ Goto(w, "assess")
    /\ UNCHANGED <<locks, ipc, submitted, due, wentry, ran, lost, late>>

Assess(w) ==
    \E q \in unchecked[w] :
        /\ wpc[w] = "assess"
        /\ unchecked' = [unchecked EXCEPT ![w] = @ \ {q}]
        /\ functions' = IF q \in frozen THEN functions
                        ELSE [functions EXCEPT ![w] = @ \cup {q}]
        /\ UNCHANGED <<locks, ipc, submitted, due, gearman, wpc, wentry, delayed,
                       ran, lost, late>>

\* With no queue to register for, the worker sleeps for a second and starts again.
Register(w) ==
    /\ wpc[w] = "assess"
    /\ unchecked[w] = {}
    /\ Goto(w, IF functions[w] = {} THEN "top" ELSE "get")
    /\ UNCHANGED <<locks, ipc, submitted, due, gearman, unchecked, functions, wentry,
                   delayed, ran, lost, late>>

Get(w) ==
    \E e \in Entries :
        /\ wpc[w] = "get"
        /\ gearman[e] > 0
        /\ QueueOf[e.job] \in functions[w]
        /\ gearman' = [gearman EXCEPT ![e] = @ - 1]
        /\ wentry' = [wentry EXCEPT ![w] = e]
        /\ late' = IF QueueOf[e.job] \in frozen
                   THEN [late EXCEPT ![w][QueueOf[e.job]] = @ + 1] ELSE late
        /\ Goto(w, "execute")
        /\ UNCHANGED <<locks, ipc, submitted, due, unchecked, functions, delayed, ran, lost>>

\* Faulty: nothing ends the waiting for a job.
StopWaitingNever(w) == FALSE

\* Every second a thread of the worker ends its waiting for a job.
StopWaiting(w) ==
    /\ wpc[w] = "get"
    /\ Goto(w, "top")
    /\ UNCHANGED <<locks, ipc, submitted, due, gearman, unchecked, functions, wentry,
                   delayed, ran, lost, late>>

Defer(w) ==
    /\ wpc[w] = "execute"
    /\ wentry[w].wait
    /\ delayed' = [delayed EXCEPT ![w][wentry[w].job] = @ + 1]
    /\ Goto(w, "done")
    /\ UNCHANGED <<locks, ipc, submitted, due, gearman, unchecked, functions, wentry,
                   ran, lost, late>>

RunScript(w) ==
    /\ wpc[w] = "execute"
    /\ ~wentry[w].wait
    /\ ran' = ran \cup {wentry[w].job}
    /\ Goto(w, "done")
    /\ UNCHANGED <<locks, ipc, submitted, due, gearman, unchecked, functions, wentry,
                   delayed, lost, late>>

\* Faulty: the next job is taken without another look at the locks.
DoneStaysRegistered(w) ==
    /\ wpc[w] = "done"
    /\ wentry' = [wentry EXCEPT ![w] = NoEntry]
    /\ Goto(w, "get")
    /\ UNCHANGED <<locks, ipc, submitted, due, gearman, unchecked, functions, delayed,
                   ran, lost, late>>

Done(w) ==
    /\ wpc[w] = "done"
    /\ wentry' = [wentry EXCEPT ![w] = NoEntry]
    /\ Goto(w, "top")
    /\ UNCHANGED <<locks, ipc, submitted, due, gearman, unchecked, functions, delayed,
                   ran, lost, late>>

\* The worker is gone, and with it what is left of its list; Gearman queues again what
\* it has not answered.
Leave(w, g, left) ==
    /\ gearman' = [e \in Entries |-> IF e = wentry[w] THEN g[e] + 1 ELSE g[e]]
    /\ lost' = lost \cup {j \in Jobs : left[j] > 0}
    /\ wentry' = [wentry EXCEPT ![w] = NoEntry]
    /\ delayed' = [delayed EXCEPT ![w] = None]
    /\ unchecked' = [unchecked EXCEPT ![w] = {}]
    /\ functions' = [functions EXCEPT ![w] = {}]
    /\ Goto(w, "gone")
    /\ UNCHANGED <<locks, ipc, submitted, due, ran, late>>

\* Faulty: the worker quits and Gearman still takes it to have the job.
InfraExitHolds(w) ==
    /\ wpc[w] = "execute"
    /\ ~wentry[w].wait
    /\ Goto(w, "gone")
    /\ UNCHANGED <<locks, ipc, submitted, due, gearman, unchecked, functions, wentry,
                   delayed, ran, lost, late>>

\* An infrastructure error ends the loop, and with it the list of delayed jobs.
InfraExit(w) ==
    /\ wpc[w] = "execute"
    /\ ~wentry[w].wait
    /\ Leave(w, gearman, delayed[w])

Gone(w) == wpc[w] = "gone"

\* What queue_delayed_jobs has queued by the time that it is broken off.
Halfway(w) == {again \in PartsOf(delayed[w]) : again # None => wpc[w] = "top"}

\* Faulty: the list of delayed jobs is not saved.
InterruptUnsaved(w) ==
    /\ ~Gone(w)
    /\ Leave(w, gearman, None)

\* KeyboardInterrupt: the delayed jobs go back to their queues, those too that
\* queue_delayed_jobs has already put there.
Interrupt(w) ==
    /\ ~Gone(w)
    /\ \E again \in Halfway(w) :
        Leave(w, WithJobs(WithJobs(gearman, again, FALSE), delayed[w], TRUE), None)

\* SIGTERM, by which supervisor stops a worker, is no KeyboardInterrupt: the list is
\* lost, but for what queue_delayed_jobs has already queued.
Kill(w) ==
    /\ ~Gone(w)
    /\ \E again \in Halfway(w) :
        Leave(w, WithJobs(gearman, again, FALSE), [j \in Jobs |-> delayed[w][j] - again[j]])

LoopNext(w) ==
    \/ QueueDelayed(w) \/ Assess(w) \/ Register(w) \/ Get(w) \/ StopWaiting(w)
    \/ Defer(w) \/ RunScript(w) \/ Done(w)

WorkerNext(w) == LoopNext(w) \/ InfraExit(w) \/ Interrupt(w) \/ Kill(w)

Next ==
    \/ \E l \in Locks : Freeze(l) \/ Thaw(l)
    \/ \E i \in Importers : ImportNext(i)
    \/ QueueLater \/ Tick
    \/ \E w \in Workers : WorkerNext(w)

Spec == Init /\ [][Next]_vars

\* Time passes, dsv-import ends, a worker goes on with its loop; and Gearman hands
\* over a job that is there within the second that a worker waits for one.
Fairness ==
    /\ WF_vars(Tick)
    /\ \A i \in Importers :
        WF_vars(Flock(i) \/ LockReturns(i)) /\ WF_vars(ImportEnds(i))
    /\ \A w \in Workers : WF_vars(LoopNext(w)) /\ SF_vars(Get(w))

FairSpec == Spec /\ Fairness

-----------------------------------------------------------------------------
(* Properties                                                              *)

\* Every variable has its type.
TypeOK ==
    /\ frozen \subseteq Locks /\ holder \subseteq Importers
    /\ ipc \in [Importers -> {"idle", "open", "locked", "run"}]
    /\ submitted \subseteq Jobs /\ due \subseteq Jobs /\ ran \subseteq submitted
    /\ lost \subseteq Delayed
    /\ gearman \in [Entries -> Nat]
    /\ wpc \in [Workers -> {"top", "assess", "get", "execute", "done", "gone"}]
    /\ unchecked \in [Workers -> SUBSET Queues]
    /\ functions \in [Workers -> SUBSET Queues]
    /\ wentry \in [Workers -> Entries \cup {NoEntry}]
    /\ \A w \in Workers : wentry[w] # NoEntry <=> wpc[w] \in {"execute", "done"}
    /\ delayed \in [Workers -> [Jobs -> Nat]]
    /\ late \in [Workers -> [Queues -> Nat]]

\* A worker takes at most one more job of a queue that has been frozen: one for
\* which it had registered before.  (operations.adoc promises more than the code does:
\* "Current jobs will complete, but no further jobs from the queue will be processed
\* until the queue is thawed".  A worker that waits for a job when its queue is frozen
\* does not look at the lock again before it takes one.)
OneLateJob == \A w \in Workers, q \in Queues : late[w][q] <= 1

\* A job is not run before its time, whichever worker has it and however often it
\* goes back to Gearman.
NotEarly == ran \subseteq due

\* A job is queued, with a worker or has run, unless it was on the list of delayed jobs
\* of a worker that has quit or was killed.
JobsKept ==
    \A j \in submitted \ ran :
        \/ \E wait \in BOOLEAN : gearman[Entry(j, wait)] > 0
        \/ \E w \in Workers : wentry[w].job = j \/ delayed[w][j] > 0
        \/ j \in lost

\* dsv-import.adoc: "This ensures only one import job can run at once on a machine".
OneImport == \A h, i \in Importers : ipc[h] = "run" /\ ipc[i] = "run" => h = i

\* A job of a queue that stays thawed is run, its time permitting, as long as there
\* is a worker for the queue, and unless a worker took it along on its list.
JobsRun ==
    \A j \in Jobs :
        <>[](QueueOf[j] \notin frozen) =>
            (j \in submitted ~>
                \/ j \in ran
                \/ j \in lost
                \/ \A w \in Workers : Gone(w) \/ QueueOf[j] \in Ignored[w])

\* When everything stays frozen, all work ends: imports that had begun come to
\* their end, and every worker finds its queues frozen.
FreezeTakesHold ==
    <>[](frozen = Locks) =>
        <>[](/\ \A i \in Importers : ipc[i] = "idle"
             /\ \A w \in Workers : Gone(w) \/ functions[w] = {})
=============================================================================
