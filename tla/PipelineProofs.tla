--------------------------- MODULE PipelineProofs ---------------------------
(***************************************************************************)
(* What is proved of Pipeline, for any files, workers and number of        *)
(* retries: its types, for any importers; and with one dsv-import at a     *)
(* time its inductive invariant, and what follows from it.                 *)
(***************************************************************************)
EXTENDS PipelineInvariant, TLAPS

\* NoJob is not a job, and a job is what its fields say.
LEMMA JobFacts ==
    /\ NoJob \notin Jobs
    /\ \A j \in Jobs : /\ j.queue \in Queues /\ j.dir \in PendingDirs
                       /\ j.file \in Files /\ j.retry \in 0..MaxRetries
                       /\ j.file # NoFile
    /\ \A q \in Queues, d \in PendingDirs, f \in Files : NewJob(q, d, f) \in Jobs
    /\ \A j \in Jobs : j.retry < MaxRetries =>
        [j EXCEPT !.retry = @ + 1] \in Jobs
  BY PipelineAssumption DEF Jobs, NoJob, NewJob, Queues, ConvertQueues

\* Submitting or taking a job leaves a queue a queue.
LEMMA AddType ==
    ASSUME NEW j \in Jobs, queue \in [Jobs -> Nat], Add(j)
    PROVE  queue' \in [Jobs -> Nat]
  BY DEF Add

USE DEF PendingDirs, TsvDirs, ConvertQueues, Queues, Contents

LEMMA InitType == Init => TypeOK
  BY PipelineAssumption DEF Init, TypeOK, ImporterSteps, WorkerSteps

LEMMA ImporterType ==
    ASSUME TypeOK, NEW i \in Importers, ImporterNext(i)
    PROVE  TypeOK'
<1> USE PipelineAssumption DEF TypeOK, ImporterSteps
<1>1. CASE List(i)
  BY <1>1 DEF List, disk, cdnsFiles, tsvFiles, database, worker
<1>2. CASE LinkIncoming(i)
  BY <1>2 DEF LinkIncoming, tsvFiles, database, worker
<1>3. CASE AddCdnsToTsv(i)
  <2>1. queue' \in [Jobs -> Nat]
    BY <1>3, JobFacts, AddType DEF AddCdnsToTsv
  <2> QED BY <1>3, <2>1 DEF AddCdnsToTsv, disk, cdnsFiles, tsvFiles, database, worker
<1>4. CASE LinkPcap(i)
  BY <1>4 DEF LinkPcap, tsvFiles, database, worker
<1>5. CASE AddCdnsToPcap(i)
  <2>1. queue' \in [Jobs -> Nat]
    BY <1>5, JobFacts, AddType DEF AddCdnsToPcap
  <2> QED BY <1>5, <2>1 DEF AddCdnsToPcap, disk, cdnsFiles, tsvFiles, database, worker
<1>6. CASE Rename(i)
  BY <1>6 DEF Rename, tsvFiles, database, worker
<1>7. CASE Finish(i)
  BY <1>7 DEF Finish, disk, cdnsFiles, tsvFiles, database, worker
<1> QED BY <1>1, <1>2, <1>3, <1>4, <1>5, <1>6, <1>7 DEF ImporterNext

\* A worker that is at a step of its work has a job.
LEMMA Working ==
    ASSUME TypeOK, NEW w \in Workers, wpc[w] \notin {"idle", "stopped"}
    PROVE  /\ wjob[w] \in Jobs
           /\ wjob[w].queue \in Queues /\ wjob[w].dir \in PendingDirs
           /\ wjob[w].file \in Files /\ wjob[w].retry \in 0..MaxRetries
<1>1. wjob[w] \in Jobs
  BY DEF TypeOK
<1> QED BY <1>1, JobFacts

LEMMA ScriptType ==
    ASSUME TypeOK, NEW w \in Workers, ScriptNext(w)
    PROVE  TypeOK'
<1>1. wpc[w] \in {"start", "test", "convert", "submit", "query", "insert", "counts"}
  BY DEF ScriptNext, FindNode, BeginConvert, EndConvert, SubmitTsv,
         ConvertError, ConvertPcap, TestTsv, AlreadyPresent, NotPresent,
         QueryFails, Insert, InsertFails, NoCounts, InsertCounts, InsertCountsFails, At
<1>2. /\ wjob[w] \in Jobs
      /\ wjob[w].queue \in Queues /\ wjob[w].dir \in PendingDirs
      /\ wjob[w].file \in Files
  BY <1>1, Working
<1>4. CASE BeginConvert(w)
  <2>1. tsv' \in [TsvDirs -> [Files -> Contents]]
    <3>1. [tsv EXCEPT ![wjob[w].dir][wjob[w].file] = "part"]
            \in [TsvDirs -> [Files -> Contents]]
      BY <1>2 DEF TypeOK
    <3>2. tsv' = tsv \/ tsv' = [tsv EXCEPT ![wjob[w].dir][wjob[w].file] = "part"]
      BY <1>4 DEF BeginConvert
    <3> QED BY <3>1, <3>2 DEF TypeOK
  <2>2. /\ \E s \in {"convert", "exit0"} : wpc' = [wpc EXCEPT ![w] = s]
        /\ wpc[w] = "test"
    BY <1>4 DEF BeginConvert, Goto, At
  <2>3. UNCHANGED <<incoming, archive, pending, failed, pcaps, sidecar, queue, head,
                    tail, counts, ipc, todo, cur, wjob>>
    BY <1>4 DEF BeginConvert, cdnsFiles, database, importer
  <2> QED BY <1>2, <2>1, <2>2, <2>3 DEF TypeOK, WorkerSteps
<1>5. CASE EndConvert(w)
  <2>1. tsv' \in [TsvDirs -> [Files -> Contents]]
    <3>1. [tsv EXCEPT ![wjob[w].dir][wjob[w].file] = "whole"]
            \in [TsvDirs -> [Files -> Contents]]
      BY <1>2 DEF TypeOK
    <3>2. tsv' = tsv \/ tsv' = [tsv EXCEPT ![wjob[w].dir][wjob[w].file] = "whole"]
      BY <1>5 DEF EndConvert
    <3> QED BY <3>1, <3>2 DEF TypeOK
  <2>2. sidecar' \in [PendingDirs -> SUBSET Files]
    BY <1>2, <1>5 DEF EndConvert, TypeOK
  <2>3. /\ wpc' = [wpc EXCEPT ![w] = "submit"] /\ wpc[w] = "convert"
        /\ UNCHANGED <<incoming, archive, pending, failed, pcaps, queue, head, tail,
                       counts, ipc, todo, cur, wjob>>
    BY <1>5 DEF EndConvert, Goto, At, cdnsFiles, database, importer
  <2> QED BY <1>2, <2>1, <2>2, <2>3 DEF TypeOK, WorkerSteps
<1> USE PipelineAssumption DEF TypeOK, WorkerSteps, Goto, At
<1>3. CASE FindNode(w)
  BY <1>2, <1>3 DEF FindNode, disk, cdnsFiles, tsvFiles, database, importer
<1>6. CASE SubmitTsv(w)
  <2>1. queue' \in [Jobs -> Nat]
    BY <1>2, <1>6, JobFacts, AddType DEF SubmitTsv
  <2> QED BY <1>2, <1>6, <2>1 DEF SubmitTsv, disk, cdnsFiles, tsvFiles, database, importer
<1>7. CASE ConvertError(w)
  BY <1>2, <1>7 DEF ConvertError, RemoveTsv, cdnsFiles, database, importer
<1>8. CASE ConvertPcap(w)
  BY <1>2, <1>8 DEF ConvertPcap, tsvFiles, database, importer
<1>9. CASE TestTsv(w)
  BY <1>2, <1>9 DEF TestTsv, disk, cdnsFiles, tsvFiles, database, importer
<1>10. CASE AlreadyPresent(w)
  BY <1>2, <1>10 DEF AlreadyPresent, cdnsFiles, database, importer
<1>11. CASE NotPresent(w)
  BY <1>2, <1>11 DEF NotPresent, disk, cdnsFiles, tsvFiles, database, importer
<1>12. CASE QueryFails(w)
  BY <1>2, <1>12 DEF QueryFails, disk, cdnsFiles, tsvFiles, database, importer
<1>13. CASE Insert(w)
  BY <1>2, <1>13 DEF Insert, InsertRows, InsertHead, disk, cdnsFiles, tsvFiles, importer
<1>14. CASE InsertFails(w)
  BY <1>2, <1>14 DEF InsertFails, InsertRows, InsertHead, disk, cdnsFiles, tsvFiles,
                     importer
<1>15. CASE NoCounts(w)
  BY <1>2, <1>15 DEF NoCounts, disk, cdnsFiles, tsvFiles, database, importer
<1>16. CASE InsertCounts(w)
  BY <1>2, <1>16 DEF InsertCounts, cdnsFiles, importer
<1>17. CASE InsertCountsFails(w)
  BY <1>2, <1>17 DEF InsertCountsFails, disk, cdnsFiles, tsvFiles, importer
<1> QED BY <1>3, <1>4, <1>5, <1>6, <1>7, <1>8, <1>9, <1>10, <1>11, <1>12, <1>13, 
           <1>14, <1>15, <1>16, <1>17 DEF ScriptNext

LEMMA WorkerType ==
    ASSUME TypeOK, NEW w \in Workers, WorkerNext(w)
    PROVE  TypeOK'
<1> USE DEF Goto
<1>1. CASE Take(w)
  BY <1>1, JobFacts DEF TypeOK, WorkerSteps, Take, disk, cdnsFiles, tsvFiles, database,
                        importer
<1>2. CASE InfraExit(w)
  <2>1. wjob[w] \in Jobs
    BY <1>2, Working DEF InfraExit
  <2>2. queue' \in [Jobs -> Nat]
    BY <1>2, <2>1, AddType DEF InfraExit, TypeOK
  <2> QED BY <1>2, <2>2 DEF TypeOK, WorkerSteps, InfraExit, disk, cdnsFiles, tsvFiles,
                            database, importer
<1>3. CASE ScriptNext(w)
  BY <1>3, ScriptType
<1>4. CASE Unlink(w)
  <2>1. wjob[w] \in Jobs /\ wjob[w].dir \in PendingDirs /\ wjob[w].file \in Files
    BY <1>4, Working DEF Unlink
  <2>2. pending' \in [PendingDirs -> SUBSET Files]
    BY <1>4, <2>1 DEF Unlink, TypeOK
  <2>3. tsv' \in [TsvDirs -> [Files -> Contents]]
    <3>1. [tsv EXCEPT ![wjob[w].dir][wjob[w].file] = "none"]
            \in [TsvDirs -> [Files -> Contents]]
      BY <2>1 DEF TypeOK
    <3>2. tsv' = tsv \/ tsv' = [tsv EXCEPT ![wjob[w].dir][wjob[w].file] = "none"]
      BY <1>4 DEF Unlink
    <3> QED BY <3>1, <3>2 DEF TypeOK
  <2>4. /\ wpc' = [wpc EXCEPT ![w] = "finish"] /\ wpc[w] = "exit0"
        /\ UNCHANGED <<incoming, archive, failed, pcaps, sidecar, queue, head, tail,
                       counts, ipc, todo, cur, wjob>>
    BY <1>4 DEF Unlink, database, importer
  <2> QED BY <2>2, <2>3, <2>4 DEF TypeOK, WorkerSteps
<1>5. CASE MoveToError(w)
  <2>1. /\ wjob[w] \in Jobs /\ wjob[w].queue \in Queues
        /\ wjob[w].dir \in PendingDirs /\ wjob[w].file \in Files
    BY <1>5, Working DEF MoveToError
  <2>2. tsv' \in [TsvDirs -> [Files -> Contents]]
    <3> DEFINE f == wjob[w].file
               t == [tsv EXCEPT !["error"][f] = TsvOf(w)]
    <3>1. TsvOf(w) \in Contents
      BY <2>1 DEF TsvOf, TypeOK
    <3>2. t \in [TsvDirs -> [Files -> Contents]]
      BY <2>1, <3>1 DEF TypeOK
    <3>3. [t EXCEPT ![wjob[w].dir][f] = "none"] \in [TsvDirs -> [Files -> Contents]]
      BY <2>1, <3>2
    <3>4. tsv' = tsv \/ tsv' = [t EXCEPT ![wjob[w].dir][f] = "none"]
      BY <1>5 DEF MoveToError
    <3> QED BY <3>3, <3>4 DEF TypeOK
  <2>3. /\ pending' \in [PendingDirs -> SUBSET Files]
        /\ failed' \in [ConvertQueues -> SUBSET Files]
    <3>1. /\ [pending EXCEPT ![wjob[w].dir] = @ \ {wjob[w].file}]
                \in [PendingDirs -> SUBSET Files]
          /\ [failed EXCEPT ![wjob[w].queue] = @ \cup {wjob[w].file}]
                \in [ConvertQueues -> SUBSET Files]
      BY <2>1 DEF TypeOK
    <3>2. /\ \/ pending' = pending
             \/ pending' = [pending EXCEPT ![wjob[w].dir] = @ \ {wjob[w].file}]
          /\ \/ failed' = failed
             \/ failed' = [failed EXCEPT ![wjob[w].queue] = @ \cup {wjob[w].file}]
      BY <1>5 DEF MoveToError
    <3> QED BY <3>1, <3>2 DEF TypeOK
  <2>4. /\ wpc' = [wpc EXCEPT ![w] = "finish"] /\ wpc[w] \in {"exit1", "exit2"}
        /\ UNCHANGED <<incoming, archive, pcaps, sidecar, queue, head, tail, counts,
                       ipc, todo, cur, wjob>>
    BY <1>5 DEF MoveToError, database, importer
  <2> QED BY <2>1, <2>2, <2>3, <2>4 DEF TypeOK, WorkerSteps
<1>6. CASE Answer(w)
  BY <1>6 DEF TypeOK, WorkerSteps, Answer, disk, cdnsFiles, tsvFiles, database, importer
<1>7. CASE FailTransient(w)
  BY <1>7 DEF TypeOK, WorkerSteps, FailTransient, disk, cdnsFiles, tsvFiles, database,
              importer
<1>8. CASE Resubmit(w)
  <2>1. wjob[w] \in Jobs
    BY <1>8, Working DEF Resubmit
  <2>2. [wjob[w] EXCEPT !.retry = @ + 1] \in Jobs
    BY <1>8, <2>1, JobFacts DEF Resubmit, TypeOK
  <2>3. queue' \in [Jobs -> Nat]
    BY <1>8, <2>2, AddType DEF Resubmit, TypeOK
  <2> QED BY <1>8, <2>3 DEF TypeOK, WorkerSteps, Resubmit, disk, cdnsFiles, tsvFiles,
                            database, importer
<1> QED BY <1>1, <1>2, <1>3, <1>4, <1>5, <1>6, <1>7, <1>8 DEF WorkerNext, ExitNext

LEMMA NextType == TypeOK /\ [Next]_vars => TypeOK'
<1> SUFFICES ASSUME TypeOK, [Next]_vars
             PROVE  TypeOK'
  OBVIOUS
<1>1. CASE \E f \in Files : Arrive(f)
  BY <1>1 DEF TypeOK, Arrive, tsvFiles, database, importer, worker
<1>2. CASE \E i \in Importers : ImporterNext(i)
  BY <1>2, ImporterType
<1>3. CASE \E w \in Workers : WorkerNext(w)
  BY <1>3, WorkerType
<1>4. CASE UNCHANGED vars
  BY <1>4 DEF TypeOK, vars, disk, cdnsFiles, tsvFiles, database, importer, worker
<1> QED BY <1>1, <1>2, <1>3, <1>4 DEF Next

\* In every state each variable of the pipeline has its type; in particular a
\* worker holds a job exactly while it works, and dsv-import a file.
THEOREM TypeCorrect == Spec => []TypeOK
<1>1. QED BY InitType, NextType, PTL DEF Spec

-----------------------------------------------------------------------------
(* Jobs: who has one, and for which files none is left                     *)

\* A job that a worker takes is not lost, and not with anyone else.
LEMMA TakeJobs ==
    ASSUME TypeOK, JobsInv, NEW w \in Workers, NEW j \in Jobs, wpc[w] = "idle",
           queue[j] > 0, queue' = [queue EXCEPT ![j] = @ - 1],
           wjob' = [wjob EXCEPT ![w] = j]
    PROVE  /\ JobsInv'
           /\ \A q \in Queues, f \in Files : Idle(q, f)' <=> Idle(q, f)
<1>1. /\ queue[j] = 1 /\ queue \in [Jobs -> Nat]
      /\ wjob \in [Workers -> Jobs \cup {NoJob}] /\ wjob[w] = NoJob
  BY DEF JobsInv, TypeOK
<1>2. /\ queue' \in [Jobs -> Nat] /\ queue'[j] = 0
      /\ \A k \in Jobs \ {j} : queue'[k] = queue[k]
      /\ wjob'[w] = j /\ \A v \in Workers \ {w} : wjob'[v] = wjob[v]
  BY <1>1
<1>3. JobsInv'
  BY <1>1, <1>2, JobFacts DEF JobsInv, Same
<1>4. ASSUME NEW q \in Queues, NEW f \in Files
      PROVE  Idle(q, f)' <=> Idle(q, f)
  BY <1>1, <1>2 DEF Idle, NoJob
<1> QED BY <1>3, <1>4

\* Nor is one that goes back to the queue, perhaps as another try.
LEMMA ReturnJobs ==
    ASSUME TypeOK, JobsInv, NEW w \in Workers, NEW k \in Jobs, wjob[w] \in Jobs,
           Same(wjob[w], k), k.dir = wjob[w].dir, Add(k),
           wjob' = [wjob EXCEPT ![w] = NoJob]
    PROVE  /\ JobsInv'
           /\ \A q \in Queues, f \in Files : Idle(q, f)' <=> Idle(q, f)
<1>1. /\ queue \in [Jobs -> Nat] /\ queue[k] = 0
      /\ wjob \in [Workers -> Jobs \cup {NoJob}] /\ wjob[w] # NoJob
  BY JobFacts DEF JobsInv, TypeOK
<1>2. /\ queue' \in [Jobs -> Nat] /\ queue'[k] = 1
      /\ \A i \in Jobs \ {k} : queue'[i] = queue[i]
      /\ wjob'[w] = NoJob /\ \A v \in Workers \ {w} : wjob'[v] = wjob[v]
  BY <1>1 DEF Add
<1>3. k.dir = DirOf(k.queue) /\ k.queue \in Queues
  BY <1>1, JobFacts DEF JobsInv, Same
<1>4. \A i \in Jobs \ {k} : queue[i] > 0 => ~Same(i, k)
  BY DEF JobsInv, Same
<1>5. \A v \in Workers \ {w} : ~Same(wjob[v], k)
  BY <1>1, <1>3 DEF JobsInv, Same, NoJob
<1>6. JobsInv'
  <2>1. \A i \in Jobs : queue'[i] > 0 => queue'[i] = 1 /\ i.dir = DirOf(i.queue)
    BY <1>2, <1>3 DEF JobsInv
  <2>2. \A i, j \in Jobs : queue'[i] > 0 /\ queue'[j] > 0 /\ Same(i, j) => i = j
    BY <1>2, <1>4 DEF JobsInv, Same
  <2>3. \A v \in Workers, j \in Jobs : queue'[j] > 0 => ~Same(wjob'[v], j)
    <3>1. \A j \in Jobs : ~Same(NoJob, j)
      BY JobFacts DEF Same, NoJob
    <3>2. \A v \in Workers \ {w}, j \in Jobs : queue'[j] > 0 => ~Same(wjob[v], j)
      BY <1>2, <1>5 DEF JobsInv
    <3> QED BY <1>2, <3>1, <3>2
  <2>4. \A v \in Workers : wjob'[v] # NoJob => wjob'[v].dir = DirOf(wjob'[v].queue)
    BY <1>2 DEF JobsInv
  <2>5. \A u, v \in Workers : wjob'[v] # NoJob /\ Same(wjob'[v], wjob'[u]) => v = u
    BY <1>1, <1>2, JobFacts DEF JobsInv, Same, NoJob
  <2> QED BY <2>1, <2>2, <2>3, <2>4, <2>5 DEF JobsInv
<1>7. ASSUME NEW q \in Queues, NEW f \in Files
      PROVE  Idle(q, f)' <=> Idle(q, f)
  BY <1>1, <1>2 DEF Idle, NoJob, Same
<1> QED BY <1>6, <1>7

\* A new job for a file that has none is the only one.
LEMMA AddJobs ==
    ASSUME TypeOK, JobsInv, NEW q \in Queues, NEW f \in Files, Idle(q, f),
           Add(NewJob(q, DirOf(q), f)), UNCHANGED wjob
    PROVE  /\ JobsInv'
           /\ \A p \in Queues, g \in Files :
                Idle(p, g)' <=> Idle(p, g) /\ ~(p = q /\ g = f)
           /\ \A j \in Jobs : queue'[j] > 0 =>
                queue[j] > 0 \/ (j.queue = q /\ j.file = f)
<1> DEFINE k == NewJob(q, DirOf(q), f)
<1>1. /\ k \in Jobs /\ k.queue = q /\ k.dir = DirOf(q) /\ k.file = f
  BY JobFacts DEF NewJob, DirOf
<1>2. /\ queue \in [Jobs -> Nat] /\ queue[k] = 0
  BY <1>1 DEF Idle, TypeOK
<1> HIDE DEF k
<1>3. /\ queue' \in [Jobs -> Nat] /\ queue'[k] = 1
      /\ \A i \in Jobs \ {k} : queue'[i] = queue[i]
  BY <1>1, <1>2 DEF Add, k
<1>4. JobsInv'
  BY <1>1, <1>2, <1>3 DEF JobsInv, Same, Idle
<1>5. ASSUME NEW p \in Queues, NEW g \in Files
      PROVE  Idle(p, g)' <=> Idle(p, g) /\ ~(p = q /\ g = f)
  BY <1>1, <1>2, <1>3 DEF Idle
<1>6. \A j \in Jobs : queue'[j] > 0 => queue[j] > 0 \/ (j.queue = q /\ j.file = f)
  BY <1>1, <1>3
<1> QED BY <1>4, <1>5, <1>6

\* The file of a job that is answered has no other job of its queue.
LEMMA AnswerJobs ==
    ASSUME TypeOK, JobsInv, NEW w \in Workers, wjob[w] \in Jobs, UNCHANGED queue,
           wjob' = [wjob EXCEPT ![w] = NoJob]
    PROVE  /\ JobsInv'
           /\ \A p \in Queues, g \in Files :
                Idle(p, g)' <=>
                    Idle(p, g) \/ (p = wjob[w].queue /\ g = wjob[w].file)
<1>1. /\ wjob \in [Workers -> Jobs \cup {NoJob}] /\ wjob[w] # NoJob
      /\ wjob'[w] = NoJob /\ \A v \in Workers \ {w} : wjob'[v] = wjob[v]
  BY JobFacts DEF TypeOK
<1>2. JobsInv'
  BY <1>1, JobFacts DEF JobsInv, Same, NoJob
<1>3. ASSUME NEW p \in Queues, NEW g \in Files
      PROVE  Idle(p, g)' <=> Idle(p, g) \/ (p = wjob[w].queue /\ g = wjob[w].file)
  BY <1>1 DEF Idle, NoJob, JobsInv, Same
<1> QED BY <1>2, <1>3

\* Steps that leave the jobs alone.
LEMMA SameJobs ==
    ASSUME UNCHANGED <<queue, wjob>>
    PROVE  /\ JobsInv => JobsInv'
           /\ \A q \in Queues, f \in Files : Idle(q, f)' <=> Idle(q, f)
<1>1. JobsInv => JobsInv'
  BY DEF JobsInv
<1>2. \A q \in Queues, f \in Files : Idle(q, f)' <=> Idle(q, f)
  BY DEF Idle
<1> QED BY <1>1, <1>2

\* A queue and file that a job is for are not idle.
LEMMA Busy ==
    /\ \A w \in Workers : ~Idle(wjob[w].queue, wjob[w].file)
    /\ \A j \in Jobs : queue[j] > 0 => ~Idle(j.queue, j.file)
  BY DEF Idle

-----------------------------------------------------------------------------
(* dsv-import                                                              *)

LEMMA ArriveKeeps ==
    ASSUME Inductive, TypeOK', NEW f \in Files, Arrive(f)
    PROVE  Inductive'
<1> USE DEF Inductive, Arrive, tsvFiles, database, importer, worker
<1>1. JobsInv' /\ \A q \in Queues, g \in Files : Idle(q, g)' <=> Idle(q, g)
  BY SameJobs
<1>2. FilesInv'
  BY DEF FilesInv, TypeOK
<1>3. FreshInv'
  BY <1>1 DEF FreshInv, NotFailed, Reached, PcapReached
<1>4. LinkedInv'
  BY <1>1 DEF LinkedInv, Converting, NotFailed, ToPcap, TypeOK
<1>5. WaitingInv'
  BY <1>1, JobFacts DEF WaitingInv, Converting, NotFailed, ToPcap
<1>6. HeldInv'
  BY <1>1, JobFacts DEF HeldInv, ConvertStep, PcapStep, ImportStep, Converting,
      NotFailed, ToPcap, TsvKept, TypeOK, NoJob
<1>7. DatabaseInv'
  BY DEF DatabaseInv
<1>8. PlacesInv'
  BY <1>1 DEF PlacesInv, TypeOK
<1>9. KeptInv'
  BY DEF KeptInv, Reached, PcapReached, TsvKept
<1> QED BY <1>1, <1>2, <1>3, <1>4, <1>5, <1>6, <1>7, <1>8, <1>9

LEMMA LinkIncomingKeeps ==
    ASSUME OneImporter, Inductive, TypeOK', NEW i \in Importers, LinkIncoming(i)
    PROVE  Inductive'
<1> USE DEF Inductive
<1>1. /\ JobsInv' /\ UNCHANGED <<queue, wjob>>
      /\ \A q \in Queues, g \in Files : Idle(q, g)' <=> Idle(q, g)
  BY SameJobs DEF LinkIncoming, worker
<1>2. PICK f \in todo[i] :
        /\ ipc[i] = "next" /\ todo' = [todo EXCEPT ![i] = @ \ {f}]
        /\ cur' = [cur EXCEPT ![i] = f]
        /\ \/ /\ f \in ImportFiles /\ Linkable(incoming, "incoming", f)
              /\ pending' = [pending EXCEPT !["incoming"] = @ \cup {f}]
              /\ ipc' = [ipc EXCEPT ![i] = "add-tsv"]
           \/ /\ ~(f \in ImportFiles /\ Linkable(incoming, "incoming", f))
              /\ ipc' = [ipc EXCEPT ![i] = "pcap"] /\ UNCHANGED pending
        /\ UNCHANGED <<incoming, archive, failed, pcaps, tsv, sidecar, head, tail,
                       counts, wpc>>
  BY DEF LinkIncoming, tsvFiles, database, worker
<1>3. /\ f \in incoming \ archive /\ f \in Files /\ f # NoFile
      /\ cur[i] = NoFile /\ ~Reached(f)
      /\ cur'[i] = f /\ todo'[i] = todo[i] \ {f}
      /\ ipc'[i] \in {"add-tsv", "pcap"}
  BY <1>2, PipelineAssumption DEF OneImporter, FilesInv, TypeOK, Reached
<1>4. \A g \in Files :
        /\ Reached(g)' <=> Reached(g) \/ g = f
        /\ PcapReached(g)' <=> PcapReached(g)
  BY <1>2, <1>3, PipelineAssumption DEF OneImporter, Reached, PcapReached
<1>5. /\ Idle("cdns-to-tsv", f) /\ Idle("import-tsv", f)
      /\ f \notin pending["incoming"] /\ NotFailed(f)
      /\ tsv["incoming"][f] = "none" /\ head[f] = 0
  BY <1>3 DEF FreshInv
<1>6. /\ \A g \in Files \ {f} : g \in pending'["incoming"] <=> g \in pending["incoming"]
      /\ pending'["pcap"] = pending["pcap"] /\ pending'["cbor"] = pending["cbor"]
      /\ pending["incoming"] \subseteq pending'["incoming"]
      /\ f \in ImportFiles => f \in pending'["incoming"]
  BY <1>2, <1>3, <1>5 DEF TypeOK, Linkable
<1>7. FilesInv'
  BY <1>2, <1>3 DEF OneImporter, FilesInv
<1>8. FreshInv'
  BY <1>1, <1>2, <1>4, <1>6 DEF FreshInv, NotFailed
<1>9. LinkedInv'
  BY <1>1, <1>2, <1>3, <1>5 DEF OneImporter, LinkedInv, Converting, NotFailed, TypeOK
<1>10. WaitingInv'
  BY <1>1, <1>2, <1>6, JobFacts DEF WaitingInv, Converting, NotFailed, ToPcap
<1>11. HeldInv'
  <2>1. \A w \in Workers : wjob[w].queue = "cdns-to-tsv" => wjob[w].file # f
    BY <1>5, Busy
  <2> QED BY <1>1, <1>2, <1>6, <2>1, JobFacts
       DEF HeldInv, ConvertStep, PcapStep, ImportStep, Converting, NotFailed, ToPcap,
           TsvKept, TypeOK, NoJob
<1>12. PlacesInv'
  BY <1>1, <1>2, <1>3, <1>6 DEF OneImporter, PlacesInv, TypeOK
<1>13. KeptInv'
  BY <1>2, <1>4, <1>6, PipelineAssumption DEF KeptInv, TsvKept
<1>14. DatabaseInv'
  BY <1>2 DEF DatabaseInv
<1> QED BY <1>1, <1>7, <1>8, <1>9, <1>10, <1>11, <1>12, <1>13, <1>14

\* dsv-import starts or stops, or goes to the next file: no file is at hand.
LEMMA BetweenFilesKeeps ==
    ASSUME OneImporter, Inductive, TypeOK', NEW i \in Importers,
           ipc[i] \in {"idle", "next"}, ipc'[i] \in {"idle", "next"},
           todo'[i] \subseteq incoming,
           UNCHANGED <<disk, queue, database, cur, worker>>
    PROVE  Inductive'
<1> USE DEF OneImporter, Inductive, disk, cdnsFiles, tsvFiles, database, worker
<1>1. JobsInv' /\ \A q \in Queues, g \in Files : Idle(q, g)' <=> Idle(q, g)
  BY SameJobs
<1>2. /\ cur[i] = NoFile
      /\ \A g \in Files :
        /\ Reached(g)' <=> Reached(g)
        /\ PcapReached(g)' <=> PcapReached(g)
  BY PipelineAssumption DEF Reached, PcapReached, TypeOK
<1>3. FilesInv'
  BY <1>2 DEF FilesInv
<1>4. FreshInv'
  BY <1>1, <1>2 DEF FreshInv, NotFailed
<1>5. LinkedInv'
  BY DEF LinkedInv
<1>6. WaitingInv'
  BY <1>1, JobFacts DEF WaitingInv, Converting, NotFailed, ToPcap
<1>7. HeldInv'
  BY <1>1, JobFacts DEF HeldInv, ConvertStep, PcapStep, ImportStep, Converting, NotFailed,
                        ToPcap, TsvKept, TypeOK, NoJob
<1>8. DatabaseInv'
  BY DEF DatabaseInv
<1>9. PlacesInv'
  BY <1>1 DEF PlacesInv, TypeOK
<1>10. KeptInv'
  BY <1>2, PipelineAssumption DEF KeptInv, TsvKept
<1> QED BY <1>1, <1>3, <1>4, <1>5, <1>6, <1>7, <1>8, <1>9, <1>10

LEMMA AddCdnsToTsvKeeps ==
    ASSUME OneImporter, Inductive, TypeOK', NEW i \in Importers, AddCdnsToTsv(i)
    PROVE  Inductive'
<1> USE DEF OneImporter, Inductive, AddCdnsToTsv, disk, cdnsFiles, tsvFiles, database,
    worker
<1> DEFINE f == cur[i]
<1>1. /\ f \in Files /\ Idle("cdns-to-tsv", f) /\ Converting(f, "none")
      /\ ipc'[i] = "pcap" /\ ipc[i] = "add-tsv"
  BY DEF LinkedInv, TypeOK
<1>2. /\ JobsInv'
      /\ \A q \in Queues, g \in Files :
            Idle(q, g)' <=> Idle(q, g) /\ ~(q = "cdns-to-tsv" /\ g = f)
  BY <1>1, AddJobs DEF DirOf
<1>3. \A g \in Files :
        /\ Reached(g)' <=> Reached(g)
        /\ PcapReached(g)' <=> PcapReached(g)
  BY <1>1 DEF Reached, PcapReached
<1>4. FilesInv'
  BY DEF FilesInv
<1>5. FreshInv'
  BY <1>2, <1>3 DEF FreshInv, NotFailed, Reached
<1>6. LinkedInv'
  BY <1>1 DEF LinkedInv
<1>7. WaitingInv'
  <2>1. \A j \in Jobs : queue'[j] > 0 =>
            queue[j] > 0 \/ (j.queue = "cdns-to-tsv" /\ j.file = f)
    BY <1>1, AddJobs DEF DirOf
  <2> QED BY <1>1, <1>2, <2>1, JobFacts DEF WaitingInv, Converting, NotFailed, ToPcap
<1>8. HeldInv'
  BY <1>1, <1>2, JobFacts DEF HeldInv, ConvertStep, PcapStep, ImportStep, Converting,
      NotFailed,
                        ToPcap, TsvKept, TypeOK, NoJob
<1>9. DatabaseInv'
  BY DEF DatabaseInv
<1>10. PlacesInv'
  BY <1>1, <1>2 DEF PlacesInv, TypeOK
<1>11. KeptInv'
  BY <1>3, PipelineAssumption DEF KeptInv, TsvKept
<1> QED BY <1>2, <1>4, <1>5, <1>6, <1>7, <1>8, <1>9, <1>10, <1>11

LEMMA AddCdnsToPcapKeeps ==
    ASSUME OneImporter, Inductive, TypeOK', NEW i \in Importers, AddCdnsToPcap(i)
    PROVE  Inductive'
<1> USE DEF OneImporter, Inductive, AddCdnsToPcap, disk, cdnsFiles, tsvFiles, database,
    worker
<1> DEFINE f == cur[i]
<1>1. /\ f \in Files /\ Idle("cdns-to-pcap", f) /\ ToPcap(f)
      /\ ipc'[i] = "rename" /\ ipc[i] = "add-pcap"
  BY DEF LinkedInv, TypeOK
<1>2. /\ JobsInv'
      /\ \A q \in Queues, g \in Files :
            Idle(q, g)' <=> Idle(q, g) /\ ~(q = "cdns-to-pcap" /\ g = f)
  BY <1>1, AddJobs DEF DirOf
<1>3. \A g \in Files :
        /\ Reached(g)' <=> Reached(g)
        /\ PcapReached(g)' <=> PcapReached(g)
  BY <1>1 DEF Reached, PcapReached
<1>4. FilesInv'
  BY DEF FilesInv
<1>5. FreshInv'
  BY <1>1, <1>2, <1>3 DEF FreshInv, NotFailed, PcapReached
<1>6. LinkedInv'
  BY <1>1 DEF LinkedInv
<1>7. WaitingInv'
  <2>1. \A j \in Jobs : queue'[j] > 0 =>
            queue[j] > 0 \/ (j.queue = "cdns-to-pcap" /\ j.file = f)
    BY <1>1, AddJobs DEF DirOf
  <2> QED BY <1>1, <1>2, <2>1, JobFacts DEF WaitingInv, Converting, NotFailed, ToPcap
<1>8. HeldInv'
  BY <1>1, <1>2, JobFacts DEF HeldInv, ConvertStep, PcapStep, ImportStep, Converting,
      NotFailed,
                        ToPcap, TsvKept, TypeOK, NoJob
<1>9. DatabaseInv'
  BY DEF DatabaseInv
<1>10. PlacesInv'
  BY <1>1, <1>2 DEF PlacesInv, TypeOK
<1>11. KeptInv'
  BY <1>3, PipelineAssumption DEF KeptInv, TsvKept
<1> QED BY <1>2, <1>4, <1>5, <1>6, <1>7, <1>8, <1>9, <1>10, <1>11

LEMMA LinkPcapKeeps ==
    ASSUME OneImporter, Inductive, TypeOK', NEW i \in Importers, LinkPcap(i)
    PROVE  Inductive'
<1> USE DEF OneImporter, Inductive, tsvFiles, database, worker
<1> DEFINE f == cur[i]
<1>1. /\ JobsInv' /\ UNCHANGED <<queue, wjob>>
      /\ \A q \in Queues, g \in Files : Idle(q, g)' <=> Idle(q, g)
  BY SameJobs DEF LinkPcap
<1>2. /\ f \in Files /\ f \in incoming \ archive /\ ~PcapReached(f) /\ Reached(f)
      /\ ipc'[i] \in {"add-pcap", "rename"} /\ ipc[i] = "pcap"
  BY PipelineAssumption DEF LinkPcap, FilesInv, TypeOK, PcapReached, Reached
<1>3. /\ Idle("cdns-to-pcap", f)
      /\ f \notin pending["pcap"] \cup failed["cdns-to-pcap"]
  BY <1>2 DEF FreshInv, NotFailed
<1>4. \A g \in Files :
        /\ Reached(g)' <=> Reached(g)
        /\ PcapReached(g)' <=> PcapReached(g) \/ g = f
  BY <1>2 DEF Reached, PcapReached, LinkPcap
<1>5. UNCHANGED <<incoming, archive, failed, pcaps, tsv, sidecar, head, tail, counts,
                wpc, todo, cur>>
  BY DEF LinkPcap
<1>6. /\ \A g \in Files \ {f} : g \in pending'["pcap"] <=> g \in pending["pcap"]
      /\ pending["pcap"] \subseteq pending'["pcap"]
      /\ pending'["incoming"] = pending["incoming"] /\ pending'["cbor"] = pending["cbor"]
      /\ ipc'[i] = "add-pcap" <=> f \in pending'["pcap"]
      /\ f \in PcapFiles => f \in pending'["pcap"]
  BY <1>2, <1>3 DEF LinkPcap, Linkable, TypeOK
<1>7. FilesInv'
  BY <1>5 DEF FilesInv
<1>8. FreshInv'
  BY <1>1, <1>4, <1>5, <1>6 DEF FreshInv, NotFailed
<1>9. LinkedInv'
  BY <1>1, <1>2, <1>3, <1>5, <1>6 DEF LinkedInv, ToPcap
<1>10. WaitingInv'
  BY <1>1, <1>5, <1>6, JobFacts DEF WaitingInv, Converting, NotFailed, ToPcap
<1>11. HeldInv'
  <2>1. \A w \in Workers : wjob[w].queue = "cdns-to-pcap" => wjob[w].file # f
    BY <1>3, Busy
  <2> QED BY <1>1, <1>5, <1>6, <2>1, JobFacts
       DEF HeldInv, ConvertStep, PcapStep, ImportStep, Converting, NotFailed, ToPcap,
           TsvKept, TypeOK, NoJob
<1>12. DatabaseInv'
  BY <1>5 DEF DatabaseInv
<1>13. PlacesInv'
  BY <1>1, <1>2, <1>5, <1>6 DEF PlacesInv, TypeOK
<1>14. KeptInv'
  BY <1>4, <1>5, <1>6, PipelineAssumption DEF KeptInv, TsvKept
<1> QED BY <1>1, <1>7, <1>8, <1>9, <1>10, <1>11, <1>12, <1>13, <1>14

LEMMA RenameKeeps ==
    ASSUME OneImporter, Inductive, TypeOK', NEW i \in Importers, Rename(i)
    PROVE  Inductive'
<1> USE DEF OneImporter, Inductive, Rename, tsvFiles, database, worker
<1> DEFINE f == cur[i]
<1>1. JobsInv' /\ \A q \in Queues, g \in Files : Idle(q, g)' <=> Idle(q, g)
  BY SameJobs
<1>2. /\ f \in Files /\ f \in incoming \ todo[i] /\ archive' = archive \cup {f}
      /\ cur'[i] = NoFile /\ ipc'[i] = "next" /\ ipc[i] = "rename"
  BY PipelineAssumption DEF FilesInv, TypeOK
<1>3. \A g \in Files :
        /\ Reached(g)' <=> Reached(g)
        /\ PcapReached(g)' <=> PcapReached(g)
  BY <1>2, PipelineAssumption DEF Reached, PcapReached
<1>4. FilesInv'
  BY <1>2 DEF FilesInv
<1>5. FreshInv'
  BY <1>1, <1>3 DEF FreshInv, NotFailed
<1>6. LinkedInv'
  BY <1>2 DEF LinkedInv
<1>7. WaitingInv'
  BY <1>1, JobFacts DEF WaitingInv, Converting, NotFailed, ToPcap
<1>8. HeldInv'
  BY <1>1, JobFacts DEF HeldInv, ConvertStep, PcapStep, ImportStep, Converting, NotFailed,
                        ToPcap, TsvKept, TypeOK, NoJob
<1>9. DatabaseInv'
  BY DEF DatabaseInv
<1>10. PlacesInv'
  BY <1>1, <1>2 DEF PlacesInv, TypeOK
<1>11. KeptInv'
  BY <1>3, PipelineAssumption DEF KeptInv, TsvKept
<1> QED BY <1>1, <1>4, <1>5, <1>6, <1>7, <1>8, <1>9, <1>10, <1>11

LEMMA ImporterKeeps ==
    ASSUME OneImporter, Inductive, TypeOK', NEW i \in Importers, ImporterNext(i)
    PROVE  Inductive'
<1>1. CASE List(i)
  BY <1>1, BetweenFilesKeeps DEF List, Inductive, TypeOK
<1>2. CASE Finish(i)
  BY <1>2, BetweenFilesKeeps DEF Finish, Inductive, TypeOK
<1> QED BY <1>1, <1>2, LinkIncomingKeeps, AddCdnsToTsvKeeps, LinkPcapKeeps,
           AddCdnsToPcapKeeps, RenameKeeps DEF ImporterNext
-----------------------------------------------------------------------------
(* dsv-worker: jobs taken, answered and queued again                       *)

LEMMA TakeKeeps ==
    ASSUME Inductive, TypeOK', NEW w \in Workers, Take(w)
    PROVE  Inductive'
<1> USE DEF Inductive
<1>1. PICK j \in Jobs :
        /\ wpc[w] = "idle" /\ queue[j] > 0
        /\ queue' = [queue EXCEPT ![j] = @ - 1]
        /\ wjob' = [wjob EXCEPT ![w] = j] /\ Goto(w, "start")
        /\ UNCHANGED <<disk, database, importer>>
  BY DEF Take
<1> USE DEF disk, cdnsFiles, tsvFiles, database, importer
<1>2. JobsInv' /\ \A q \in Queues, g \in Files : Idle(q, g)' <=> Idle(q, g)
  BY <1>1, TakeJobs
<1>3. /\ wjob'[w] = j /\ wpc'[w] = "start"
      /\ \A v \in Workers \ {w} : wjob'[v] = wjob[v] /\ wpc'[v] = wpc[v]
      /\ \A k \in Jobs : queue'[k] > 0 => queue[k] > 0
  BY <1>1 DEF Goto, TypeOK
<1>4. FilesInv' /\ DatabaseInv'
  BY <1>1 DEF FilesInv, DatabaseInv
<1>5. FreshInv'
  BY <1>1, <1>2 DEF FreshInv, NotFailed, Reached, PcapReached
<1>6. LinkedInv'
  BY <1>1, <1>2 DEF LinkedInv, Converting, NotFailed, ToPcap, TypeOK
<1>7. WaitingInv'
  BY <1>1, <1>2, <1>3, JobFacts DEF WaitingInv, Converting, NotFailed, ToPcap
<1>8. HeldInv'
  <2>1. /\ j.queue = "cdns-to-tsv" => Converting(j.file, "none")
        /\ j.queue = "cdns-to-pcap" => ToPcap(j.file)
        /\ j.queue = "import-tsv" => tsv["incoming"][j.file] = "whole" /\ NotFailed(j.file)
    BY <1>1 DEF WaitingInv
  <2> SUFFICES ASSUME NEW v \in Workers
               PROVE  /\ wjob'[v].queue = "cdns-to-tsv" => ConvertStep(v)'
                      /\ wjob'[v].queue = "cdns-to-pcap" => PcapStep(v)'
                      /\ wjob'[v].queue = "import-tsv" => ImportStep(v)'
    BY DEF HeldInv
  <2>2. CASE v = w
    BY <1>1, <1>2, <1>3, <2>1, <2>2, JobFacts DEF ConvertStep, PcapStep, ImportStep,
        Converting, NotFailed, ToPcap
  <2>3. CASE v # w
    BY <1>1, <1>2, <1>3, <2>3, JobFacts DEF HeldInv, ConvertStep, PcapStep,
       ImportStep, Converting, NotFailed, ToPcap, TsvKept, TypeOK, NoJob
  <2> QED BY <2>2, <2>3
<1>9. PlacesInv'
  BY <1>1, <1>2 DEF PlacesInv, TypeOK
<1>10. KeptInv'
  BY <1>1 DEF KeptInv, Reached, PcapReached, TsvKept
<1> QED BY <1>2, <1>4, <1>5, <1>6, <1>7, <1>8, <1>9, <1>10

\* A worker gives its job back to the queue: it quits, or the job failed for now.
LEMMA ReturnKeeps ==
    ASSUME Inductive, TypeOK', NEW w \in Workers, NEW k \in Jobs,
           wpc[w] \in {"start", "resubmit"}, wpc'[w] \in {"stopped", "idle"},
           \A v \in Workers \ {w} : wpc'[v] = wpc[v],
           Same(wjob[w], k), k.dir = wjob[w].dir, Add(k),
           wjob' = [wjob EXCEPT ![w] = NoJob],
           UNCHANGED <<disk, database, importer>>
    PROVE  Inductive'
<1> USE DEF Inductive, disk, cdnsFiles, tsvFiles, database, importer
<1>1. wjob[w] \in Jobs
  BY Working
<1>2. JobsInv' /\ \A q \in Queues, g \in Files : Idle(q, g)' <=> Idle(q, g)
  BY <1>1, ReturnJobs
<1>3. /\ wjob'[w] = NoJob
      /\ \A v \in Workers \ {w} : wjob'[v] = wjob[v]
      /\ \A j \in Jobs : queue'[j] > 0 => queue[j] > 0 \/ j = k
  BY DEF TypeOK, Add
<1>4. FilesInv' /\ DatabaseInv'
  BY DEF FilesInv, DatabaseInv
<1>5. FreshInv'
  BY <1>2 DEF FreshInv, NotFailed, Reached, PcapReached
<1>6. LinkedInv'
  BY <1>2 DEF LinkedInv, Converting, NotFailed, ToPcap, TypeOK
<1>7. WaitingInv'
  <2>1. /\ k.queue = "cdns-to-tsv" => Converting(k.file, "none")
        /\ k.queue = "cdns-to-pcap" => ToPcap(k.file)
        /\ k.queue = "import-tsv" => tsv["incoming"][k.file] = "whole" /\ NotFailed(k.file)
    BY DEF HeldInv, ConvertStep, PcapStep, ImportStep, Same
  <2> QED BY <1>2, <1>3, <2>1, JobFacts DEF WaitingInv, Converting, NotFailed, ToPcap
<1>8. HeldInv'
  BY <1>2, <1>3, JobFacts DEF HeldInv, ConvertStep, PcapStep,
       ImportStep, Converting, NotFailed, ToPcap, TsvKept, TypeOK, NoJob
<1>9. PlacesInv'
  BY <1>2 DEF PlacesInv, TypeOK
<1>10. KeptInv'
  BY DEF KeptInv, Reached, PcapReached, TsvKept
<1> QED BY <1>2, <1>4, <1>5, <1>6, <1>7, <1>8, <1>9, <1>10

LEMMA AnswerKeeps ==
    ASSUME Inductive, TypeOK', NEW w \in Workers, Answer(w)
    PROVE  Inductive'
<1> USE DEF Inductive, Answer, disk, cdnsFiles, tsvFiles, database, importer
<1> DEFINE q == wjob[w].queue  f == wjob[w].file
<1>1. wjob[w] \in Jobs /\ q \in Queues /\ f \in Files
  BY Working
<1>2. /\ JobsInv'
      /\ \A p \in Queues, g \in Files :
            Idle(p, g)' <=> Idle(p, g) \/ (p = q /\ g = f)
  BY <1>1, AnswerJobs
<1>3. /\ wjob'[w] = NoJob /\ wpc'[w] = "idle"
      /\ \A v \in Workers \ {w} : wjob'[v] = wjob[v] /\ wpc'[v] = wpc[v]
  BY DEF TypeOK, Goto
<1>4. FilesInv' /\ DatabaseInv'
  BY DEF FilesInv, DatabaseInv
<1>5. FreshInv'
  BY <1>2 DEF FreshInv, NotFailed, Reached, PcapReached
<1>6. LinkedInv'
  BY <1>2 DEF LinkedInv, Converting, NotFailed, ToPcap, TypeOK
<1>7. WaitingInv'
  BY <1>2, JobFacts DEF WaitingInv, Converting, NotFailed, ToPcap
<1>8. HeldInv'
  BY <1>2, <1>3, JobFacts DEF HeldInv, ConvertStep, PcapStep,
       ImportStep, Converting, NotFailed, ToPcap, TsvKept, TypeOK, NoJob
<1>9. PlacesInv'
  <2>1. /\ q = "cdns-to-tsv" => f \notin pending["incoming"]
        /\ q = "cdns-to-pcap" => f \notin pending["pcap"]
    BY DEF HeldInv, ConvertStep, PcapStep
  <2> QED BY <1>2, <2>1 DEF PlacesInv, TypeOK
<1>10. KeptInv'
  BY DEF KeptInv, Reached, PcapReached, TsvKept
<1> QED BY <1>2, <1>4, <1>5, <1>6, <1>7, <1>8, <1>9, <1>10

-----------------------------------------------------------------------------
(* The scripts: what a step may change beside the worker's own state       *)

\* dsv-cdns-to-tsv writes or removes the TSV of its own file, which no one else
\* has to do with.
LEMMA ConvertKeeps ==
    ASSUME Inductive, TypeOK', NEW w \in Workers, wjob[w].queue = "cdns-to-tsv",
           wpc[w] \in {"start", "test", "convert", "submit"},
           \A v \in Workers \ {w} : wpc'[v] = wpc[v],
           \A g \in Files \ {wjob[w].file} : tsv'["incoming"][g] = tsv["incoming"][g],
           tsv'["error"] = tsv["error"], ConvertStep(w)',
           UNCHANGED <<incoming, archive, pending, failed, pcaps, queue, database,
                       importer, wjob>>
    PROVE  Inductive'
<1> USE DEF Inductive, database, importer
<1> DEFINE f == wjob[w].file
<1>1. JobsInv' /\ \A q \in Queues, g \in Files : Idle(q, g)' <=> Idle(q, g)
  BY SameJobs
<1>2. /\ f \in Files /\ f \in pending["incoming"] \ failed["cdns-to-tsv"]
      /\ head[f] = 0 /\ Idle("import-tsv", f) /\ ~Idle("cdns-to-tsv", f)
      /\ wjob[w] # NoJob
  BY Working, Busy DEF HeldInv, ConvertStep, Converting, NotFailed, NoJob
<1>3. /\ \A v \in Workers \ {w} :
            wjob[v].file = f => wjob[v].queue \in {"none", "cdns-to-pcap"}
      /\ \A j \in Jobs : queue[j] > 0 /\ j.file = f => j.queue = "cdns-to-pcap"
  BY <1>2, Busy, JobFacts DEF JobsInv, Same, TypeOK, NoJob
<1>4. FilesInv' /\ DatabaseInv'
  BY DEF FilesInv, DatabaseInv
<1>5. FreshInv'
  BY <1>1, <1>2 DEF FreshInv, NotFailed, Reached, PcapReached
<1>6. LinkedInv'
  BY <1>1, <1>2 DEF LinkedInv, Converting, NotFailed, ToPcap, TypeOK
<1>7. WaitingInv'
  BY <1>1, <1>3, JobFacts DEF WaitingInv, Converting, NotFailed, ToPcap
<1>8. HeldInv'
  <2> SUFFICES ASSUME NEW v \in Workers \ {w}
               PROVE  /\ wjob[v].queue = "cdns-to-tsv" => ConvertStep(v)'
                      /\ wjob[v].queue = "cdns-to-pcap" => PcapStep(v)'
                      /\ wjob[v].queue = "import-tsv" => ImportStep(v)'
    BY DEF HeldInv
  <2>1. wpc'[v] = wpc[v] /\ (wjob[v].queue \in Queues => wjob[v].file \in Files)
    BY JobFacts DEF TypeOK, NoJob
  <2>2. wjob[v].queue = "cdns-to-tsv" => ConvertStep(v)'
    BY <1>1, <1>3, <2>1 DEF HeldInv, ConvertStep, Converting, NotFailed, TsvKept
  <2>3. wjob[v].queue = "cdns-to-pcap" => PcapStep(v)'
    BY <2>1 DEF HeldInv, PcapStep, ToPcap
  <2>4. wjob[v].queue = "import-tsv" => ImportStep(v)'
    BY <1>3, <2>1 DEF HeldInv, ImportStep, NotFailed
  <2> QED BY <2>2, <2>3, <2>4
<1>9. PlacesInv'
  BY <1>1 DEF PlacesInv, TypeOK
<1>10. KeptInv'
  BY <1>2, PipelineAssumption DEF KeptInv, Reached, PcapReached, TsvKept
<1> QED BY <1>1, <1>4, <1>5, <1>6, <1>7, <1>8, <1>9, <1>10

LEMMA SubmitTsvKeeps ==
    ASSUME Inductive, TypeOK', NEW w \in Workers, SubmitTsv(w)
    PROVE  Inductive'
<1> USE DEF Inductive, SubmitTsv, At, Goto, disk, cdnsFiles, tsvFiles, database, importer
<1> DEFINE f == wjob[w].file
<1>1. /\ f \in Files /\ Converting(f, "whole") /\ Idle("import-tsv", f)
      /\ wjob[w].dir = "incoming" /\ wjob[w] # NoJob /\ ~Idle("cdns-to-tsv", f)
  BY Working, Busy DEF HeldInv, ConvertStep, Converting, NotFailed, JobsInv, DirOf, NoJob
<1>2. /\ JobsInv'
      /\ \A q \in Queues, g \in Files :
            Idle(q, g)' <=> Idle(q, g) /\ ~(q = "import-tsv" /\ g = f)
      /\ \A j \in Jobs : queue'[j] > 0 =>
            queue[j] > 0 \/ (j.queue = "import-tsv" /\ j.file = f)
  BY <1>1, AddJobs DEF DirOf
<1>3. /\ \A v \in Workers \ {w} : wpc'[v] = wpc[v]
      /\ \A v \in Workers \ {w} :
            wjob[v].file = f => wjob[v].queue \in {"none", "cdns-to-pcap"}
      /\ \A j \in Jobs : queue[j] > 0 /\ j.file = f => j.queue = "cdns-to-pcap"
  BY <1>1, Busy, JobFacts DEF JobsInv, Same, TypeOK, NoJob
<1>4. FilesInv' /\ DatabaseInv'
  BY DEF FilesInv, DatabaseInv
<1>5. FreshInv'
  BY <1>1, <1>2 DEF FreshInv, NotFailed, Reached, PcapReached
<1>6. LinkedInv'
  BY <1>1, <1>2 DEF LinkedInv, Converting, NotFailed, ToPcap, TypeOK
<1>7. WaitingInv'
  BY <1>1, <1>2, <1>3, JobFacts DEF WaitingInv, Converting, NotFailed, ToPcap
<1>8. HeldInv'
  <2> SUFFICES ASSUME NEW v \in Workers
               PROVE  /\ wjob[v].queue = "cdns-to-tsv" => ConvertStep(v)'
                      /\ wjob[v].queue = "cdns-to-pcap" => PcapStep(v)'
                      /\ wjob[v].queue = "import-tsv" => ImportStep(v)'
    BY DEF HeldInv
  <2>1. CASE v = w
    BY <1>1, <2>1 DEF ConvertStep, Converting, NotFailed, TsvKept, TypeOK
  <2>2. CASE v # w
    BY <1>1, <1>2, <1>3, <2>2, JobFacts DEF HeldInv, ConvertStep, PcapStep,
       ImportStep, Converting, NotFailed, ToPcap, TsvKept, TypeOK, NoJob
  <2> QED BY <2>1, <2>2
<1>9. PlacesInv'
  BY <1>2 DEF PlacesInv, TypeOK
<1>10. KeptInv'
  BY DEF KeptInv, Reached, PcapReached, TsvKept
<1> QED BY <1>2, <1>4, <1>5, <1>6, <1>7, <1>8, <1>9, <1>10

LEMMA ConvertPcapKeeps ==
    ASSUME Inductive, TypeOK', NEW w \in Workers, ConvertPcap(w)
    PROVE  Inductive'
<1> USE DEF Inductive, tsvFiles, database, importer
<1> DEFINE f == wjob[w].file
<1>1. JobsInv' /\ \A q \in Queues, g \in Files : Idle(q, g)' <=> Idle(q, g)
  BY SameJobs DEF ConvertPcap
<1>2. /\ f \in Files /\ f \in pending["pcap"] \ failed["cdns-to-pcap"]
      /\ wjob[w].dir = "pcap" /\ wjob[w] # NoJob /\ wjob[w].queue = "cdns-to-pcap"
  BY Working DEF HeldInv, PcapStep, ToPcap, JobsInv, DirOf, NoJob, ConvertPcap, At
<1>3. /\ \A v \in Workers \ {w} : wpc'[v] = wpc[v]
      /\ \A g \in Files \ {f} : g \in pcaps' <=> g \in pcaps
      /\ wpc'[w] \in {"exit0", "exit1"} /\ (wpc'[w] = "exit0" => f \in pcaps')
      /\ UNCHANGED <<incoming, archive, pending, failed, tsv, sidecar, queue,
                     database, importer, wjob>>
  BY <1>2 DEF ConvertPcap, Goto, TypeOK, At
<1>4. FilesInv' /\ DatabaseInv'
  BY <1>3 DEF FilesInv, DatabaseInv
<1>5. FreshInv'
  BY <1>1, <1>3 DEF FreshInv, NotFailed, Reached, PcapReached
<1>6. LinkedInv'
  BY <1>1, <1>3 DEF LinkedInv, Converting, NotFailed, ToPcap, TypeOK
<1>7. WaitingInv'
  BY <1>1, <1>3, JobFacts DEF WaitingInv, Converting, NotFailed, ToPcap
<1>8. HeldInv'
  <2> SUFFICES ASSUME NEW v \in Workers
               PROVE  /\ wjob[v].queue = "cdns-to-tsv" => ConvertStep(v)'
                      /\ wjob[v].queue = "cdns-to-pcap" => PcapStep(v)'
                      /\ wjob[v].queue = "import-tsv" => ImportStep(v)'
    BY <1>3 DEF HeldInv
  <2>1. CASE v = w
    BY <1>2, <1>3, <2>1 DEF PcapStep, ToPcap
  <2>2. CASE v # w
    <3>1. wjob[v].queue = "cdns-to-pcap" => wjob[v].file # f
      BY <1>2, <2>2 DEF JobsInv, Same
    <3> QED BY <1>1, <1>3, <2>2, <3>1, JobFacts DEF HeldInv, ConvertStep, PcapStep,
       ImportStep, Converting, NotFailed, ToPcap, TsvKept, TypeOK, NoJob
  <2> QED BY <2>1, <2>2
<1>9. PlacesInv'
  BY <1>1, <1>3 DEF PlacesInv, TypeOK
<1>10. KeptInv'
  BY <1>2, <1>3, PipelineAssumption DEF KeptInv, Reached, PcapReached, TsvKept
<1> QED BY <1>1, <1>4, <1>5, <1>6, <1>7, <1>8, <1>9, <1>10

\* dsv-import-tsv adds to the database rows of its own file only.
LEMMA ImportKeeps ==
    ASSUME Inductive, TypeOK', NEW w \in Workers, wjob[w].queue = "import-tsv",
           wpc[w] \notin {"idle", "stopped"},
           \A v \in Workers \ {w} : wpc'[v] = wpc[v],
           \A g \in Files \ {wjob[w].file} : head'[g] = head[g] /\ counts'[g] = counts[g],
           head[wjob[w].file] > 0 => head'[wjob[w].file] > 0,
           DatabaseInv', ImportStep(w)',
           UNCHANGED <<cdnsFiles, tsv, queue, importer, wjob>>
    PROVE  Inductive'
<1> USE DEF Inductive, cdnsFiles, importer
<1> DEFINE f == wjob[w].file
<1>1. JobsInv' /\ \A q \in Queues, g \in Files : Idle(q, g)' <=> Idle(q, g)
  BY SameJobs
<1>2. f \in Files /\ ~Idle("import-tsv", f) /\ wjob[w] # NoJob /\ head \in [Files -> Nat]
  BY Working, Busy DEF NoJob, TypeOK
<1>3. FilesInv'
  BY DEF FilesInv
<1>4. FreshInv'
  BY <1>1, <1>2 DEF FreshInv, NotFailed, Reached, PcapReached
<1>5. LinkedInv'
  BY <1>1, <1>2 DEF LinkedInv, Converting, NotFailed, ToPcap, TypeOK
<1>6. WaitingInv'
  BY <1>1, <1>2, JobFacts DEF WaitingInv, Converting, NotFailed, ToPcap
<1>7. HeldInv'
  <2> SUFFICES ASSUME NEW v \in Workers \ {w}
               PROVE  /\ wjob[v].queue = "cdns-to-tsv" => ConvertStep(v)'
                      /\ wjob[v].queue = "cdns-to-pcap" => PcapStep(v)'
                      /\ wjob[v].queue = "import-tsv" => ImportStep(v)'
    BY DEF HeldInv
  <2>1. wjob[v].queue = "import-tsv" => wjob[v].file # f
    BY <1>2 DEF JobsInv, Same
  <2> QED BY <1>1, <1>2, <2>1, JobFacts DEF HeldInv, ConvertStep, PcapStep,
       ImportStep, Converting, NotFailed, ToPcap, TsvKept, TypeOK, NoJob
<1>8. PlacesInv'
  BY <1>1 DEF PlacesInv, TypeOK
<1>9. KeptInv'
  BY <1>2, PipelineAssumption DEF KeptInv, Reached, PcapReached, TsvKept
<1> QED BY <1>1, <1>3, <1>4, <1>5, <1>6, <1>7, <1>8, <1>9

-----------------------------------------------------------------------------
(* dsv-worker: where the job's file goes                                   *)

\* A TSV leaves its directory once its records are in the database or it is in
\* the error directory.
LEMMA TsvGoneKeeps ==
    ASSUME Inductive, TypeOK', NEW w \in Workers, wjob[w].queue = "import-tsv",
           wpc[w] \in {"exit0", "exit2"}, wpc'[w] = "finish",
           \A v \in Workers \ {w} : wpc'[v] = wpc[v],
           \A g \in Files \ {wjob[w].file} :
                /\ tsv'["incoming"][g] = tsv["incoming"][g]
                /\ tsv'["error"][g] = tsv["error"][g],
           head[wjob[w].file] > 0 \/ tsv'["error"][wjob[w].file] = "whole",
           UNCHANGED <<cdnsFiles, queue, database, importer, wjob>>
    PROVE  Inductive'
<1> USE DEF Inductive, cdnsFiles, database, importer
<1> DEFINE f == wjob[w].file
<1>1. JobsInv' /\ \A q \in Queues, g \in Files : Idle(q, g)' <=> Idle(q, g)
  BY SameJobs
<1>2. f \in Files /\ ~Idle("import-tsv", f) /\ wjob[w] # NoJob
  BY Working, Busy DEF NoJob
<1>3. /\ FilesInv' /\ DatabaseInv'
  BY DEF FilesInv, DatabaseInv
<1>4. FreshInv'
  BY <1>1, <1>2 DEF FreshInv, NotFailed, Reached, PcapReached
<1>5. LinkedInv'
  BY <1>1, <1>2 DEF LinkedInv, Converting, NotFailed, ToPcap, TypeOK
<1>6. WaitingInv'
  <2>1. \A j \in Jobs : queue[j] > 0 /\ j.queue = "import-tsv" => j.file # f
    BY DEF JobsInv, Same
  <2> QED BY <1>1, <1>2, <2>1, JobFacts DEF WaitingInv, Converting, NotFailed, ToPcap
<1>7. HeldInv'
  <2> SUFFICES ASSUME NEW v \in Workers
               PROVE  /\ wjob[v].queue = "cdns-to-tsv" => ConvertStep(v)'
                      /\ wjob[v].queue = "cdns-to-pcap" => PcapStep(v)'
                      /\ wjob[v].queue = "import-tsv" => ImportStep(v)'
    BY DEF HeldInv
  <2>1. CASE v = w
    BY <2>1 DEF ImportStep
  <2>2. CASE v # w
    <3>1. wjob[v].queue = "import-tsv" => wjob[v].file # f
      BY <1>2, <2>2 DEF JobsInv, Same
    <3> QED BY <1>1, <1>2, <2>2, <3>1, JobFacts DEF HeldInv, ConvertStep, PcapStep,
       ImportStep, Converting, NotFailed, ToPcap, TsvKept, TypeOK, NoJob
  <2> QED BY <2>1, <2>2
<1>8. PlacesInv'
  BY <1>1 DEF PlacesInv, TypeOK
<1>9. KeptInv'
  BY <1>2, PipelineAssumption DEF KeptInv, Reached, PcapReached, TsvKept
<1> QED BY <1>1, <1>3, <1>4, <1>5, <1>6, <1>7, <1>8, <1>9

\* A C-DNS link leaves its directory once its TSV or PCAP is there, or it is in
\* the error directory.
LEMMA LinkGoneKeeps ==
    ASSUME Inductive, TypeOK', NEW w \in Workers, NEW q \in ConvertQueues,
           wjob[w].queue = q, wpc[w] \in {"exit0", "exit1"}, wpc'[w] = "finish",
           \A v \in Workers \ {w} : wpc'[v] = wpc[v],
           pending' = [pending EXCEPT ![wjob[w].dir] = @ \ {wjob[w].file}],
           failed' = failed \/ failed' = [failed EXCEPT ![q] = @ \cup {wjob[w].file}],
           IF wpc[w] = "exit1" THEN wjob[w].file \in failed'[q] ELSE UNCHANGED failed,
           UNCHANGED <<incoming, archive, pcaps, tsv, sidecar, queue, database,
                       importer, wjob>>
    PROVE  Inductive'
<1> USE DEF Inductive, database, importer
<1> DEFINE f == wjob[w].file
<1>1. JobsInv' /\ \A p \in Queues, g \in Files : Idle(p, g)' <=> Idle(p, g)
  BY SameJobs
<1>2. /\ f \in Files /\ ~Idle(q, f) /\ wjob[w] # NoJob /\ wjob[w].dir = DirOf(q)
      /\ \A j \in Jobs : queue[j] > 0 /\ j.queue = q => j.file # f
  BY Working, Busy DEF NoJob, JobsInv, Same
<1>3. FilesInv' /\ DatabaseInv'
  BY DEF FilesInv, DatabaseInv
<1>4. /\ f \notin pending'[DirOf(q)] /\ pending'["cbor"] = pending["cbor"]
      /\ \A d \in PendingDirs : /\ pending'[d] \subseteq pending[d]
                                /\ pending[d] \subseteq pending'[d] \cup {f}
                                /\ d # DirOf(q) => pending'[d] = pending[d]
      /\ \A p \in ConvertQueues : /\ failed[p] \subseteq failed'[p]
                                  /\ failed'[p] \subseteq failed[p] \cup {f}
                                  /\ p # q => failed'[p] = failed[p]
  BY <1>2 DEF TypeOK, DirOf
<1>5. \A g \in Files : NotFailed(g) =>
        NotFailed(g)' \/ (q = "cdns-to-tsv" /\ g = f /\ Idle("import-tsv", g))
  <2>1. q = "cdns-to-tsv" /\ wpc[w] = "exit1" => Idle("import-tsv", f)
    BY DEF HeldInv, ConvertStep, Converting
  <2> QED BY <1>4, <2>1 DEF NotFailed
<1>6. FreshInv'
  BY <1>1, <1>2, <1>4, <1>5 DEF FreshInv, NotFailed, Reached, PcapReached
<1>7. LinkedInv'
  BY <1>1, <1>2, <1>4, <1>5 DEF LinkedInv, Converting, ToPcap, TypeOK, DirOf
<1>8. WaitingInv'
  BY <1>1, <1>2, <1>4, <1>5, Busy, JobFacts DEF WaitingInv, Converting, ToPcap, DirOf
<1>9. HeldInv'
  <2> SUFFICES ASSUME NEW v \in Workers
               PROVE  /\ wjob[v].queue = "cdns-to-tsv" => ConvertStep(v)'
                      /\ wjob[v].queue = "cdns-to-pcap" => PcapStep(v)'
                      /\ wjob[v].queue = "import-tsv" => ImportStep(v)'
    BY DEF HeldInv
  <2>1. CASE v = w
    BY <1>4, <2>1 DEF ConvertStep, PcapStep, DirOf
  <2>2. CASE v # w
    <3>1. wjob[v].queue = q => wjob[v].file # f
      BY <1>2, <2>2 DEF JobsInv, Same
    <3>2. wpc'[v] = wpc[v] /\ (wjob[v].queue \in Queues => wjob[v].file \in Files)
      BY <2>2, JobFacts DEF TypeOK, NoJob
    <3>3. wjob[v].queue = "cdns-to-tsv" => ConvertStep(v)'
      BY <1>1, <1>2, <1>4, <1>5, <3>1, <3>2
         DEF HeldInv, ConvertStep, Converting, TsvKept, DirOf
    <3>4. wjob[v].queue = "cdns-to-pcap" => PcapStep(v)'
      BY <1>4, <3>1, <3>2 DEF HeldInv, PcapStep, ToPcap, DirOf
    <3>5. wjob[v].queue = "import-tsv" => ImportStep(v)'
      BY <1>5, <3>2, Busy DEF HeldInv, ImportStep
    <3> QED BY <3>3, <3>4, <3>5
  <2> QED BY <2>1, <2>2
<1>10. PlacesInv'
  BY <1>1, <1>4 DEF PlacesInv, TypeOK
<1>11. KeptInv'
  <2>1. /\ q = "cdns-to-tsv" => f \in failed'[q] \/ TsvKept(f)
        /\ q = "cdns-to-pcap" => f \in failed'[q] \cup pcaps
    BY DEF HeldInv, ConvertStep, PcapStep
  <2> QED BY <1>4, <2>1, PipelineAssumption
          DEF KeptInv, Reached, PcapReached, TsvKept, DirOf
<1> QED BY <1>1, <1>3, <1>6, <1>7, <1>8, <1>9, <1>10, <1>11

-----------------------------------------------------------------------------
(* Every step                                                              *)

LEMMA ConvertScriptKeeps ==
    ASSUME Inductive, TypeOK', NEW w \in Workers,
           FindNode(w) \/ BeginConvert(w) \/ EndConvert(w) \/ ConvertError(w)
    PROVE  Inductive'
<1> USE DEF Inductive, At, Goto, cdnsFiles, tsvFiles, disk, database, importer
<1> DEFINE f == wjob[w].file
<1>1. /\ wjob[w].queue = "cdns-to-tsv" /\ wpc[w] \in {"start", "test", "convert", "submit"}
      /\ UNCHANGED <<incoming, archive, pending, failed, pcaps, queue, database,
                     importer, wjob>>
  BY DEF FindNode, BeginConvert, EndConvert, ConvertError, RemoveTsv
<1>2. f \in Files /\ wjob[w].dir = "incoming" /\ ConvertStep(w) /\ wjob[w] # NoJob
  BY <1>1, Working DEF HeldInv, JobsInv, DirOf, NoJob
<1>3. ~SharedOutput(w)
  BY <1>1, <1>2 DEF SharedOutput, JobsInv, Same
<1>4. /\ \A v \in Workers \ {w} : wpc'[v] = wpc[v]
      /\ \A g \in Files \ {f} : tsv'["incoming"][g] = tsv["incoming"][g]
      /\ tsv'["error"] = tsv["error"]
  BY <1>1, <1>2 DEF FindNode, BeginConvert, EndConvert, ConvertError, RemoveTsv, TypeOK
<1>5. \A c \in Contents : tsv'["incoming"][f] = c => Converting(f, c)'
  <2>1. \A q \in Queues, g \in Files : Idle(q, g)' <=> Idle(q, g)
    BY <1>1, SameJobs
  <2> QED BY <1>1, <1>2, <1>4, <2>1 DEF ConvertStep, Converting, NotFailed
<1>6. \/ wpc'[w] = "test" /\ tsv'["incoming"][f] = "none"
      \/ wpc'[w] = "convert" /\ tsv'["incoming"][f] = "part"
      \/ wpc'[w] = "submit" /\ tsv'["incoming"][f] = "whole"
      \/ wpc'[w] = "exit1" /\ tsv'["incoming"][f] = "none"
  <2>1. CASE FindNode(w)
    BY <1>2, <2>1 DEF FindNode, ConvertStep, Converting, NotFailed, TypeOK
  <2>2. CASE BeginConvert(w)
    BY <1>2, <2>2 DEF BeginConvert, ConvertStep, Converting, NotFailed, TypeOK
  <2>3. CASE EndConvert(w)
    BY <1>2, <1>3, <2>3 DEF EndConvert, ConvertStep, Converting, NotFailed, TypeOK
  <2>4. CASE ConvertError(w)
    BY <1>2, <2>4 DEF ConvertError, RemoveTsv, TypeOK
  <2> QED BY <2>1, <2>2, <2>3, <2>4
<1>7. ConvertStep(w)'
  BY <1>1, <1>5, <1>6 DEF ConvertStep
<1> QED BY <1>1, <1>4, <1>7, ConvertKeeps

LEMMA ImportScriptKeeps ==
    ASSUME Inductive, TypeOK', NEW w \in Workers,
           \/ TestTsv(w) \/ AlreadyPresent(w) \/ NotPresent(w) \/ QueryFails(w)
           \/ Insert(w) \/ InsertFails(w) \/ NoCounts(w) \/ InsertCounts(w)
           \/ InsertCountsFails(w)
    PROVE  Inductive'
<1> USE DEF Inductive, At, Goto, cdnsFiles, tsvFiles, disk, database, importer
<1> DEFINE f == wjob[w].file
<1>1. /\ wjob[w].queue = "import-tsv" /\ wpc[w] \in {"start", "query", "insert", "counts"}
      /\ UNCHANGED <<cdnsFiles, tsv, queue, importer, wjob>>
  BY DEF TestTsv, AlreadyPresent, NotPresent, QueryFails, Insert, InsertFails, NoCounts,
         InsertCounts, InsertCountsFails
<1>2. /\ f \in Files /\ wjob[w].dir = "incoming" /\ ImportStep(w) /\ TsvOf(w) = "whole"
      /\ head[f] \in Nat /\ tail[f] \in Nat /\ counts[f] \in Nat
      /\ head[f] <= 1 /\ tail[f] <= head[f] /\ counts[f] <= head[f]
      /\ AtomicInsert => head[f] = tail[f]
  BY <1>1, Working DEF HeldInv, JobsInv, DirOf, NoJob, TsvOf, ImportStep, DatabaseInv,
      TypeOK
<1>3. /\ \A v \in Workers \ {w} : wpc'[v] = wpc[v]
      /\ \A g \in Files \ {f} :
            head'[g] = head[g] /\ tail'[g] = tail[g] /\ counts'[g] = counts[g]
  BY <1>1, <1>2
     DEF TestTsv, AlreadyPresent, NotPresent, QueryFails, Insert, InsertFails, NoCounts,
         InsertCounts, InsertCountsFails, InsertRows, InsertHead, TypeOK
<1>4. \* What the script knows of the database, and leaves there, at its next step.
      /\ \/ wpc'[w] = "query"
         \/ wpc'[w] = "insert" /\ head'[f] = 0
         \/ wpc'[w] = "counts" /\ head'[f] > 0 /\ counts'[f] = 0
         \/ wpc'[w] = "exit0" /\ head'[f] > 0
         \/ wpc'[w] = "exit2"
      /\ head[f] > 0 => head'[f] > 0
      /\ head'[f] <= 1 /\ tail'[f] <= head'[f] /\ counts'[f] <= head'[f]
      /\ AtomicInsert => head'[f] = tail'[f]
  <2>1. CASE TestTsv(w) \/ AlreadyPresent(w) \/ NotPresent(w) \/ QueryFails(w)
    BY <1>2, <2>1 DEF TestTsv, AlreadyPresent, NotPresent, QueryFails, TypeOK
  <2>2. CASE Insert(w)
    BY <1>2, <2>2 DEF Insert, InsertRows, InsertHead, ImportStep, TypeOK
  <2>3. CASE InsertFails(w)
    BY <1>2, <2>3 DEF InsertFails, InsertRows, InsertHead, ImportStep, TypeOK
  <2>4. CASE NoCounts(w)
    BY <1>2, <2>4 DEF NoCounts, ImportStep, TypeOK
  <2>5. CASE InsertCounts(w)
    BY <1>2, <2>5 DEF InsertCounts, ImportStep, TypeOK
  <2>6. CASE InsertCountsFails(w)
    BY <1>2, <2>6 DEF InsertCountsFails, ImportStep, TypeOK
  <2> QED BY <2>1, <2>2, <2>3, <2>4, <2>5, <2>6
<1>5. ImportStep(w)'
  BY <1>1, <1>2, <1>4 DEF ImportStep, NotFailed, TsvOf
<1>6. DatabaseInv'
  BY <1>3, <1>4 DEF DatabaseInv
<1> QED BY <1>1, <1>3, <1>4, <1>5, <1>6, ImportKeeps

LEMMA ExitKeeps ==
    ASSUME Inductive, TypeOK', NEW w \in Workers, Unlink(w) \/ MoveToError(w)
    PROVE  Inductive'
<1> USE DEF Inductive, Goto
<1> DEFINE f == wjob[w].file
<1>1. /\ wjob[w].queue \in Queues /\ wjob[w].dir = DirOf(wjob[w].queue) /\ f \in Files
      /\ wpc'[w] = "finish" /\ \A v \in Workers \ {w} : wpc'[v] = wpc[v]
      /\ UNCHANGED <<incoming, archive, pcaps, sidecar, queue, database, importer, wjob>>
  BY Working DEF Unlink, MoveToError, JobsInv, TypeOK, database, importer
<1>2. CASE wjob[w].queue = "import-tsv"
  <2>1. /\ ImportStep(w) /\ wjob[w].dir = "incoming" /\ wpc[w] \in {"exit0", "exit2"}
    BY <1>1, <1>2 DEF HeldInv, DirOf, ImportStep, Unlink, MoveToError
  <2>2. /\ \A g \in Files \ {f} : /\ tsv'["incoming"][g] = tsv["incoming"][g]
                               /\ tsv'["error"][g] = tsv["error"][g]
        /\ head[f] > 0 \/ tsv'["error"][f] = "whole"
        /\ UNCHANGED cdnsFiles
    BY <1>1, <1>2, <2>1 DEF ImportStep, Unlink, MoveToError, TsvOf, TypeOK, cdnsFiles
  <2> QED BY <1>1, <1>2, <2>1, <2>2, TsvGoneKeeps
<1>3. CASE wjob[w].queue \in ConvertQueues
  <2>1. /\ wpc[w] \in {"exit0", "exit1"}
        /\ wpc[w] = "exit1" => f \in pending[wjob[w].dir] \ failed[wjob[w].queue]
    BY <1>1, <1>3 DEF HeldInv, ConvertStep, PcapStep, Converting, NotFailed, ToPcap,
        DirOf, Unlink, MoveToError
  <2>2. /\ pending' = [pending EXCEPT ![wjob[w].dir] = @ \ {f}] /\ UNCHANGED tsv
        /\ failed' = failed \/ failed' = [failed EXCEPT ![wjob[w].queue] = @ \cup {f}]
        /\ IF wpc[w] = "exit1" THEN f \in failed'[wjob[w].queue] ELSE UNCHANGED failed
    <3>1. CASE Unlink(w)
      BY <1>3, <3>1 DEF Unlink
    <3>2. CASE MoveToError(w)
      <4>1. wpc[w] = "exit1"
        BY <2>1, <3>2 DEF MoveToError
      <4>2. /\ pending' = [pending EXCEPT ![wjob[w].dir] = @ \ {f}] /\ UNCHANGED tsv
            /\ failed' = [failed EXCEPT ![wjob[w].queue] = @ \cup {f}]
        BY <1>3, <2>1, <3>2, <4>1 DEF MoveToError
      <4>3. failed \in [ConvertQueues -> SUBSET Files]
        BY DEF TypeOK
      <4> QED BY <1>3, <4>1, <4>2, <4>3
    <3> QED BY <1>1, <3>1, <3>2
  <2> QED BY <1>1, <1>3, <2>1, <2>2, LinkGoneKeeps
<1> QED BY <1>1, <1>2, <1>3

LEMMA FailTransientKeeps ==
    ASSUME Inductive, TypeOK', NEW w \in Workers, FailTransient(w)
    PROVE  Inductive'
<1> USE DEF Inductive, FailTransient, Goto, disk, tsvFiles, database
<1>1. wjob[w].queue = "import-tsv" /\ ImportStep(w)
  BY Working DEF HeldInv, ConvertStep, PcapStep
<1>2. wpc'[w] = "resubmit" /\ \A v \in Workers \ {w} : wpc'[v] = wpc[v]
  BY DEF TypeOK
<1>3. ImportStep(w)' /\ DatabaseInv'
  BY <1>1, <1>2 DEF ImportStep, NotFailed, DatabaseInv, cdnsFiles
<1> QED BY <1>1, <1>2, <1>3, ImportKeeps

LEMMA WorkerKeeps ==
    ASSUME Inductive, TypeOK', NEW w \in Workers, WorkerNext(w)
    PROVE  Inductive'
<1>1. CASE InfraExit(w)
  <2>1. wjob[w] \in Jobs
    BY <1>1, Working DEF InfraExit, Inductive
  <2> QED BY <1>1, <2>1, ReturnKeeps DEF InfraExit, Goto, Same, Inductive, TypeOK
<1>2. CASE Resubmit(w)
  <2> DEFINE k == [wjob[w] EXCEPT !.retry = @ + 1]
  <2>1. k \in Jobs /\ Same(wjob[w], k) /\ k.dir = wjob[w].dir
    <3>1. wjob[w] \in Jobs /\ wjob[w].retry < MaxRetries
      BY <1>2, Working DEF Resubmit, Inductive, TypeOK
    <3>2. k.queue = wjob[w].queue /\ k.dir = wjob[w].dir /\ k.file = wjob[w].file
      BY <3>1 DEF Jobs
    <3> QED BY <3>1, <3>2, JobFacts DEF Same
  <2> HIDE DEF k
  <2>2. /\ wpc[w] = "resubmit" /\ Add(k) /\ wpc' = [wpc EXCEPT ![w] = "idle"]
        /\ wjob' = [wjob EXCEPT ![w] = NoJob] /\ UNCHANGED <<disk, database, importer>>
    BY <1>2 DEF Resubmit, Goto, k
  <2> QED BY <2>1, <2>2, ReturnKeeps DEF Inductive, TypeOK
<1> QED BY <1>1, <1>2, TakeKeeps, ConvertScriptKeeps, SubmitTsvKeeps, ConvertPcapKeeps,
           ImportScriptKeeps, ExitKeeps, AnswerKeeps, FailTransientKeeps
        DEF WorkerNext, ScriptNext, ExitNext

\* In every reachable state the parts of the invariant hold together.
THEOREM Invariance ==
    ASSUME OneImporter
    PROVE  Spec => []Inductive
<1>1. Init => Inductive
  <2> SUFFICES ASSUME Init
               PROVE  Inductive
    OBVIOUS
  <2>1. TypeOK
    BY InitType
  <2>2. FilesInv /\ JobsInv /\ LinkedInv /\ WaitingInv /\ HeldInv
    BY <2>1 DEF Init, FilesInv, JobsInv, LinkedInv, WaitingInv, HeldInv, NoJob
  <2>3. FreshInv /\ DatabaseInv /\ PlacesInv
    BY DEF Init, FreshInv, NotFailed, DatabaseInv, PlacesInv, Idle, NoJob
  <2>4. KeptInv
    BY PipelineAssumption DEF Init, KeptInv, Reached, PcapReached
  <2> QED BY <2>1, <2>2, <2>3, <2>4 DEF Inductive
<1>2. Inductive /\ [Next]_vars => Inductive'
  <2> SUFFICES ASSUME Inductive, [Next]_vars
               PROVE  Inductive'
    OBVIOUS
  <2>1. TypeOK'
    BY NextType DEF Inductive
  <2>2. CASE UNCHANGED vars
    <3> USE <2>2 DEF vars, disk, cdnsFiles, tsvFiles, database, importer, worker
    <3>1. FilesInv' /\ JobsInv'
      BY DEF Inductive, FilesInv, JobsInv, Idle
    <3>2. FreshInv' /\ LinkedInv' /\ WaitingInv'
      BY DEF Inductive, FreshInv, LinkedInv, WaitingInv, Converting, NotFailed, ToPcap,
             Reached, PcapReached, Idle
    <3>3. HeldInv'
      BY DEF Inductive, HeldInv, ConvertStep, PcapStep, ImportStep, TsvKept, Converting,
             NotFailed, ToPcap, Idle
    <3>4. DatabaseInv' /\ PlacesInv' /\ KeptInv'
      BY DEF Inductive, DatabaseInv, PlacesInv, KeptInv, Reached, PcapReached, TsvKept,
             NotFailed, Idle
    <3> QED BY <2>1, <3>1, <3>2, <3>3, <3>4 DEF Inductive
  <2> QED BY <2>1, <2>2, ArriveKeeps, ImporterKeeps, WorkerKeeps DEF Next
<1> QED BY <1>1, <1>2, PTL DEF Spec

-----------------------------------------------------------------------------
(* What follows from the invariant                                         *)

\* No file vanishes between two directories, or between the last of them and the
\* database, whatever dsv-import and the workers do and whatever fails.
THEOREM KeepsFiles ==
    ASSUME OneImporter
    PROVE  Spec => []NothingLost
<1>1. Inductive => NothingLost
  BY PipelineAssumption DEF Inductive, KeptInv, NothingLost, RecordsKept, PcapsKept,
                            Reached, PcapReached, TsvKept
<1> QED BY <1>1, Invariance, PTL

\* No record of a file is in the database twice, although INSERTs are retried.
THEOREM LoadsOnce ==
    ASSUME OneImporter
    PROVE  Spec => []NoDuplicates
<1>1. Inductive => NoDuplicates
  <2> SUFFICES ASSUME Inductive, NEW f \in Files
               PROVE  head[f] <= 1 /\ tail[f] <= 1 /\ counts[f] <= 1
    BY DEF NoDuplicates
  <2>1. head[f] \in Nat /\ tail[f] \in Nat /\ counts[f] \in Nat
    BY DEF Inductive, TypeOK
  <2> QED BY <2>1 DEF Inductive, DatabaseInv
<1> QED BY <1>1, Invariance, PTL

\* A file is in the database with all of its records, or not at all, if an INSERT
\* that fails leaves all of its rows or none.
THEOREM LoadsAll ==
    ASSUME OneImporter
    PROVE  Spec => []CompleteImport
<1>1. Inductive => CompleteImport
  BY DEF Inductive, DatabaseInv, CompleteImport
<1> QED BY <1>1, Invariance, PTL

\* A job that is waiting, by its fields.
LEMMA WaitingJob ==
    ASSUME NEW q \in Queues, NEW d \in PendingDirs, NEW f \in Files
    PROVE  Waiting(q, d, f) <=>
             \E j \in Jobs : queue[j] > 0 /\ j.queue = q /\ j.dir = d /\ j.file = f
<1>1. ASSUME NEW r \in 0..MaxRetries
      PROVE  LET j == [queue |-> q, dir |-> d, file |-> f, retry |-> r]
             IN  j \in Jobs /\ j.queue = q /\ j.dir = d /\ j.file = f
  BY DEF Jobs
<1>2. ASSUME NEW j \in Jobs
      PROVE  j = [queue |-> j.queue, dir |-> j.dir, file |-> j.file, retry |-> j.retry]
  BY DEF Jobs
<1> QED BY <1>1, <1>2, JobFacts DEF Waiting

\* No two processes ever work on a file for two jobs of one queue.
THEOREM OneAtATime ==
    ASSUME OneImporter
    PROVE  Spec => []OneJob
<1>1. ASSUME Inductive
      PROVE  OneJob
  <2> USE <1>1 DEF Inductive
  <2>1. \A j \in Jobs : queue[j] <= 1
    BY DEF JobsInv, TypeOK
  <2>2. ASSUME NEW j \in Jobs, queue[j] > 0, NEW r \in 0..MaxRetries \ {j.retry}
        PROVE  queue[[j EXCEPT !.retry = r]] = 0
    <3> DEFINE k == [j EXCEPT !.retry = r]
    <3>1. k \in Jobs /\ k # j /\ k.queue = j.queue /\ k.file = j.file
      BY <2>2 DEF Jobs
    <3> HIDE DEF k
    <3>2. queue[k] \in Nat /\ ~(queue[k] > 0)
      BY <2>2, <3>1 DEF JobsInv, Same, TypeOK
    <3> QED BY <3>2 DEF k
  <2>3. ASSUME NEW w \in Workers, wjob[w] # NoJob
        PROVE  ~Waiting(wjob[w].queue, wjob[w].dir, wjob[w].file)
    <3>1. wjob[w].queue \in Queues /\ wjob[w].dir \in PendingDirs /\ wjob[w].file \in Files
      BY <2>3, JobFacts DEF TypeOK
    <3>2. \A j \in Jobs : queue[j] > 0 => ~(j.queue = wjob[w].queue /\ j.file = wjob[w].file)
      BY DEF JobsInv, Same
    <3> QED BY <3>1, <3>2, WaitingJob
  <2>4. ASSUME NEW q \in ConvertQueues, NEW f \in Files, Linked(q, f),
               NEW d \in {"incoming", "pcap"}
        PROVE  ~Waiting(q, d, f) /\ ~Held(q, d, f)
    <3>1. Idle(q, f)
      BY <2>4 DEF Linked, LinkedInv
    <3> QED BY <3>1, WaitingJob DEF Idle, Held, IsFor
  <2>5. ASSUME NEW v \in Workers, NEW w \in Workers, wjob[v] # NoJob,
               IsFor(wjob[v], wjob[w].queue, wjob[w].dir, wjob[w].file)
        PROVE  v = w
    BY <2>5 DEF IsFor, JobsInv, Same
  <2> QED BY <2>1, <2>2, <2>3, <2>4, <2>5 DEF OneJob
<1> QED BY <1>1, Invariance, PTL

\* Pending directories and queues agree: a link has a job, a job has its file.
THEOREM StaysInSync ==
    ASSUME OneImporter
    PROVE  Spec => []InSync
<1>1. ASSUME Inductive
      PROVE  InSync
  <2> USE <1>1 DEF Inductive
  <2>1. ASSUME NEW q \in ConvertQueues, NEW d \in PendingDirs, NEW f \in Files,
               Waiting(q, d, f)
        PROVE  f \in pending[d]
    BY <2>1, WaitingJob DEF WaitingInv, JobsInv, DirOf, Converting, NotFailed, ToPcap
  <2>2. ASSUME NEW d \in PendingDirs, NEW f \in Files, Waiting("import-tsv", d, f)
        PROVE  tsv[d][f] = "whole"
    BY <2>2, WaitingJob DEF WaitingInv, JobsInv, DirOf
  <2>3. ASSUME NEW d \in PendingDirs, NEW f \in Files, f \in pending[d]
        PROVE  \E q \in ConvertQueues : Waiting(q, d, f) \/ Held(q, d, f) \/ Linked(q, f)
    <3>1. PICK q \in ConvertQueues : d = DirOf(q) /\ (~Idle(q, f) \/ Linked(q, f))
      BY <2>3 DEF PlacesInv, DirOf, Linked
    <3>2. CASE ~Idle(q, f)
      <4>1. CASE \E j \in Jobs : queue[j] > 0 /\ j.queue = q /\ j.file = f
        BY <3>1, <4>1, WaitingJob DEF JobsInv
      <4>2. CASE \E w \in Workers : wjob[w].queue = q /\ wjob[w].file = f
        BY <3>1, <4>2 DEF Held, IsFor, JobsInv, NoJob
      <4> QED BY <3>2, <4>1, <4>2 DEF Idle
    <3> QED BY <3>1, <3>2
  <2> QED BY <2>1, <2>2, <2>3 DEF InSync
<1> QED BY <1>1, Invariance, PTL

-----------------------------------------------------------------------------
(* The refinement of FileLifecycle                                         *)

\* Where a step may take a file of the pipeline, in the stages of FileLifecycle.
Advances(f) ==
    \/ StageOf(f)' = StageOf(f)
    \/ StageOf(f) = "absent" /\ StageOf(f)' = "received"
    \/ StageOf(f) = "received" /\ StageOf(f)' = "archived" /\ f \notin ImportFiles
    \/ StageOf(f) = "received" /\ StageOf(f)' = "queued" /\ f \in ImportFiles
    \/ StageOf(f) = "queued" /\ StageOf(f)' \in {"loaded", "rejected"}

\* A step that moves one file on is a step of FileLifecycle, or stutters.
LEMMA OneFile ==
    ASSUME NEW f \in Files, Advances(f),
           \A g \in Files \ {f} : StageOf(g)' = StageOf(g)
    PROVE  [Lifecycle!Next]_[g \in Files |-> StageOf(g)]
<1> DEFINE stage == [g \in Files |-> StageOf(g)]
<1>1. CASE StageOf(f)' = StageOf(f)
  BY <1>1
<1>2. CASE StageOf(f)' # StageOf(f)
  <2>1. stage' = [stage EXCEPT ![f] = StageOf(f)']
    OBVIOUS
  <2>2. stage[f] = StageOf(f)
    OBVIOUS
  <2> QED BY <1>2, <2>1, <2>2 DEF Advances, Lifecycle!Next, Lifecycle!Move,
      Lifecycle!Receive,
          Lifecycle!Archive, Lifecycle!Enqueue, Lifecycle!Load, Lifecycle!Reject
<1> QED BY <1>1, <1>2

LEMMA InitialStages == Init => Lifecycle!Init
  BY DEF Init, Lifecycle!Init, StageOf
LEMMA ImporterAdvances ==
    ASSUME OneImporter, Inductive, NEW i \in Importers, ImporterNext(i)
    PROVE  [Lifecycle!Next]_[f \in Files |-> StageOf(f)]
<1> USE DEF Inductive, tsvFiles, database
<1>1. CASE LinkIncoming(i)
  <2>1. PICK f \in todo[i] :
            \/ /\ f \in ImportFiles /\ f \notin pending["incoming"]
               /\ pending' = [pending EXCEPT !["incoming"] = @ \cup {f}]
            \/ UNCHANGED pending
    BY <1>1 DEF LinkIncoming, Linkable
  <2>2. UNCHANGED <<incoming, archive, failed, tsv, head>>
    BY <1>1 DEF LinkIncoming
  <2>3. /\ f \in Files /\ f \in incoming /\ tsv["incoming"][f] = "none" /\ head[f] = 0
        /\ f \notin pending["incoming"]
    BY <1>1, PipelineAssumption
       DEF OneImporter, LinkIncoming, FilesInv, FreshInv, Reached, TypeOK
  <2>4. \A g \in Files \ {f} : StageOf(g)' = StageOf(g)
    BY <2>1, <2>2 DEF StageOf, TypeOK
  <2>5. Advances(f)
    BY <2>1, <2>2, <2>3 DEF Advances, StageOf, TypeOK
  <2> QED BY <2>3, <2>4, <2>5, OneFile
<1>2. CASE Rename(i)
  <2>0. PICK f \in Files : f = cur[i]
    BY <1>2 DEF Rename, TypeOK
  <2>1. /\ f \in incoming \ archive /\ Reached(f)
        /\ incoming' = incoming \ {f} /\ archive' = archive \cup {f}
        /\ UNCHANGED <<pending, failed, tsv, head>>
    BY <1>2, <2>0, PipelineAssumption DEF Rename, FilesInv, Reached
  <2>2. \A g \in Files \ {f} : StageOf(g)' = StageOf(g)
    BY <2>1 DEF StageOf
  <2>3. f \in ImportFiles =>
            f \in pending["incoming"] \cup failed["cdns-to-tsv"] \/ TsvKept(f)
    BY <2>1 DEF KeptInv
  <2>4. Advances(f)
    BY <2>1, <2>3 DEF Advances, StageOf, TsvKept
  <2> QED BY <2>1, <2>2, <2>4, OneFile
<1>3. CASE List(i) \/ AddCdnsToTsv(i) \/ LinkPcap(i) \/ AddCdnsToPcap(i) \/ Finish(i)
  <2>1. pending'["incoming"] = pending["incoming"]
        /\ UNCHANGED <<incoming, archive, failed, tsv, head>>
    BY <1>3 DEF List, AddCdnsToTsv, LinkPcap, AddCdnsToPcap, Finish, disk, cdnsFiles,
        TypeOK
  <2> QED BY <2>1 DEF StageOf
<1> QED BY <1>1, <1>2, <1>3 DEF ImporterNext

LEMMA WorkerAdvances ==
    ASSUME Inductive, NEW w \in Workers, WorkerNext(w)
    PROVE  [Lifecycle!Next]_[f \in Files |-> StageOf(f)]
<1> USE DEF Inductive, disk, cdnsFiles, tsvFiles, database, At
<1>1. CASE \/ Take(w) \/ InfraExit(w) \/ FindNode(w) \/ SubmitTsv(w) \/ ConvertPcap(w)
           \/ TestTsv(w) \/ AlreadyPresent(w) \/ NotPresent(w) \/ QueryFails(w)
           \/ NoCounts(w) \/ InsertCounts(w) \/ InsertCountsFails(w) \/ Answer(w)
           \/ FailTransient(w) \/ Resubmit(w)
  <2>1. UNCHANGED <<incoming, archive, pending, failed, tsv, head>>
    BY <1>1 DEF Take, InfraExit, FindNode, SubmitTsv, ConvertPcap, TestTsv,
        AlreadyPresent,
        NotPresent, QueryFails, NoCounts, InsertCounts, InsertCountsFails, Answer,
        FailTransient, Resubmit
  <2> QED BY <2>1 DEF StageOf
<1>2. CASE \/ BeginConvert(w) \/ EndConvert(w) \/ ConvertError(w)
           \/ Insert(w) \/ InsertFails(w) \/ Unlink(w) \/ MoveToError(w)
  <2>0. wpc[w] \notin {"idle", "stopped"}
    BY <1>2 DEF BeginConvert, EndConvert, ConvertError, Insert, InsertFails, Unlink,
                MoveToError
  <2>1. PICK f \in Files : f = wjob[w].file
    BY <2>0, Working
  <2>2. wjob[w].queue \in Queues /\ wjob[w].dir = DirOf(wjob[w].queue)
    BY <2>0, Working DEF JobsInv, NoJob
  <2>3. CASE BeginConvert(w) \/ EndConvert(w) \/ ConvertError(w)
    <3>1. /\ wjob[w].dir = "incoming" /\ f \in pending["incoming"]
          /\ UNCHANGED <<incoming, archive, pending, failed, head>>
      BY <2>1, <2>2, <2>3 DEF BeginConvert, EndConvert, ConvertError, RemoveTsv, HeldInv,
                              ConvertStep, Converting, DirOf
    <3>2. /\ \A g \in Files \ {f} : tsv'["incoming"][g] = tsv["incoming"][g]
          /\ tsv'["error"] = tsv["error"]
      BY <2>1, <2>3, <3>1 DEF BeginConvert, EndConvert, ConvertError, RemoveTsv, TypeOK
    <3> QED BY <3>1, <3>2 DEF StageOf
  <2>4. CASE Insert(w) \/ InsertFails(w)
    <3>1. /\ tsv["incoming"][f] = "whole" /\ NotFailed(f)
          /\ UNCHANGED <<incoming, archive, pending, failed, tsv>>
      BY <2>1, <2>4 DEF Insert, InsertFails, HeldInv, ImportStep
    <3>2. /\ \A g \in Files \ {f} : head'[g] = head[g]
          /\ head[f] > 0 => head'[f] > 0
      BY <2>1, <2>4 DEF Insert, InsertFails, InsertRows, InsertHead, TypeOK
    <3>3. \A g \in Files \ {f} : StageOf(g)' = StageOf(g)
      BY <3>1, <3>2 DEF StageOf
    <3>4. Advances(f)
      BY <3>1, <3>2 DEF Advances, StageOf, NotFailed
    <3> QED BY <3>3, <3>4, OneFile
  <2>5. CASE (Unlink(w) \/ MoveToError(w)) /\ wjob[w].queue = "import-tsv"
    <3>1. /\ ImportStep(w) /\ wpc[w] \in {"exit0", "exit2"}
          /\ UNCHANGED <<incoming, archive, pending, failed, head>>
      BY <2>5 DEF HeldInv, ImportStep, Unlink, MoveToError
    <3>2. /\ \A g \in Files \ {f} : /\ tsv'["incoming"][g] = tsv["incoming"][g]
                                 /\ tsv'["error"][g] = tsv["error"][g]
          /\ \/ head[f] > 0
             \/ /\ tsv["incoming"][f] = "whole" /\ NotFailed(f)
                /\ tsv'["error"][f] = "whole"
      BY <2>1, <2>2, <2>5, <3>1 DEF ImportStep, Unlink, MoveToError, TsvOf, DirOf, TypeOK
    <3>3. \A g \in Files \ {f} : StageOf(g)' = StageOf(g)
      BY <3>1, <3>2 DEF StageOf
    <3>4. Advances(f)
      BY <3>1, <3>2 DEF Advances, StageOf, NotFailed
    <3> QED BY <3>3, <3>4, OneFile
  <2>6. CASE (Unlink(w) \/ MoveToError(w)) /\ wjob[w].queue = "cdns-to-pcap"
    <3>1. /\ pending'["incoming"] = pending["incoming"]
          /\ failed'["cdns-to-tsv"] = failed["cdns-to-tsv"]
          /\ UNCHANGED <<incoming, archive, tsv, head>>
      BY <2>2, <2>6 DEF Unlink, MoveToError, DirOf, TypeOK
    <3> QED BY <3>1 DEF StageOf
  <2>7. CASE (Unlink(w) \/ MoveToError(w)) /\ wjob[w].queue = "cdns-to-tsv"
    <3>1. /\ ConvertStep(w) /\ wpc[w] \in {"exit0", "exit1"}
          /\ UNCHANGED <<incoming, archive, tsv, head>>
      BY <2>7 DEF HeldInv, ConvertStep, Unlink, MoveToError
    <3>2. /\ \A g \in Files \ {f} :
                /\ g \in pending'["incoming"] <=> g \in pending["incoming"]
                /\ g \in failed'["cdns-to-tsv"] <=> g \in failed["cdns-to-tsv"]
          /\ f \in pending["incoming"]
          /\ \/ failed' = failed /\ TsvKept(f)
             \/ NotFailed(f) /\ f \in failed'["cdns-to-tsv"]
      BY <2>1, <2>2, <2>7, <3>1
         DEF ConvertStep, Converting, NotFailed, Unlink, MoveToError, DirOf, TypeOK
    <3>3. \A g \in Files \ {f} : StageOf(g)' = StageOf(g)
      BY <3>1, <3>2 DEF StageOf
    <3>4. Advances(f)
      BY <3>1, <3>2 DEF Advances, StageOf, NotFailed, TsvKept
    <3> QED BY <3>3, <3>4, OneFile
  <2> QED BY <1>2, <2>2, <2>3, <2>4, <2>5, <2>6, <2>7
<1> QED BY <1>1, <1>2 DEF WorkerNext, ScriptNext, ExitNext

\* The pipeline implements FileLifecycle: each step of its processes moves one
\* file on by one stage, or none.
THEOREM Refinement ==
    ASSUME OneImporter
    PROVE  Spec => ImplementsLifecycle
<1>1. Inductive /\ [Next]_vars => [Lifecycle!Next]_[f \in Files |-> StageOf(f)]
  <2> SUFFICES ASSUME Inductive, [Next]_vars
               PROVE  [Lifecycle!Next]_[f \in Files |-> StageOf(f)]
    OBVIOUS
  <2>1. ASSUME NEW g \in Files, Arrive(g)
        PROVE  [Lifecycle!Next]_[f \in Files |-> StageOf(f)]
    <3>1. /\ g \notin incoming \cup archive /\ incoming' = incoming \cup {g}
          /\ UNCHANGED <<archive, pending, failed, tsv, head>>
          /\ tsv["incoming"][g] = "none" /\ g \notin pending["incoming"] /\ head[g] = 0
      BY <2>1, PipelineAssumption
         DEF Arrive, tsvFiles, database, Inductive, FreshInv, Reached, FilesInv
    <3>2. \A f \in Files \ {g} : StageOf(f)' = StageOf(f)
      BY <3>1 DEF StageOf
    <3>3. Advances(g)
      BY <3>1 DEF Advances, StageOf
    <3> QED BY <3>2, <3>3, OneFile
  <2>2. CASE UNCHANGED vars
    BY <2>2 DEF vars, disk, cdnsFiles, tsvFiles, database, StageOf
  <2> QED BY <2>1, <2>2, ImporterAdvances, WorkerAdvances DEF Next
<1> QED BY <1>1, InitialStages, Invariance, PTL
        DEF Spec, ImplementsLifecycle, Lifecycle!Spec
=============================================================================
