---------------------------- MODULE RecoveryProofs ----------------------------
(***************************************************************************)
(* What holds of the pipeline whatever fails and whatever commands the     *)
(* operator runs: for any files, workers, retries, and any number of       *)
(* faults and commands.  Then what holds when the operator runs one        *)
(* command and nothing fails.                                              *)
(***************************************************************************)
EXTENDS RecoveryInvariant, PipelineProofs, FiniteSetTheorems

AllSources == {"cbor", "pcap", "error", "regen-error-tsv", "pending"}

LEMMA TargetJobs ==
    ASSUME NEW q \in Queues, NEW d \in PendingDirs, NEW S \in SUBSET Files
    PROVE  Targets(q, d, S) \subseteq Jobs
  BY JobFacts DEF Targets

USE DEF PendingDirs, TsvDirs, ConvertQueues, Queues, Contents

\* Whatever a command lists are jobs, and it has at most five loops.
LEMMA ListingJobs ==
    ASSUME TypeOK, NEW s \in AllSources
    PROVE  /\ Len(Listings(s)) \in 1..5
           /\ \A n \in 1..Len(Listings(s)) : Listings(s)[n] \subseteq Jobs
<1>1. /\ archive \subseteq Files
      /\ \A d \in TsvDirs : TsvIn(d) \subseteq Files
      /\ \A q \in ConvertQueues : failed[q] \subseteq Files
      /\ \A d \in PendingDirs : pending[d] \subseteq Files
  BY DEF TypeOK, TsvIn
<1>2. CASE s = "cbor"
  <2>1. Listings(s) = <<Targets("cdns-to-tsv", "cbor", archive \cap ImportFiles)>>
    BY <1>2 DEF Listings
  <2>2. Targets("cdns-to-tsv", "cbor", archive \cap ImportFiles) \subseteq Jobs
    BY <1>1, TargetJobs
  <2> QED BY <2>1, <2>2
<1>3. CASE s = "pcap"
  <2>1. Listings(s) = <<Targets("cdns-to-pcap", "pcap", archive \cap PcapOnRequest)>>
    BY <1>3 DEF Listings
  <2>2. Targets("cdns-to-pcap", "pcap", archive \cap PcapOnRequest) \subseteq Jobs
    BY <1>1, TargetJobs
  <2> QED BY <2>1, <2>2
<1>4. CASE s = "error"
  <2> DEFINE A == Targets("cdns-to-tsv", "incoming", failed["cdns-to-tsv"])
             B == Targets("cdns-to-pcap", "incoming", failed["cdns-to-pcap"])
             C == Targets("import-tsv", "incoming", TsvIn("error"))
  <2>1. Listings(s) = <<A, B, C>>
    BY <1>4 DEF Listings
  <2>2. A \subseteq Jobs /\ B \subseteq Jobs /\ C \subseteq Jobs
    BY <1>1, TargetJobs
  <2> HIDE DEF A, B, C
  <2> QED BY <2>1, <2>2
<1>5. CASE s = "regen-error-tsv"
  <2>1. Listings(s) = <<Targets("cdns-to-tsv", "incoming", TsvIn("error"))>>
    BY <1>5 DEF Listings
  <2>2. Targets("cdns-to-tsv", "incoming", TsvIn("error")) \subseteq Jobs
    BY <1>1, TargetJobs
  <2> QED BY <2>1, <2>2
<1>6. CASE s = "pending"
  <2> DEFINE A == Targets("cdns-to-tsv", "incoming", pending["incoming"])
             B == Targets("cdns-to-tsv", "cbor", pending["cbor"])
             C == Targets("import-tsv", "incoming", TsvIn("incoming"))
             D == Targets("import-tsv", "cbor", TsvIn("cbor"))
             E == Targets("cdns-to-pcap", "pcap", pending["pcap"])
  <2>1. Listings(s) = <<A, B, C, D, E>>
    BY <1>6 DEF Listings
  <2>2. A \subseteq Jobs /\ B \subseteq Jobs /\ C \subseteq Jobs /\ D \subseteq Jobs
        /\ E \subseteq Jobs
    BY <1>1, TargetJobs
  <2> HIDE DEF A, B, C, D, E
  <2> QED BY <2>1, <2>2
<1> QED
  BY <1>2, <1>3, <1>4, <1>5, <1>6 DEF AllSources

\* The types of the variables that Recovery adds to the pipeline.  A command that runs
\* has a source.
OperatorType ==
    /\ oppc \in {"idle", "next", "add", "unlink"}
    /\ source \in Sources \cup {"pending", "none"} /\ loop \in 0..5
    /\ listing \subseteq Jobs
    /\ target \in Jobs \cup {NoJob} /\ (target # NoJob <=> oppc \in {"add", "unlink"})
    /\ commands \subseteq Sources
    /\ oppc # "idle" => source \in AllSources

BondType ==
    /\ bond \in [Workers -> {"ok", "cut", "dead"}]
    /\ \A w \in Workers : bond[w] # "ok" => wjob[w] # NoJob

SeenType == seen \subseteq {w \in Workers : Removes(w) /\ bond[w] # "dead"}

FaultType == faults \in 0..MaxFaults /\ reload \in BOOLEAN

RecoveryInv == TypeOK /\ OperatorType /\ BondType /\ SeenType /\ FaultType

LEMMA InitRecovery == RecoveryInit => RecoveryInv
<1> SUFFICES ASSUME RecoveryInit PROVE RecoveryInv
  OBVIOUS
<1>1. TypeOK
  BY InitType DEF RecoveryInit
<1>2. OperatorType
  BY DEF RecoveryInit, OperatorType
<1>3. FaultType
  <2>1. faults = 0 /\ reload = FALSE
    BY DEF RecoveryInit
  <2>2. MaxFaults \in Nat
    BY RecoveryAssumption
  <2>3. faults \in 0..MaxFaults
    BY <2>1, <2>2
  <2> QED
    BY <2>1, <2>3 DEF FaultType
<1>4. BondType /\ SeenType
  BY DEF RecoveryInit, BondType, SeenType
<1> QED
  BY <1>1, <1>2, <1>3, <1>4 DEF RecoveryInv

\* A step of w, or of nobody: the other workers go on to what they have found.
LEMMA OthersSeen ==
    ASSUME TypeOK, BondType, SeenType, NEW w, seen' \subseteq seen \ {w},
           \A v \in Workers \ {w} :
                wpc'[v] = wpc[v] /\ wjob'[v] = wjob[v] /\ (bond'[v] = "dead" <=> bond[v] = "dead")
    PROVE  SeenType'
  BY DEF SeenType, Removes

LEMMA SameSeen ==
    ASSUME SeenType, UNCHANGED <<worker, bond, seen>>
    PROVE  SeenType'
  BY DEF SeenType, Removes, worker

\* Whatever leaves the variables of the pipeline alone leaves their types.
LEMMA TypeUnchanged ==
    ASSUME TypeOK, UNCHANGED vars
    PROVE  TypeOK'
  BY DEF TypeOK, vars, disk, cdnsFiles, tsvFiles, database, importer, worker

\* Nor does writing a TSV change theirs.
LEMMA TsvWrite ==
    ASSUME tsv \in [TsvDirs -> [Files -> Contents]],
           NEW d \in TsvDirs, NEW f \in Files, NEW c \in Contents
    PROVE  [tsv EXCEPT ![d][f] = c] \in [TsvDirs -> [Files -> Contents]]
  OBVIOUS

LEMMA RunType ==
    ASSUME TypeOK, OperatorType, NEW s \in Sources \cup {"pending"}, Run(s),
           commands' \subseteq Sources
    PROVE  OperatorType'
<1>1. s \in AllSources
  BY RecoveryAssumption DEF AllSources
<1>2. Listings(s)[1] \subseteq Jobs
  BY <1>1, ListingJobs
<1>3. /\ oppc = "idle" /\ oppc' = "next" /\ source' = s /\ loop' = 1
      /\ listing' = Listings(s)[1] /\ target' = target
  BY DEF Run
<1> QED
  BY <1>1, <1>2, <1>3 DEF OperatorType

LEMMA NextLoopType ==
    ASSUME TypeOK, OperatorType, NextLoop
    PROVE  OperatorType'
<1>1. commands' = commands
  BY DEF NextLoop
<1>2. CASE loop < Len(Listings(source))
  <2>1. source \in AllSources
    BY DEF NextLoop, OperatorType
  <2>2. loop + 1 \in 1..Len(Listings(source)) /\ loop + 1 \in 0..5
    <3>1. PICK n \in 1..5 : n = Len(Listings(source))
      BY <2>1, ListingJobs
    <3>2. loop \in 0..5 /\ loop < n
      BY <1>2, <3>1 DEF OperatorType
    <3>3. loop + 1 \in 1..n /\ loop + 1 \in 0..5
      BY <3>2
    <3> QED
      BY <3>1, <3>3
  <2>3. Listings(source)[loop + 1] \subseteq Jobs
    BY <2>1, <2>2, ListingJobs
  <2>4. /\ loop' = loop + 1 /\ listing' = Listings(source)[loop + 1]
        /\ UNCHANGED <<oppc, source, target>>
    BY <1>2 DEF NextLoop
  <2> QED
    BY <1>1, <2>2, <2>3, <2>4 DEF OperatorType
<1>3. CASE ~(loop < Len(Listings(source)))
  <2>1. StopCommand
    BY <1>3 DEF NextLoop
  <2> QED
    BY <1>1, <2>1 DEF StopCommand, OperatorType
<1> QED
  BY <1>2, <1>3

\* A step of the operator's command leaves the variables their types.
LEMMA OperatorKeepsType ==
    ASSUME RecoveryInv, OperatorNext
    PROVE  RecoveryInv'
<1>0. TypeOK /\ OperatorType /\ BondType /\ SeenType /\ FaultType
  BY DEF RecoveryInv
<1>1. UNCHANGED <<bond, seen, faults, worker>> /\ reload' \in BOOLEAN
  BY <1>0 DEF OperatorNext, RunCommand, Reload, Run, NextLoop, TakePending, LinkCdns, LinkTsv,
     LinkFails, RegenPending, RegenAborts, AddTarget, UnlinkError, Yield, vars, FaultType
<1>2. BondType' /\ SeenType' /\ FaultType'
  BY <1>0, <1>1, SameSeen DEF BondType, FaultType, worker
<1>3. CASE RunCommand
  <2>1. PICK s \in Sources : Run(s) /\ commands' = commands \cup {s}
    BY <1>3 DEF RunCommand
  <2>2. OperatorType'
    BY <1>0, <2>1, RunType DEF OperatorType
  <2> QED
    BY <1>0, <1>2, <2>1, <2>2, TypeUnchanged DEF RecoveryInv, Run
<1>4. CASE Reload
  <2>1. OperatorType'
    BY <1>0, <1>4, RunType DEF Reload, OperatorType
  <2> QED
    BY <1>0, <1>2, <1>4, <2>1, TypeUnchanged DEF RecoveryInv, Reload, Run
<1>5. CASE NextLoop
  <2>1. OperatorType' /\ UNCHANGED vars
    BY <1>0, <1>5, NextLoopType DEF NextLoop
  <2> QED
    BY <1>0, <1>2, <2>1, TypeUnchanged DEF RecoveryInv
<1>6. CASE TakePending
  <2>1. OperatorType' /\ UNCHANGED vars
    BY <1>0, <1>6, JobFacts DEF TakePending, Yield, Chosen, OperatorType
  <2> QED
    BY <1>0, <1>2, <2>1, TypeUnchanged DEF RecoveryInv
<1>7. CASE LinkCdns
  <2>1. PICK j \in listing :
            /\ Yield(j) /\ Chosen(j)
            /\ pending' = [pending EXCEPT ![j.dir] = @ \cup {j.file}]
            /\ UNCHANGED <<incoming, archive, failed, pcaps, tsvFiles, queue, database,
                           importer, worker>>
    BY <1>7 DEF LinkCdns
  <2>2. j \in Jobs
    BY <1>0 DEF OperatorType
  <2>3. OperatorType'
    BY <1>0, <2>1, <2>2, JobFacts DEF Yield, Chosen, OperatorType
  <2>4. pending' \in [PendingDirs -> SUBSET Files]
    BY <1>0, <2>1, <2>2, JobFacts DEF TypeOK
  <2>5. TypeOK'
    BY <1>0, <2>1, <2>4 DEF TypeOK, tsvFiles, database, importer, worker
  <2> QED
    BY <1>2, <2>3, <2>5 DEF RecoveryInv
<1>8. CASE LinkTsv
  <2>1. PICK j \in listing :
            /\ Yield(j) /\ Chosen(j)
            /\ tsv' = [tsv EXCEPT ![j.dir][j.file] = tsv["error"][j.file]]
            /\ UNCHANGED <<cdnsFiles, sidecar, queue, database, importer, worker>>
    BY <1>8 DEF LinkTsv
  <2>2. j \in Jobs /\ j.dir \in TsvDirs /\ j.file \in Files
    BY <1>0, JobFacts DEF OperatorType
  <2>3. OperatorType'
    BY <1>0, <2>1, <2>2, JobFacts DEF Yield, Chosen, OperatorType
  <2>4. tsv["error"][j.file] \in Contents
    BY <1>0, <2>2 DEF TypeOK
  <2>5. tsv' \in [TsvDirs -> [Files -> Contents]]
    BY <1>0, <2>1, <2>2, <2>4, TsvWrite DEF TypeOK
  <2>6. TypeOK'
    BY <1>0, <2>1, <2>5 DEF TypeOK, cdnsFiles, database, importer, worker
  <2> QED
    BY <1>2, <2>3, <2>6 DEF RecoveryInv
<1>9. CASE LinkFails
  <2>1. OperatorType' /\ UNCHANGED vars
    BY <1>0, <1>9 DEF LinkFails, Yield, OperatorType
  <2> QED
    BY <1>0, <1>2, <2>1, TypeUnchanged DEF RecoveryInv
<1>10. CASE RegenPending
  <2>1. PICK j \in listing :
            /\ Yield(j) /\ UNCHANGED <<oppc, target>>
            /\ tsv' = [tsv EXCEPT !["error"][j.file] = "none"]
            /\ UNCHANGED <<cdnsFiles, sidecar, queue, database, importer, worker>>
    BY <1>10 DEF RegenPending
  <2>2. j.file \in Files
    BY <1>0, JobFacts DEF OperatorType
  <2>3. OperatorType'
    BY <1>0, <2>1 DEF Yield, OperatorType
  <2>4. tsv' \in [TsvDirs -> [Files -> Contents]]
    BY <1>0, <2>1, <2>2, TsvWrite DEF TypeOK
  <2>5. TypeOK'
    BY <1>0, <2>1, <2>4 DEF TypeOK, cdnsFiles, database, importer, worker
  <2> QED
    BY <1>2, <2>3, <2>5 DEF RecoveryInv
<1>11. CASE RegenAborts
  <2>1. OperatorType' /\ UNCHANGED vars
    BY <1>0, <1>11 DEF RegenAborts, StopCommand, OperatorType
  <2> QED
    BY <1>0, <1>2, <2>1, TypeUnchanged DEF RecoveryInv
<1>12. CASE AddTarget
  <2>1. target \in Jobs /\ target # NoJob
    BY <1>0, <1>12, JobFacts DEF AddTarget, OperatorType
  <2>2. queue' \in [Jobs -> Nat]
    BY <1>0, <1>12, <2>1, AddType DEF AddTarget, TypeOK
  <2>3. TypeOK'
    BY <1>0, <1>12, <2>2
       DEF AddTarget, TypeOK, disk, cdnsFiles, tsvFiles, database, importer, worker
  <2>4. OperatorType'
    BY <1>0, <1>12, <2>1 DEF AddTarget, OperatorType
  <2> QED
    BY <1>2, <2>3, <2>4 DEF RecoveryInv
<1>13. CASE UnlinkError
  <2>1. target \in Jobs /\ target.file \in Files
    BY <1>0, <1>13, JobFacts DEF UnlinkError, OperatorType
  <2>2. /\ tsv' \in [TsvDirs -> [Files -> Contents]]
        /\ failed' \in [ConvertQueues -> SUBSET Files]
    <3>1. CASE source = "error" /\ target.queue \in ConvertQueues
      BY <1>0, <1>13, <3>1 DEF UnlinkError, TypeOK
    <3>2. CASE ~(source = "error" /\ target.queue \in ConvertQueues)
      <4>1. tsv' = [tsv EXCEPT !["error"][target.file] = "none"] /\ failed' = failed
        BY <1>13, <3>2 DEF UnlinkError
      <4> QED
        BY <1>0, <2>1, <4>1, TsvWrite DEF TypeOK
    <3> QED
      BY <3>1, <3>2
  <2>3. TypeOK'
    BY <1>0, <1>13, <2>2 DEF UnlinkError, TypeOK, database, importer, worker
  <2>4. OperatorType'
    BY <1>0, <1>13 DEF UnlinkError, OperatorType
  <2> QED
    BY <1>2, <2>3, <2>4 DEF RecoveryInv
<1> QED
  BY <1>3, <1>4, <1>5, <1>6, <1>7, <1>8, <1>9, <1>10, <1>11, <1>12, <1>13 DEF OperatorNext

-----------------------------------------------------------------------------
(* Workers                                                                 *)

\* A worker's step changes no other worker's place or job, and its own job only when it
\* becomes idle.
LEMMA StepJobs ==
    ASSUME TypeOK, NEW w \in Workers,
           ScriptNext(w) \/ Unlink(w) \/ MoveToError(w) \/ RenameNothing(w)
             \/ Answer(w) \/ FailTransient(w) \/ Resubmit(w)
    PROVE  /\ \A v \in Workers \ {w} : wpc'[v] = wpc[v] /\ wjob'[v] = wjob[v]
           /\ wjob'[w] # wjob[w] => wpc'[w] = "idle"
           /\ UNCHANGED importer
<1>1. CASE ScriptNext(w)
  BY <1>1 DEF ScriptNext, FindNode, BeginConvert, EndConvert, SubmitTsv, ConvertError,
     ConvertPcap, TestTsv, AlreadyPresent, NotPresent, QueryFails, Insert, InsertFails,
     NoCounts, InsertCounts, InsertCountsFails, Goto, TypeOK
<1>2. CASE Unlink(w) \/ MoveToError(w) \/ RenameNothing(w) \/ FailTransient(w)
  BY <1>2 DEF Unlink, MoveToError, RenameNothing, FailTransient, Goto, TypeOK
<1>3. CASE Answer(w) \/ Resubmit(w)
  BY <1>3 DEF Answer, Resubmit, Goto, TypeOK
<1> QED
  BY <1>1, <1>2, <1>3

LEMMA RenameNothingType ==
    ASSUME TypeOK, NEW w \in Workers, RenameNothing(w)
    PROVE  TypeOK'
  BY DEF RenameNothing, Goto, TypeOK, WorkerSteps, disk, cdnsFiles, tsvFiles, database,
         importer

LEMMA WorkerStepType ==
    ASSUME TypeOK, NEW w \in Workers,
           Take(w) \/ InfraExit(w) \/ ScriptNext(w) \/ LiveExit(w)
    PROVE  TypeOK'
  BY WorkerType, RenameNothingType DEF WorkerNext, ExitNext, LiveExit, Removal

\* A job that goes when a worker quits or its script ends without it.
LEMMA DropType ==
    ASSUME TypeOK, NEW w \in Workers, NEW step \in {"idle", "stopped"}, Goto(w, step),
           wjob' = [wjob EXCEPT ![w] = NoJob], UNCHANGED <<disk, queue, database, importer>>
    PROVE  TypeOK'
  BY JobFacts DEF Goto, TypeOK, WorkerSteps, disk, cdnsFiles, tsvFiles, database, importer

LEMMA BondNextType ==
    ASSUME TypeOK, BondType, SeenType, NEW w \in Workers, BondNext(w)
    PROVE  TypeOK' /\ BondType' /\ SeenType'
<1>1. CASE Look(w)
  <2>1. UNCHANGED <<vars, worker, wpc, wjob, bond>> /\ seen' = seen \cup {w}
    BY <1>1 DEF BondNext, Look, Removes, ScriptNext, LiveExit, vars, worker
  <2>2. Removes(w) /\ bond[w] # "dead"
    BY <1>1 DEF Look, BondNext
  <2> QED
    BY <1>1, <2>1, <2>2, TypeUnchanged DEF BondType, SeenType, Removes
<1> SUFFICES ASSUME ~Look(w) PROVE TypeOK' /\ BondType' /\ SeenType'
  BY <1>1
<1>2. TypeOK'
  BY WorkerStepType DEF BondNext
<1>3. CASE bond[w] = "ok"
  <2>1. \A v \in Workers \ {w} : wpc'[v] = wpc[v] /\ wjob'[v] = wjob[v]
    BY <1>3, StepJobs DEF BondNext, LiveExit, Removal, Take, InfraExit, Goto, TypeOK
  <2>2. bond' = bond /\ seen' = seen \ {w}
    BY <1>3 DEF BondNext
  <2> QED
    BY <1>2, <1>3, <2>1, <2>2, OthersSeen DEF BondType
<1>4. CASE bond[w] = "cut"
  <2>1. /\ \A v \in Workers \ {w} : wpc'[v] = wpc[v] /\ wjob'[v] = wjob[v]
        /\ wjob'[w] # wjob[w] => wpc'[w] = "idle"
    BY <1>4, StepJobs DEF BondNext, LiveExit, Removal
  <2>2. /\ bond' = IF wpc'[w] = "idle" THEN [bond EXCEPT ![w] = "ok"] ELSE bond
        /\ seen' = seen \ {w}
    BY <1>4 DEF BondNext
  <2>3. bond' \in [Workers -> {"ok", "cut", "dead"}]
    BY <2>2 DEF BondType
  <2>4. \A v \in Workers : bond'[v] # "ok" => bond[v] # "ok" /\ wjob'[v] = wjob[v]
    BY <2>1, <2>2 DEF BondType
  <2>5. \A v \in Workers \ {w} : bond'[v] = bond[v]
    BY <2>2 DEF BondType
  <2>6. SeenType'
    BY <2>1, <2>2, <2>5, OthersSeen
  <2> QED
    BY <1>2, <2>3, <2>4, <2>6 DEF BondType
<1>5. CASE bond[w] = "dead"
  <2>1. ScriptNext(w) /\ bond' = bond /\ seen' = seen
    BY <1>5 DEF BondNext
  <2>2. wpc'[w] # "idle"
    BY <2>1 DEF ScriptNext, FindNode, BeginConvert, EndConvert, SubmitTsv, ConvertError,
       ConvertPcap, TestTsv, AlreadyPresent, NotPresent, QueryFails, Insert, InsertFails,
       NoCounts, InsertCounts, InsertCountsFails, Goto, TypeOK
  <2>3. /\ \A v \in Workers : wjob'[v] = wjob[v]
        /\ \A v \in Workers \ {w} : wpc'[v] = wpc[v]
    BY <2>1, <2>2, StepJobs
  <2>4. \A v \in Workers : bond'[v] # "ok" => wjob'[v] # NoJob
    BY <2>1, <2>3 DEF BondType
  <2>5. w \notin seen
    BY <1>5 DEF SeenType
  <2>6. SeenType'
    BY <2>1, <2>3, <2>5, OthersSeen
  <2> QED
    BY <1>2, <2>1, <2>4, <2>6 DEF BondType
<1> QED
  BY <1>3, <1>4, <1>5 DEF BondNext

LEMMA QuitsType ==
    ASSUME TypeOK, BondType, SeenType, NEW w \in Workers, Quits(w), wjob[w] # NoJob
    PROVE  TypeOK' /\ BondType' /\ SeenType'
<1>1. queue' \in [Jobs -> Nat] /\ wjob[w] \in Jobs
  BY AddType DEF Quits, TypeOK
<1>2. TypeOK'
  BY <1>1, JobFacts DEF Quits, Goto, TypeOK, WorkerSteps, disk, cdnsFiles, tsvFiles, database,
     importer
<1>3. /\ \A v \in Workers \ {w} : wpc'[v] = wpc[v] /\ wjob'[v] = wjob[v] /\ bond'[v] = bond[v]
      /\ bond' \in [Workers -> {"ok", "cut", "dead"}] /\ bond'[w] = "ok"
      /\ seen' = seen \ {w}
  BY DEF Quits, Goto, TypeOK, BondType
<1>4. SeenType'
  BY <1>3, OthersSeen
<1> QED
  BY <1>2, <1>3, <1>4 DEF BondType

LEMMA WorkersKeepType ==
    ASSUME RecoveryInv, WorkersNext
    PROVE  RecoveryInv'
<1>0. TypeOK /\ OperatorType /\ BondType /\ SeenType /\ FaultType
  BY DEF RecoveryInv
<1>1. OperatorType' /\ FaultType'
  BY <1>0 DEF WorkersNext, operator, OperatorType, FaultType
<1>2. ASSUME NEW w \in Workers, BondNext(w) PROVE TypeOK' /\ BondType' /\ SeenType'
  BY <1>0, <1>2, BondNextType
<1>3. ASSUME NEW w \in Workers, CutExit(w) \/ Vanished(w)
      PROVE  TypeOK' /\ BondType' /\ SeenType'
  <2>1. Quits(w) /\ wjob[w] # NoJob
    <3>1. CASE CutExit(w)
      BY <1>0, <3>1 DEF CutExit, BondType
    <3>2. CASE Vanished(w)
      <4>1. Quits(w) /\ wpc[w] \in {"exit0", "exit1", "exit2"}
        BY <1>0, <3>2 DEF Vanished, SeenType, Removes
      <4> QED BY <1>0, <4>1, Working, JobFacts
    <3> QED BY <1>3, <3>1, <3>2
  <2> QED
    BY <1>0, <2>1, QuitsType
<1>4. ASSUME NEW w \in Workers, OrphanEnds(w) PROVE TypeOK' /\ BondType' /\ SeenType'
  <2>1. TypeOK'
    BY <1>0, <1>4, DropType DEF OrphanEnds
  <2>2. BondType'
    BY <1>0, <1>4 DEF OrphanEnds, BondType, TypeOK
  <2>3. /\ w \notin seen /\ seen' = seen
        /\ \A v \in Workers \ {w} :
                wpc'[v] = wpc[v] /\ wjob'[v] = wjob[v] /\ bond'[v] = bond[v]
    BY <1>0, <1>4 DEF OrphanEnds, Goto, SeenType, TypeOK, BondType
  <2>4. SeenType'
    BY <1>0, <2>3, OthersSeen
  <2> QED
    BY <2>1, <2>2, <2>4
<1> QED
  BY <1>1, <1>2, <1>3, <1>4 DEF WorkersNext, LoopNext, RecoveryInv

-----------------------------------------------------------------------------
(* Faults, and what happens beside them                                    *)

LEMMA EmptyQueue ==
    queue' = [j \in Jobs |-> 0] => queue' \in [Jobs -> Nat]
  OBVIOUS

LEMMA FaultsKeepType ==
    ASSUME RecoveryInv, FaultNext
    PROVE  RecoveryInv'
<1>0. TypeOK /\ OperatorType /\ BondType /\ SeenType /\ FaultType
  BY DEF RecoveryInv
<1>1. FaultType'
  <2>1. faults < MaxFaults /\ faults' = faults + 1 /\ reload' \in BOOLEAN
    BY <1>0 DEF FaultNext, GearmanRestarts, HostCrashes, WorkerDies, ImportDies,
       SubmitUnanswered, Fault, FaultType
  <2>2. faults' \in 0..MaxFaults
    BY <1>0, <2>1, RecoveryAssumption DEF FaultType
  <2> QED
    BY <2>1, <2>2 DEF FaultType
<1>2. CASE GearmanRestarts
  <2>1. TypeOK'
    BY <1>0, <1>2, EmptyQueue DEF GearmanRestarts, TypeOK, disk, cdnsFiles, tsvFiles, database,
       importer, worker
  <2>2. OperatorType'
    BY <1>0, <1>2 DEF GearmanRestarts, operator, OperatorType
  <2>3. BondType'
    BY <1>0, <1>2 DEF GearmanRestarts, worker, BondType
  <2>4. SeenType'
    BY <1>0, <1>2 DEF GearmanRestarts, worker, BondType, SeenType, Removes
  <2> QED
    BY <1>1, <2>1, <2>2, <2>3, <2>4 DEF RecoveryInv
<1>3. CASE HostCrashes
  <2>1. TypeOK'
    BY <1>0, <1>3, EmptyQueue DEF HostCrashes, TypeOK, ImporterSteps, WorkerSteps, disk,
       cdnsFiles, tsvFiles, database
  <2>2. OperatorType'
    BY <1>0, <1>3 DEF HostCrashes, StopCommand, OperatorType
  <2>3. BondType' /\ SeenType'
    BY <1>0, <1>3 DEF HostCrashes, BondType, SeenType
  <2> QED
    BY <1>1, <2>1, <2>2, <2>3 DEF RecoveryInv
<1>4. ASSUME NEW w \in Workers, WorkerDies(w) PROVE RecoveryInv'
  <2>1. wjob[w] \in Jobs
    BY <1>0, <1>4 DEF WorkerDies, TypeOK
  <2>2. queue' \in [Jobs -> Nat]
    BY <1>0, <1>4, <2>1, AddType DEF WorkerDies, TypeOK
  <2>3. CASE wpc[w] \in ScriptSteps
    <3>1. bond' = [bond EXCEPT ![w] = "dead"] /\ UNCHANGED worker
      BY <1>4, <2>3 DEF WorkerDies
    <3>2. TypeOK'
      BY <1>0, <1>4, <2>2, <3>1 DEF WorkerDies, TypeOK, disk, cdnsFiles, tsvFiles, database,
         importer, worker
    <3>3. BondType'
      BY <1>0, <1>4, <3>1 DEF WorkerDies, worker, BondType
    <3>4. SeenType'
      BY <1>0, <1>4, <3>1, OthersSeen DEF WorkerDies, worker, BondType
    <3> QED
      BY <1>0, <1>1, <1>4, <3>2, <3>3, <3>4 DEF WorkerDies, operator, OperatorType, RecoveryInv
  <2>4. CASE wpc[w] \notin ScriptSteps
    <3>1. /\ bond' = [bond EXCEPT ![w] = "ok"]
          /\ Goto(w, "idle")
          /\ wjob' = [wjob EXCEPT ![w] = NoJob]
      BY <1>4, <2>4 DEF WorkerDies
    <3>2. TypeOK'
      BY <1>0, <1>4, <2>2, <3>1, JobFacts DEF WorkerDies, Goto, TypeOK, WorkerSteps, disk,
         cdnsFiles, tsvFiles, database, importer
    <3>3. BondType'
      BY <1>0, <3>1 DEF BondType, TypeOK
    <3>4. SeenType'
      <4>1. \A v \in Workers \ {w} : wpc'[v] = wpc[v] /\ wjob'[v] = wjob[v] /\ bond'[v] = bond[v]
        BY <1>0, <3>1 DEF BondType, TypeOK, Goto
      <4> QED BY <1>0, <1>4, <4>1, OthersSeen DEF WorkerDies
    <3> QED
      BY <1>0, <1>1, <1>4, <3>2, <3>3, <3>4 DEF WorkerDies, operator, OperatorType, RecoveryInv
  <2> QED
    BY <2>3, <2>4
<1>5. ASSUME NEW i \in Importers, ImportDies(i) PROVE RecoveryInv'
  <2>1. TypeOK'
    BY <1>0, <1>5 DEF ImportDies, TypeOK, ImporterSteps, disk, cdnsFiles, tsvFiles, database,
       worker
  <2>2. OperatorType' /\ BondType' /\ SeenType'
    BY <1>0, <1>5, SameSeen DEF ImportDies, operator, worker, OperatorType, BondType
  <2> QED
    BY <1>1, <2>1, <2>2 DEF RecoveryInv
<1>6. ASSUME NEW w \in Workers, SubmitUnanswered(w) PROVE RecoveryInv'
  <2>1. wpc[w] = "submit" /\ wjob[w] \in Jobs /\ wjob[w].queue = "cdns-to-tsv"
    BY <1>0, <1>6, Working DEF SubmitUnanswered, At
  <2>2. NewJob("import-tsv", wjob[w].dir, wjob[w].file) \in Jobs
    BY <2>1, JobFacts
  <2>3. queue' \in [Jobs -> Nat]
    BY <1>0, <1>6, <2>2, AddType DEF SubmitUnanswered, TypeOK
  <2>4. /\ tsv' \in [TsvDirs -> [Files -> Contents]]
        /\ sidecar' \in [PendingDirs -> SUBSET Files]
    BY <1>0, <1>6, <2>1, JobFacts DEF SubmitUnanswered, RemoveTsv, TypeOK
  <2>5. TypeOK'
    BY <1>0, <1>6, <2>1, <2>3, <2>4, JobFacts DEF SubmitUnanswered, Goto, TypeOK, WorkerSteps,
       cdnsFiles, database, importer
  <2>6. OperatorType' /\ BondType'
    BY <1>0, <1>6 DEF SubmitUnanswered, operator, OperatorType, BondType
  <2>7. SeenType'
    <3>1. w \notin seen
      BY <1>0, <2>1 DEF SeenType, Removes
    <3>2. \A v \in Workers \ {w} : wpc'[v] = wpc[v] /\ wjob'[v] = wjob[v] /\ bond'[v] = bond[v]
      BY <1>0, <1>6 DEF SubmitUnanswered, Goto, TypeOK
    <3> QED BY <1>0, <1>6, <3>1, <3>2, OthersSeen DEF SubmitUnanswered
  <2> QED
    BY <1>1, <2>5, <2>6, <2>7 DEF RecoveryInv
<1> QED
  BY <1>2, <1>3, <1>4, <1>5, <1>6 DEF FaultNext

LEMMA NextRecovery == RecoveryInv /\ [RecoveryNext]_rvars => RecoveryInv'
<1> SUFFICES ASSUME RecoveryInv, [RecoveryNext]_rvars PROVE RecoveryInv'
  OBVIOUS
<1>0. TypeOK /\ OperatorType /\ BondType /\ SeenType /\ FaultType
  BY DEF RecoveryInv
<1>1. CASE /\ (\E f \in Files : Arrive(f)) \/ (\E i \in Importers : ImporterNext(i))
           /\ UNCHANGED <<operator, bond, seen, faults, reload>>
  <2>1. wjob' = wjob /\ UNCHANGED worker
    BY <1>1 DEF Arrive, ImporterNext, List, LinkIncoming, AddCdnsToTsv, LinkPcap,
       AddCdnsToPcap, Rename, Finish, worker
  <2>2. OperatorType' /\ BondType' /\ SeenType' /\ FaultType'
    BY <1>0, <1>1, <2>1, SameSeen DEF operator, OperatorType, BondType, FaultType
  <2>3. TypeOK'
    BY <1>0, <1>1, NextType DEF Next
  <2> QED
    BY <2>2, <2>3 DEF RecoveryInv
<1>2. CASE UNCHANGED rvars
  <2>1. TypeOK'
    BY <1>0, <1>2, TypeUnchanged DEF rvars
  <2>2. OperatorType' /\ BondType' /\ SeenType' /\ FaultType'
    BY <1>0, <1>2, SameSeen DEF rvars, vars, worker, operator, OperatorType, BondType, FaultType
  <2> QED
    BY <2>1, <2>2 DEF RecoveryInv
<1> QED
  BY <1>1, <1>2, WorkersKeepType, OperatorKeepsType, FaultsKeepType DEF RecoveryNext

\* Whatever fails and whatever is run, each variable has its type: a worker or the script
\* it left behind has a job, a command of the operator has one while it submits it, and only
\* a worker whose script has ended so looks for its file to remove or move it.
THEOREM RecoveryTypes == RecoverySpec => []RecoveryTypeOK
<1>1. RecoveryInv => RecoveryTypeOK
  BY DEF RecoveryInv, OperatorType, BondType, SeenType, FaultType, RecoveryTypeOK
<1> QED
  BY <1>1, InitRecovery, NextRecovery, PTL DEF RecoverySpec

-----------------------------------------------------------------------------
(* Originals and duplicates                                                *)

\* Nothing but cron's dsv-import, which moves it to the archive, takes a file out of
\* incoming, and nothing takes one out of the archive: after any faults and commands, a
\* file that was received can be imported again.
THEOREM OriginalsStay == RecoverySpec => OriginalKept
<1>1. [RecoveryNext]_rvars => [incoming \cup archive \subseteq incoming' \cup archive']_rvars
  <2> SUFFICES ASSUME RecoveryNext PROVE incoming \cup archive \subseteq incoming' \cup archive'
    OBVIOUS
  <2>1. ASSUME NEW f \in Files, Arrive(f)
        PROVE  incoming \cup archive \subseteq incoming' \cup archive'
    BY <2>1 DEF Arrive
  <2>2. ASSUME NEW i \in Importers, ImporterNext(i)
        PROVE  incoming \cup archive \subseteq incoming' \cup archive'
    BY <2>2 DEF ImporterNext, List, LinkIncoming, AddCdnsToTsv, LinkPcap, AddCdnsToPcap,
       Rename, Finish, disk, cdnsFiles
  <2>3. CASE OperatorNext
    BY <2>3 DEF OperatorNext, RunCommand, Reload, Run, NextLoop, TakePending, LinkCdns,
       LinkTsv, LinkFails, RegenPending, RegenAborts, AddTarget, UnlinkError, vars, disk,
       cdnsFiles
  <2>4. ASSUME NEW w \in Workers, LoopNext(w)
        PROVE  UNCHANGED <<incoming, archive>>
    <3>1. CASE ScriptNext(w)
      BY <3>1 DEF ScriptNext, FindNode, BeginConvert, EndConvert, SubmitTsv, ConvertError,
         ConvertPcap, TestTsv, AlreadyPresent, NotPresent, QueryFails, Insert, InsertFails,
         NoCounts, InsertCounts, InsertCountsFails, disk, cdnsFiles
    <3>2. CASE LiveExit(w)
      BY <3>2 DEF LiveExit, Removal, Unlink, MoveToError, RenameNothing, Answer,
         FailTransient, Resubmit, disk, cdnsFiles
    <3>3. CASE Take(w) \/ InfraExit(w) \/ CutExit(w) \/ Vanished(w) \/ OrphanEnds(w) \/ Look(w)
      BY <3>3 DEF Take, InfraExit, CutExit, Vanished, Quits, OrphanEnds, Look, vars, disk,
         cdnsFiles
    <3> QED
      BY <2>4, <3>1, <3>2, <3>3 DEF LoopNext, BondNext
  <2>5. CASE FaultNext
    BY <2>5 DEF FaultNext, GearmanRestarts, HostCrashes, WorkerDies, ImportDies,
       SubmitUnanswered, disk, cdnsFiles
  <2> QED
    BY <2>1, <2>2, <2>3, <2>4, <2>5 DEF RecoveryNext, WorkersNext
<1> QED
  BY <1>1, PTL DEF RecoverySpec, OriginalKept

\* The workers whose script has found nothing of file f and is about to insert it.
Inserting(f) == {w \in Workers : wpc[w] = "insert" /\ wjob[w].file = f}

\* Each copy of the first record that is stored or may yet be is of another script, as
\* none of them begins to insert once there is a copy.
Bounded ==
    \A f \in Files :
        /\ tail[f] <= head[f]
        /\ head[f] + Cardinality(Inserting(f)) <= Cardinality(Workers)

LEMMA InsertingFinite ==
    ASSUME IsFiniteSet(Workers), NEW S \in SUBSET Workers, NEW T \in SUBSET S
    PROVE  /\ IsFiniteSet(S) /\ IsFiniteSet(T)
           /\ Cardinality(S) \in Nat /\ Cardinality(T) \in Nat
           /\ Cardinality(T) <= Cardinality(S)
<1>1. IsFiniteSet(S)
  BY FS_Subset
<1>2. IsFiniteSet(T) /\ Cardinality(T) <= Cardinality(S)
  BY <1>1, FS_Subset
<1> QED
  BY <1>1, <1>2, FS_CardinalityType

\* A step in which no script begins to insert and nothing is stored.
NoneBegin ==
    /\ UNCHANGED <<head, tail>>
    /\ \A w \in Workers : wpc'[w] = "insert" => wpc[w] = "insert" /\ wjob'[w] = wjob[w]

LEMMA NoneBeginBounded ==
    ASSUME TypeOK, Bounded, NoneBegin, IsFiniteSet(Workers)
    PROVE  Bounded'
<1> SUFFICES ASSUME NEW f \in Files
             PROVE  /\ tail'[f] <= head'[f]
                    /\ head'[f] + Cardinality(Inserting(f)') <= Cardinality(Workers)
  BY DEF Bounded
<1>1. Inserting(f) \in SUBSET Workers /\ Inserting(f)' \in SUBSET Inserting(f)
  BY DEF Inserting, NoneBegin
<1>2. /\ Cardinality(Inserting(f)) \in Nat /\ Cardinality(Inserting(f)') \in Nat
      /\ Cardinality(Inserting(f)') <= Cardinality(Inserting(f))
  BY <1>1, InsertingFinite
<1>3. head[f] \in Nat /\ head' = head /\ tail' = tail /\ Cardinality(Workers) \in Nat
  BY FS_CardinalityType DEF TypeOK, NoneBegin
<1>4. tail[f] <= head[f] /\ head[f] + Cardinality(Inserting(f)) <= Cardinality(Workers)
  BY DEF Bounded
<1> QED
  BY <1>2, <1>3, <1>4

\* A script asks for the file's first record and finds that it is not there.
LEMMA NotPresentBounded ==
    ASSUME TypeOK, Bounded, IsFiniteSet(Workers), NEW w \in Workers, NotPresent(w)
    PROVE  Bounded'
<1> DEFINE g == wjob[w].file
<1>1. /\ wpc[w] = "query" /\ head[g] = 0 /\ wpc' = [wpc EXCEPT ![w] = "insert"]
      /\ UNCHANGED <<head, tail, wjob>>
  BY DEF NotPresent, At, Goto, database
<1> SUFFICES ASSUME NEW f \in Files
             PROVE  /\ tail'[f] <= head'[f]
                    /\ head'[f] + Cardinality(Inserting(f)') <= Cardinality(Workers)
  BY DEF Bounded
<1>2. tail'[f] <= head'[f]
  BY <1>1 DEF Bounded
<1>3. CASE f = g
  <2>1. Inserting(f)' \in SUBSET Workers
    BY DEF Inserting
  <2>2. Cardinality(Inserting(f)') <= Cardinality(Workers) /\ Cardinality(Inserting(f)') \in Nat
    BY <2>1, InsertingFinite
  <2> QED
    BY <1>1, <1>2, <1>3, <2>2
<1>4. CASE f # g
  <2>1. Inserting(f)' = Inserting(f)
    BY <1>1, <1>4 DEF Inserting, TypeOK
  <2> QED
    BY <1>1, <1>2, <2>1 DEF Bounded
<1> QED
  BY <1>3, <1>4

\* A script inserts, with or without an answer, all of the file, its first block or nothing.
LEMMA InsertBounded ==
    ASSUME TypeOK, Bounded, IsFiniteSet(Workers), NEW w \in Workers,
           Insert(w) \/ InsertFails(w)
    PROVE  Bounded'
<1> DEFINE g == wjob[w].file
<1>1. /\ wpc[w] = "insert" /\ g \in Files /\ wjob' = wjob
      /\ wpc' = [wpc EXCEPT ![w] = IF Insert(w) THEN "counts" ELSE "exit2"]
  <2>1. wpc[w] = "insert" /\ wjob' = wjob
    BY DEF Insert, InsertFails, At
  <2>2. g \in Files
    BY <2>1, Working
  <2> QED
    BY <2>1, <2>2 DEF Insert, InsertFails, Goto
<1>2. \/ UNCHANGED <<head, tail>>
      \/ /\ head' = [head EXCEPT ![g] = @ + 1]
         /\ tail' = tail \/ tail' = [tail EXCEPT ![g] = @ + 1]
  BY DEF Insert, InsertFails, InsertRows, InsertHead
<1> SUFFICES ASSUME NEW f \in Files
             PROVE  /\ tail'[f] <= head'[f]
                    /\ head'[f] + Cardinality(Inserting(f)') <= Cardinality(Workers)
  BY DEF Bounded
<1>3. /\ tail[f] \in Nat /\ head[f] \in Nat /\ Cardinality(Workers) \in Nat
      /\ tail[f] <= head[f] /\ head[f] + Cardinality(Inserting(f)) <= Cardinality(Workers)
  BY FS_CardinalityType DEF TypeOK, Bounded
<1>4. tail'[f] <= head'[f]
  BY <1>2, <1>3 DEF TypeOK
<1>5. Inserting(f) \in SUBSET Workers /\ IsFiniteSet(Inserting(f))
  BY InsertingFinite DEF Inserting
<1>6. CASE f = g
  <2>1. Inserting(f)' = Inserting(f) \ {w} /\ w \in Inserting(f)
    BY <1>1, <1>6 DEF Inserting, TypeOK
  <2>2. Cardinality(Inserting(f)') = Cardinality(Inserting(f)) - 1
    BY <1>5, <2>1, FS_RemoveElement
  <2>3. head'[f] \in {head[f], head[f] + 1}
    BY <1>2, <1>6 DEF TypeOK
  <2>4. Cardinality(Inserting(f)) \in Nat
    BY <1>5, FS_CardinalityType
  <2> QED
    BY <1>3, <1>4, <2>2, <2>3, <2>4
<1>7. CASE f # g
  <2>1. Inserting(f)' = Inserting(f)
    BY <1>1, <1>7 DEF Inserting, TypeOK
  <2>2. head'[f] = head[f]
    BY <1>1, <1>2, <1>7 DEF TypeOK
  <2> QED
    BY <1>3, <1>4, <2>1, <2>2
<1> QED
  BY <1>6, <1>7

\* Every other step of a worker.
LEMMA OthersBegin ==
    ASSUME TypeOK, NEW w \in Workers,
           LoopNext(w),
           ~(NotPresent(w) \/ Insert(w) \/ InsertFails(w))
    PROVE  NoneBegin
<1>1. CASE ScriptNext(w)
  BY <1>1 DEF ScriptNext, FindNode, BeginConvert, EndConvert, SubmitTsv, ConvertError,
     ConvertPcap, TestTsv, AlreadyPresent, QueryFails, NoCounts, InsertCounts,
     InsertCountsFails, Goto, TypeOK, NoneBegin, database
<1>2. CASE LiveExit(w)
  BY <1>2 DEF LiveExit, Removal, Unlink, MoveToError, RenameNothing, Answer, FailTransient,
     Resubmit, Goto, TypeOK, NoneBegin, database
<1>3. CASE Take(w) \/ InfraExit(w) \/ CutExit(w) \/ Vanished(w) \/ OrphanEnds(w) \/ Look(w)
  BY <1>3 DEF Take, InfraExit, CutExit, Vanished, Quits, OrphanEnds, Look, Goto, TypeOK,
     NoneBegin, vars, database, worker
<1> QED
  BY <1>1, <1>2, <1>3 DEF LoopNext, BondNext

LEMMA NextBounded ==
    ASSUME TypeOK, Bounded, [RecoveryNext]_rvars, IsFiniteSet(Workers)
    PROVE  Bounded'
<1>1. ASSUME UNCHANGED <<worker, database>> PROVE Bounded'
  <2>1. NoneBegin
    BY <1>1 DEF worker, database, NoneBegin
  <2> QED
    BY <2>1, NoneBeginBounded
<1>2. ASSUME NEW w \in Workers, LoopNext(w) PROVE Bounded'
  BY <1>2, OthersBegin, NoneBeginBounded, NotPresentBounded, InsertBounded
<1>3. CASE FaultNext
  <2>1. NoneBegin
    BY <1>3 DEF FaultNext, GearmanRestarts, HostCrashes, WorkerDies, ImportDies,
       SubmitUnanswered, Goto, worker, database, TypeOK, NoneBegin
  <2> QED
    BY <2>1, NoneBeginBounded
<1>4. CASE (\E f \in Files : Arrive(f)) \/ (\E i \in Importers : ImporterNext(i))
  BY <1>1, <1>4 DEF Arrive, ImporterNext, List, LinkIncoming, AddCdnsToTsv, LinkPcap,
     AddCdnsToPcap, Rename, Finish
<1>5. CASE OperatorNext
  BY <1>1, <1>5 DEF OperatorNext, RunCommand, Reload, Run, NextLoop, TakePending, LinkCdns,
     LinkTsv, LinkFails, RegenPending, RegenAborts, AddTarget, UnlinkError, vars
<1>6. CASE UNCHANGED rvars
  BY <1>1, <1>6 DEF rvars, vars
<1> QED
  BY <1>2, <1>3, <1>4, <1>5, <1>6 DEF RecoveryNext, WorkersNext

\* However often Gearman restarts, workers die and files are queued again, a file's first
\* record is stored no more often than there are workers, and no other record more often
\* than the first: dsv-import-tsv asks for the first record before it inserts anything.
THEOREM FewDuplicates ==
    ASSUME IsFiniteSet(Workers)
    PROVE  RecoverySpec => []DuplicatesBounded
<1>1. RecoveryInit => RecoveryInv /\ Bounded
  <2> SUFFICES ASSUME RecoveryInit, NEW f \in Files
               PROVE  /\ tail[f] <= head[f]
                      /\ head[f] + Cardinality(Inserting(f)) <= Cardinality(Workers)
    BY InitRecovery DEF Bounded
  <2>1. Inserting(f) = {} /\ head[f] = 0 /\ tail[f] = 0
    BY DEF RecoveryInit, Init, Inserting
  <2>2. Cardinality(Inserting(f)) = 0 /\ Cardinality(Workers) \in Nat
    BY <2>1, FS_EmptySet, FS_CardinalityType
  <2> QED
    BY <2>1, <2>2
<1>2. RecoveryInv /\ Bounded /\ [RecoveryNext]_rvars => RecoveryInv' /\ Bounded'
  BY NextRecovery, NextBounded DEF RecoveryInv
<1>3. RecoveryInv /\ Bounded => DuplicatesBounded
  <2> SUFFICES ASSUME RecoveryInv, Bounded, NEW f \in Files
               PROVE  tail[f] <= head[f] /\ head[f] <= Cardinality(Workers)
    BY DEF DuplicatesBounded
  <2>1. Inserting(f) \in SUBSET Workers
    BY DEF Inserting
  <2>2. Cardinality(Inserting(f)) \in Nat /\ Cardinality(Workers) \in Nat /\ head[f] \in Nat
    BY <2>1, InsertingFinite, FS_CardinalityType DEF RecoveryInv, TypeOK
  <2> QED
    BY <2>2 DEF Bounded
<1> QED
  BY <1>1, <1>2, <1>3, PTL DEF RecoverySpec

-----------------------------------------------------------------------------
(* One command beside the import: the jobs of an entry                     *)

LEMMA TakeEntry ==
    ASSUME TypeOK, OneJobInv, NEW w \in Workers, NEW j \in Jobs, wpc[w] = "idle",
           queue[j] > 0, queue' = [queue EXCEPT ![j] = @ - 1],
           wjob' = [wjob EXCEPT ![w] = j], Goto(w, "start")
    PROVE  /\ OneJobInv'
           /\ \A q \in Queues, d \in PendingDirs, f \in Files :
                Clear(q, d, f)' <=> Clear(q, d, f)
<1>1. /\ queue[j] = 1 /\ queue \in [Jobs -> Nat] /\ wpc \in [Workers -> WorkerSteps]
      /\ wjob \in [Workers -> Jobs \cup {NoJob}] /\ wjob[w] = NoJob
  BY DEF OneJobInv, TypeOK
<1>2. /\ queue' \in [Jobs -> Nat] /\ queue'[j] = 0
      /\ \A k \in Jobs \ {j} : queue'[k] = queue[k]
      /\ wjob'[w] = j /\ \A v \in Workers \ {w} : wjob'[v] = wjob[v]
      /\ wpc'[w] = "start" /\ \A v \in Workers \ {w} : wpc'[v] = wpc[v]
  BY <1>1 DEF Goto
<1>3. /\ \A k \in Jobs : queue'[k] <= queue[k]
      /\ \A v \in Workers \ {w} : Works(v)' <=> Works(v)
      /\ Works(w)
  BY <1>1, <1>2 DEF Works, TypeOK
<1>4. \A k, m \in Jobs : Rivals(k, m)' <=> Rivals(k, m)
  BY DEF Rivals, OfEntry
<1>5. \A k \in Jobs : queue[k] > 0 => k = j \/ ~Rivals(j, k)
  BY <1>1 DEF OneJobInv
<1>6. \A k \in Jobs : queue[k] > 0 => k = j \/ ~Rivals(k, j)
  BY <1>1 DEF OneJobInv
<1>7. \A v \in Workers : Works(v) => ~Rivals(wjob[v], j)
  BY <1>1 DEF OneJobInv
<1>8. \A v \in Workers \ {w} : Works(v) => ~Rivals(j, wjob[v])
  BY <1>7 DEF Rivals, OfEntry
<1>9. OneJobInv'
  BY <1>1, <1>2, <1>3, <1>5, <1>6, <1>7, <1>8, JobFacts DEF OneJobInv, Rivals, OfEntry
<1>10. ASSUME NEW q \in Queues, NEW d \in PendingDirs, NEW f \in Files
      PROVE  Clear(q, d, f)' <=> Clear(q, d, f)
  BY <1>1, <1>2, <1>3 DEF Clear, NoJob, OfEntry, Works
<1> QED BY <1>9, <1>10

LEMMA ReturnEntry ==
    ASSUME TypeOK, OneJobInv, NEW w \in Workers, NEW k \in Jobs, Works(w), wjob[w] \in Jobs,
           k.queue = wjob[w].queue, k.dir = wjob[w].dir, k.file = wjob[w].file, Add(k),
           wjob' = [wjob EXCEPT ![w] = NoJob], NEW step \in {"idle", "stopped"}, Goto(w, step)
    PROVE  /\ OneJobInv'
           /\ \A q \in Queues, d \in PendingDirs, f \in Files :
                Clear(q, d, f)' <=> Clear(q, d, f)
<1>1. /\ queue \in [Jobs -> Nat] /\ wpc \in [Workers -> WorkerSteps]
      /\ wjob \in [Workers -> Jobs \cup {NoJob}] /\ wjob[w] # NoJob
  BY JobFacts DEF TypeOK
<1>2. \A m \in Jobs : queue[m] > 0 => ~Rivals(wjob[w], m)
  BY DEF OneJobInv
<1>3. \A m \in Jobs : queue[m] > 0 => ~Rivals(k, m) /\ ~Rivals(m, k)
  BY <1>2 DEF Rivals, OfEntry
<1>4. queue[k] = 0
  BY <1>1, <1>3 DEF Rivals, OfEntry
<1>5. /\ queue' \in [Jobs -> Nat] /\ queue'[k] = 1
      /\ \A m \in Jobs \ {k} : queue'[m] = queue[m]
      /\ wjob'[w] = NoJob /\ \A v \in Workers \ {w} : wjob'[v] = wjob[v]
      /\ wpc'[w] = step /\ \A v \in Workers \ {w} : wpc'[v] = wpc[v]
  BY <1>1, <1>4 DEF Goto, Add
<1>6. /\ \A v \in Workers \ {w} : Works(v)' <=> Works(v)
      /\ \A m \in Jobs : queue'[m] > 0 => m = k \/ queue[m] > 0
      /\ \A m \in Jobs : queue[m] > 0 => queue'[m] > 0
  BY <1>5 DEF Works
<1>7. \A v \in Workers \ {w} : Works(v) => ~Rivals(wjob[v], k)
  <2> SUFFICES ASSUME NEW v \in Workers \ {w}, Works(v), Rivals(wjob[v], k) PROVE FALSE
    OBVIOUS
  <2>1. Rivals(wjob[v], wjob[w]) /\ wjob[v] # NoJob
    BY JobFacts DEF Rivals, OfEntry, NoJob
  <2> QED
    BY <2>1 DEF OneJobInv
<1>8. \A m \in Jobs : ~Rivals(NoJob, m)
  BY JobFacts DEF Rivals, OfEntry, NoJob
<1>9. \A v \in Workers : wjob[v] # NoJob => ~Rivals(wjob[v], NoJob)
  BY <1>1, JobFacts DEF Rivals, OfEntry, NoJob
<1>10. OneJobInv'
  <2>1. \A j \in Jobs : queue'[j] <= 1
    BY <1>5 DEF OneJobInv
  <2>2. \A j, m \in Jobs : queue'[j] > 0 /\ queue'[m] > 0 /\ Rivals(j, m) => j = m
    BY <1>3, <1>6 DEF OneJobInv
  <2>3. \A v \in Workers, j \in Jobs : Works(v)' /\ queue'[j] > 0 => ~Rivals(wjob'[v], j)
    BY <1>5, <1>6, <1>7, <1>8 DEF OneJobInv
  <2>4. \A u, v \in Workers :
            Works(u)' /\ Works(v)' /\ wjob'[u] # NoJob /\ Rivals(wjob'[u], wjob'[v]) => u = v
    BY <1>5, <1>6, <1>9 DEF OneJobInv
  <2> QED
    BY <2>1, <2>2, <2>3, <2>4 DEF OneJobInv, Rivals, OfEntry
<1>11. ASSUME NEW q \in Queues, NEW d \in PendingDirs, NEW f \in Files
       PROVE  Clear(q, d, f)' <=> Clear(q, d, f)
  BY <1>1, <1>5, <1>6 DEF Clear, NoJob, OfEntry
<1> QED BY <1>10, <1>11

\* A job is added, for which there was none; a worker may go on.
LEMMA AddEntry ==
    ASSUME TypeOK, OneJobInv, NEW k \in Jobs, Clear(k.queue, k.dir, k.file), Add(k),
           wjob' = wjob, \A v \in Workers : Works(v)' <=> Works(v)
    PROVE  /\ OneJobInv'
           /\ \A q \in Queues, d \in PendingDirs, f \in Files :
                Clear(q, d, f)' <=> Clear(q, d, f) /\ ~OfEntry(k, q, d, f)
           /\ \A j \in Jobs : queue'[j] > 0 => j = k \/ queue[j] > 0
<1>1. queue \in [Jobs -> Nat]
  BY DEF TypeOK
<1>2. \A m \in Jobs : queue[m] > 0 => ~Rivals(k, m) /\ ~Rivals(m, k)
  BY DEF Clear, Rivals, OfEntry
<1>3. \A v \in Workers : Works(v) => ~Rivals(wjob[v], k)
  BY DEF Clear, Rivals, OfEntry
<1>4. queue[k] = 0
  BY <1>1, <1>2 DEF Rivals, OfEntry
<1>5. /\ queue' \in [Jobs -> Nat] /\ queue'[k] = 1
      /\ \A m \in Jobs \ {k} : queue'[m] = queue[m]
  BY <1>1, <1>4 DEF Add
<1>6. /\ \A m \in Jobs : queue'[m] > 0 => m = k \/ queue[m] > 0
      /\ \A m \in Jobs : queue[m] > 0 => queue'[m] > 0
  BY <1>5
<1>7. OneJobInv'
  <2>1. \A j \in Jobs : queue'[j] <= 1
    BY <1>5 DEF OneJobInv
  <2>2. \A j, m \in Jobs : queue'[j] > 0 /\ queue'[m] > 0 /\ Rivals(j, m) => j = m
    BY <1>2, <1>6 DEF OneJobInv
  <2>3. \A v \in Workers, j \in Jobs : Works(v) /\ queue'[j] > 0 => ~Rivals(wjob[v], j)
    BY <1>3, <1>6 DEF OneJobInv
  <2>4. \A u, v \in Workers :
            Works(u) /\ Works(v) /\ wjob[u] # NoJob /\ Rivals(wjob[u], wjob[v]) => u = v
    BY DEF OneJobInv
  <2> QED
    BY <2>1, <2>2, <2>3, <2>4 DEF OneJobInv, Rivals, OfEntry
<1>8. ASSUME NEW q \in Queues, NEW d \in PendingDirs, NEW f \in Files
      PROVE  Clear(q, d, f)' <=> Clear(q, d, f) /\ ~OfEntry(k, q, d, f)
  BY <1>5, <1>6 DEF Clear, OfEntry
<1> QED BY <1>6, <1>7, <1>8

\* A worker goes on, or has done with its job's file.
LEMMA GoOnEntry ==
    ASSUME OneJobInv, UNCHANGED <<queue, wjob>>, \A v \in Workers : Works(v)' => Works(v)
    PROVE  /\ OneJobInv'
           /\ \A q \in Queues, d \in PendingDirs, f \in Files :
                Clear(q, d, f) => Clear(q, d, f)'
  BY DEF OneJobInv, Clear, Rivals, OfEntry

\* It tells Gearman that it has.
LEMMA AnswerEntry ==
    ASSUME TypeOK, OneJobInv, NEW w \in Workers, wpc[w] = "finish", UNCHANGED queue,
           wjob' = [wjob EXCEPT ![w] = NoJob], Goto(w, "idle")
    PROVE  /\ OneJobInv'
           /\ \A q \in Queues, d \in PendingDirs, f \in Files :
                Clear(q, d, f)' <=> Clear(q, d, f)
<1>1. /\ wjob \in [Workers -> Jobs \cup {NoJob}] /\ wpc \in [Workers -> WorkerSteps]
      /\ wjob'[w] = NoJob /\ \A v \in Workers \ {w} : wjob'[v] = wjob[v]
      /\ \A v \in Workers \ {w} : Works(v)' <=> Works(v)
      /\ ~Works(w)
  BY DEF TypeOK, Goto, Works
<1>2. \A j \in Jobs : ~Rivals(NoJob, j)
  BY JobFacts DEF Rivals, OfEntry, NoJob
<1>3. \A v \in Workers : wjob[v] # NoJob => ~Rivals(wjob[v], NoJob)
  BY <1>1, JobFacts DEF Rivals, OfEntry, NoJob
<1>4. OneJobInv'
  <2>1. \A v \in Workers, j \in Jobs : Works(v)' /\ queue[j] > 0 => ~Rivals(wjob'[v], j)
    BY <1>1, <1>2 DEF OneJobInv
  <2>2. \A u, v \in Workers :
            Works(u)' /\ Works(v)' /\ wjob'[u] # NoJob /\ Rivals(wjob'[u], wjob'[v]) => u = v
    BY <1>1, <1>3 DEF OneJobInv
  <2> QED
    BY <2>1, <2>2 DEF OneJobInv, Rivals, OfEntry
<1>5. ASSUME NEW q \in Queues, NEW d \in PendingDirs, NEW f \in Files
      PROVE  Clear(q, d, f)' <=> Clear(q, d, f)
  BY <1>1 DEF Clear, NoJob, OfEntry
<1> QED BY <1>4, <1>5

\* No other job is for the entry that a worker works on.
LEMMA OwnEntry ==
    ASSUME TypeOK, OneJobInv, NEW w \in Workers, Works(w), wjob[w] \in Jobs
    PROVE  /\ \A j \in Jobs : queue[j] > 0 => ~Rivals(wjob[w], j) /\ ~Rivals(j, wjob[w])
           /\ \A v \in Workers \ {w} : Works(v) =>
                ~Rivals(wjob[v], wjob[w]) /\ ~Rivals(wjob[w], wjob[v])
           /\ \A q \in Queues : (q = "import-tsv" <=> wjob[w].queue = "import-tsv") =>
                ~Clear(q, wjob[w].dir, wjob[w].file)
  BY JobFacts DEF OneJobInv, Clear, Rivals, OfEntry, NoJob

-----------------------------------------------------------------------------
(* One command beside the import: what each job finds                      *)

SameFiles ==
    /\ UNCHANGED <<pending, failed, tsv, archive, cur, operator, bond, reload>>
    /\ \A f \in Files : head[f] > 0 => head'[f] > 0

KeepsClear ==
    \A q \in Queues, d \in PendingDirs, f \in Files : Clear(q, d, f) => Clear(q, d, f)'

\* What a job finds does not get worse when no file changes and no job is added.
LEMMA SameFinds ==
    ASSUME SameFiles, KeepsClear
    PROVE  /\ \A f \in Files : TsvKept(f) => TsvKept(f)'
           /\ \A f \in Files : Spared(f) => Spared(f)'
           /\ \A d \in PendingDirs, f \in Files, c \in Contents :
                Converts(d, f, c) => Converts(d, f, c)'
           /\ \A d \in PendingDirs, f \in Files : Links(d, f) => Links(d, f)'
           /\ \A d \in PendingDirs, f \in Files : Imports(d, f) => Imports(d, f)'
<1>1. \A f \in Files : TsvKept(f) => TsvKept(f)'
  BY DEF SameFiles, TsvKept
<1>2. \A f \in Files : Spared(f) => Spared(f)'
  BY <1>1 DEF SameFiles, Spared
<1>3. \A d \in PendingDirs, f \in Files, c \in Contents : Converts(d, f, c) => Converts(d, f, c)'
  BY DEF SameFiles, KeepsClear, Converts, Targeted, operator
<1>4. \A d \in PendingDirs, f \in Files : Links(d, f) => Links(d, f)'
  BY <1>2 DEF SameFiles, Links
<1>5. \A d \in PendingDirs, f \in Files : Imports(d, f) => Imports(d, f)'
  BY DEF SameFiles, Imports, operator
<1> QED BY <1>1, <1>2, <1>3, <1>4, <1>5

\* A worker that goes on with its job leaves the others what they find.
LEMMA SameStep ==
    ASSUME TypeOK, SameFiles, KeepsClear, NEW v \in Workers, Step(v),
           wjob'[v] = wjob[v], wpc'[v] = wpc[v]
    PROVE  Step(v)'
<1>1. CASE wjob[v] = NoJob
  BY <1>1 DEF Step, NoJob
<1>2. CASE wjob[v] \in Jobs
  <2>1. wjob[v].dir \in PendingDirs /\ wjob[v].file \in Files
    BY <1>2, JobFacts
  <2>2. pending' = pending
    BY DEF SameFiles
  <2>3. head[wjob[v].file] > 0 => head'[wjob[v].file] > 0
    BY <2>1 DEF SameFiles
  <2>4. Works(v)' <=> Works(v)
    BY DEF Works
  <2> QED
    BY <2>1, <2>2, <2>3, <2>4, SameFinds DEF Step
<1> QED BY <1>1, <1>2 DEF TypeOK

\* And so it is with all that is neither a worker's nor about who has a job.
LEMMA SameRest ==
    ASSUME TypeOK, OperatorType, SameFiles, KeepsClear, SafeInv, UNCHANGED <<incoming, ipc, todo>>,
           FilesInv', OneJobInv', StepsInv', ReadyInv', PcapInv'
    PROVE  SafeInv'
<1>0. UNCHANGED <<ipc, cur, todo, incoming, archive, tsv, failed, pending, oppc, source, loop,
                  listing, target,
                  commands>>
  BY DEF SameFiles, operator
<1>1. SubmitInv'
  <2> SUFFICES ASSUME NEW i \in Importers
               PROVE  /\ ipc[i] = "add-tsv" =>
                            /\ Clear("cdns-to-tsv", "incoming", cur[i])'
                            /\ Converts("incoming", cur[i], "none")'
                            /\ oppc = "add" => ~OfEntry(target, "cdns-to-tsv", "incoming", cur[i])
                      /\ ipc[i] = "add-pcap" =>
                            /\ Clear("cdns-to-pcap", "pcap", cur[i])' /\ Links("pcap", cur[i])'
                            /\ oppc = "add" => ~OfEntry(target, "cdns-to-pcap", "pcap", cur[i])
    BY <1>0 DEF SubmitInv, OfEntry
  <2>1. ipc[i] \in {"add-tsv", "add-pcap"} => cur[i] \in Files
    BY DEF TypeOK
  <2>2. SubmitInv /\ KeepsClear
    BY DEF SafeInv
  <2>3. CASE ipc[i] = "add-tsv"
    <3>1. Clear("cdns-to-tsv", "incoming", cur[i])' /\ Converts("incoming", cur[i], "none")'
      BY <1>0, <2>1, <2>2, <2>3, SameFinds DEF SubmitInv, KeepsClear
    <3> QED
      BY <2>2, <2>3, <3>1 DEF SubmitInv
  <2>4. CASE ipc[i] = "add-pcap"
    <3>1. Clear("cdns-to-pcap", "pcap", cur[i])' /\ Links("pcap", cur[i])'
      BY <1>0, <2>1, <2>2, <2>4, SameFinds DEF SubmitInv, KeepsClear
    <3> QED
      BY <2>2, <2>4, <3>1 DEF SubmitInv
  <2> QED
    BY <2>3, <2>4
<1>2. TargetInv'
  <2>1. oppc = "add" =>
            /\ target \in Jobs /\ target.queue \in Queues /\ target.dir \in PendingDirs
            /\ target.file \in Files
    BY JobFacts DEF OperatorType
  <2>2. oppc = "add" => Ready(target)' /\ Clear(target.queue, target.dir, target.file)'
    BY <2>1, <1>0, SameFinds DEF SafeInv, TargetInv, Ready, KeepsClear
  <2>3. \A f \in Files :
            /\ Targeted("cdns-to-tsv", f) =>
                f \in failed["cdns-to-tsv"] /\ (f \in pending["incoming"] \/ TsvKept(f)')
            /\ Targeted("import-tsv", f) =>
                /\ tsv["error"][f] # "none"
                /\ tsv["incoming"][f] = "whole" \/ head'[f] > 0
    BY SameFinds DEF SafeInv, TargetInv, SameFiles
  <2> QED
    BY <1>0, <2>2, <2>3 DEF TargetInv, Targeted
<1>3. FailedInv'
  BY <1>0 DEF SafeInv, FailedInv, Targeted, KeepsClear
<1>4. UnseenInv'
  <2>1. \A f \in Files : Unseen(f) => Unseen(f)'
    BY <1>0 DEF Unseen, KeepsClear
  <2>2. \A f \in Files : Untouched(f) => Untouched(f)'
    BY <1>0 DEF Untouched, KeepsClear
  <2> QED
    BY <1>0, <2>1, <2>2 DEF SafeInv, UnseenInv, Reached
<1>5. RecordsInv'
  <2>1. \A f \in ImportFiles : f \in Files
    BY PipelineAssumption
  <2> QED
    BY <1>0, <2>1, SameFinds DEF SafeInv, RecordsInv, Reached
<1>6. ListedInv'
  BY <1>0 DEF SafeInv, ListedInv
<1> QED BY <1>1, <1>2, <1>3, <1>4, <1>5, <1>6 DEF SafeInv

\* A step of a worker that changes no file anyone looks at, and adds no job.
LEMMA QuietSafe ==
    ASSUME TypeOK, OperatorType, SafeInv, NEW w \in Workers, SameFiles,
           UNCHANGED <<incoming, ipc, todo, queue, wjob>>,
           \A v \in Workers \ {w} : wpc'[v] = wpc[v], Works(w)' => Works(w), Step(w)'
    PROVE  SafeInv'
<1>1. OneJobInv /\ StepsInv /\ ReadyInv /\ PcapInv /\ FilesInv
  BY DEF SafeInv
<1>2. \A v \in Workers : Works(v)' => Works(v)
  BY DEF Works
<1>3. OneJobInv' /\ KeepsClear
  BY <1>1, <1>2, GoOnEntry DEF KeepsClear
<1>4. StepsInv'
  BY <1>1, <1>3, SameStep DEF StepsInv
<1>5. ReadyInv'
  <2>1. ASSUME NEW j \in Jobs, Ready(j) PROVE Ready(j)'
    BY <1>3, <2>1, JobFacts, SameFinds DEF Ready
  <2> QED BY <1>1, <2>1 DEF ReadyInv
<1>6. PcapInv' /\ FilesInv'
  BY <1>1 DEF PcapInv, FilesInv, SameFiles, operator
<1> QED BY <1>3, <1>4, <1>5, <1>6, SameRest

LEMMA TakeSafe ==
    ASSUME TypeOK, OperatorType, SafeInv, NEW w \in Workers, Take(w),
           UNCHANGED <<operator, bond, reload>>
    PROVE  SafeInv'
<1>1. OneJobInv /\ StepsInv /\ ReadyInv /\ PcapInv /\ FilesInv
  BY DEF SafeInv
<1>2. PICK j \in Jobs :
        /\ wpc[w] = "idle" /\ queue[j] > 0
        /\ queue' = [queue EXCEPT ![j] = @ - 1]
        /\ wjob' = [wjob EXCEPT ![w] = j]
        /\ Goto(w, "start")
        /\ UNCHANGED <<disk, database, importer>>
  BY DEF Take
<1>3. SameFiles /\ UNCHANGED <<incoming, ipc, todo>>
  BY <1>2 DEF SameFiles, disk, cdnsFiles, tsvFiles, database, importer
<1>4. OneJobInv' /\ KeepsClear
  BY <1>1, <1>2, TakeEntry DEF KeepsClear
<1>5. /\ wjob'[w] = j /\ wpc'[w] = "start"
      /\ \A v \in Workers \ {w} : wjob'[v] = wjob[v] /\ wpc'[v] = wpc[v]
      /\ \A k \in Jobs : queue'[k] > 0 => queue[k] > 0
  BY <1>2 DEF Goto, TypeOK
<1>6. ASSUME NEW k \in Jobs, Ready(k) PROVE Ready(k)'
  BY <1>3, <1>4, <1>6, JobFacts, SameFinds DEF Ready
<1>7. Ready(j)'
  BY <1>1, <1>2, <1>6 DEF ReadyInv
<1>8. Step(w)'
  BY <1>5, <1>7, JobFacts DEF Ready, Step, Works
<1>9. StepsInv'
  BY <1>1, <1>3, <1>4, <1>5, <1>8, SameStep DEF StepsInv
<1>10. ReadyInv'
  BY <1>1, <1>5, <1>6 DEF ReadyInv
<1>11. PcapInv' /\ FilesInv'
  <2>1. FilesInv'
    BY <1>1, <1>3 DEF FilesInv, SameFiles
  <2>2. PcapInv'
    BY <1>1, <1>2, <1>5 DEF PcapInv, operator
  <2> QED BY <2>1, <2>2
<1> QED BY <1>3, <1>4, <1>9, <1>10, <1>11, SameRest

\* The job goes back to its queue, for the same or the next try.
LEMMA ReturnSafe ==
    ASSUME TypeOK, OperatorType, SafeInv, NEW w \in Workers, InfraExit(w) \/ Resubmit(w),
           UNCHANGED <<operator, bond, reload>>
    PROVE  SafeInv'
<1>1. OneJobInv /\ StepsInv /\ ReadyInv /\ PcapInv /\ FilesInv
  BY DEF SafeInv
<1> DEFINE k == IF wpc[w] = "start" THEN wjob[w] ELSE [wjob[w] EXCEPT !.retry = @ + 1]
<1>2. wpc[w] \in {"start", "resubmit"} /\ Works(w)
  BY DEF InfraExit, Resubmit, Works
<1>3. wjob[w] \in Jobs
  BY <1>2, Working
<1>4. k \in Jobs /\ k.queue = wjob[w].queue /\ k.dir = wjob[w].dir /\ k.file = wjob[w].file
  <2>1. CASE wpc[w] = "start"
    BY <1>3, <2>1
  <2>2. CASE wpc[w] = "resubmit"
    <3>1. wjob[w].retry < MaxRetries
      BY <2>2 DEF TypeOK
    <3>2. [wjob[w] EXCEPT !.retry = @ + 1] \in Jobs
      BY <1>3, <3>1, JobFacts
    <3> QED BY <1>3, <2>2, <3>2 DEF Jobs
  <2> QED BY <1>2, <2>1, <2>2
<1>5. PICK step \in {"idle", "stopped"} :
        /\ Add(k) /\ wjob' = [wjob EXCEPT ![w] = NoJob] /\ Goto(w, step)
        /\ UNCHANGED <<disk, database, importer>>
  BY DEF InfraExit, Resubmit
<1> HIDE DEF k
<1>6. SameFiles /\ UNCHANGED <<incoming, ipc, todo>>
  BY <1>5 DEF SameFiles, disk, cdnsFiles, tsvFiles, database, importer
<1>7. OneJobInv' /\ KeepsClear
  BY <1>1, <1>2, <1>3, <1>4, <1>5, ReturnEntry DEF KeepsClear
<1>8. /\ wjob'[w] = NoJob
      /\ \A v \in Workers \ {w} : wjob'[v] = wjob[v] /\ wpc'[v] = wpc[v]
      /\ \A j \in Jobs : queue'[j] > 0 => j = k \/ queue[j] > 0
  BY <1>4, <1>5 DEF Goto, TypeOK, Add
<1>9. ASSUME NEW j \in Jobs, Ready(j) PROVE Ready(j)'
  BY <1>6, <1>7, <1>9, JobFacts, SameFinds DEF Ready
<1>10. Ready(k)
  BY <1>1, <1>2, <1>4 DEF StepsInv, Step, Ready
<1>11. StepsInv'
  <2>1. Step(w)'
    BY <1>8 DEF Step, NoJob
  <2> QED BY <1>1, <1>6, <1>7, <1>8, <2>1, SameStep DEF StepsInv
<1>12. ReadyInv'
  BY <1>1, <1>4, <1>8, <1>9, <1>10 DEF ReadyInv
<1>13. FilesInv'
  BY <1>1, <1>6 DEF FilesInv, SameFiles
<1>14. PcapInv'
  BY <1>1, <1>4, <1>8 DEF PcapInv, operator, NoJob
<1> QED BY <1>6, <1>7, <1>11, <1>12, <1>13, <1>14, SameRest

LEMMA AnswerSafe ==
    ASSUME TypeOK, OperatorType, SafeInv, NEW w \in Workers, Answer(w),
           UNCHANGED <<operator, bond, reload>>
    PROVE  SafeInv'
<1>1. OneJobInv /\ StepsInv /\ ReadyInv /\ PcapInv /\ FilesInv
  BY DEF SafeInv
<1>2. SameFiles /\ UNCHANGED <<incoming, ipc, todo, queue>>
  BY DEF Answer, SameFiles, disk, cdnsFiles, tsvFiles, database, importer
<1>3. OneJobInv' /\ KeepsClear
  BY <1>1, AnswerEntry DEF KeepsClear, Answer
<1>4. /\ wjob'[w] = NoJob
      /\ \A v \in Workers \ {w} : wjob'[v] = wjob[v] /\ wpc'[v] = wpc[v]
  BY DEF Answer, Goto, TypeOK
<1>5. StepsInv'
  <2>1. Step(w)'
    BY <1>4 DEF Step, NoJob
  <2> QED BY <1>1, <1>2, <1>3, <1>4, <2>1, SameStep DEF StepsInv
<1>6. ReadyInv'
  <2>1. ASSUME NEW j \in Jobs, Ready(j) PROVE Ready(j)'
    BY <1>2, <1>3, <2>1, JobFacts, SameFinds DEF Ready
  <2> QED BY <1>1, <1>2, <2>1 DEF ReadyInv
<1>7. FilesInv' /\ PcapInv'
  BY <1>1, <1>2, <1>4 DEF FilesInv, SameFiles, PcapInv, operator, NoJob
<1> QED BY <1>2, <1>3, <1>5, <1>6, <1>7, SameRest

\* The steps of a script, and of the worker that runs it, that change no link and no TSV.
Quiet(w) ==
    \/ FindNode(w) \/ ConvertPcap(w) \/ TestTsv(w) \/ AlreadyPresent(w) \/ NotPresent(w)
    \/ QueryFails(w) \/ Insert(w) \/ InsertFails(w) \/ NoCounts(w) \/ InsertCounts(w)
    \/ InsertCountsFails(w) \/ FailTransient(w) \/ RenameNothing(w)

LEMMA QuietStep ==
    ASSUME TypeOK, OperatorType, SafeInv, NEW w \in Workers, Quiet(w),
           UNCHANGED <<operator, bond, reload>>
    PROVE  SafeInv'
<1>1. OneJobInv /\ StepsInv
  BY DEF SafeInv
<1>2. Works(w) /\ wpc[w] \notin {"idle", "stopped"}
  BY DEF Quiet, FindNode, ConvertPcap, TestTsv, AlreadyPresent, NotPresent, QueryFails,
     Insert, InsertFails, NoCounts, InsertCounts, InsertCountsFails, FailTransient,
     RenameNothing, At, Works
<1>3. /\ wjob[w] \in Jobs /\ wjob[w].queue \in Queues /\ wjob[w].dir \in PendingDirs
      /\ wjob[w].file \in Files
  BY <1>2, Working
<1>4. /\ UNCHANGED <<incoming, archive, pending, failed, tsv, ipc, todo, cur, queue, wjob>>
      /\ \A v \in Workers \ {w} : wpc'[v] = wpc[v]
  BY DEF Quiet, FindNode, ConvertPcap, TestTsv, AlreadyPresent, NotPresent, QueryFails,
     Insert, InsertFails, NoCounts, InsertCounts, InsertCountsFails, FailTransient,
     RenameNothing, Goto, TypeOK, disk, cdnsFiles, tsvFiles, importer
<1>5. \A f \in Files : head[f] > 0 => head'[f] > 0
  <2>1. \/ head' = head
        \/ head' = [head EXCEPT ![wjob[w].file] = @ + 1]
    BY DEF Quiet, FindNode, ConvertPcap, TestTsv, AlreadyPresent, NotPresent, QueryFails,
       Insert, InsertFails, InsertRows, InsertHead, NoCounts, InsertCounts,
       InsertCountsFails, FailTransient, RenameNothing, database
  <2> QED BY <1>3, <2>1 DEF TypeOK
<1>6. SameFiles
  BY <1>4, <1>5 DEF SameFiles
<1>7. \A v \in Workers : Works(v)' => Works(v)
  BY <1>2, <1>4 DEF Works
<1>8. KeepsClear
  BY <1>1, <1>4, <1>7, GoOnEntry DEF KeepsClear
<1>9. Step(w)'
  <2>1. Step(w)
    BY <1>1 DEF StepsInv
  <2>2. CASE wjob[w].queue = "cdns-to-tsv"
    <3>1. \/ wpc'[w] = "finish"
          \/ wpc[w] = "start" /\ wpc'[w] = "test"
      BY <2>1, <2>2 DEF Quiet, FindNode, ConvertPcap, TestTsv, AlreadyPresent, NotPresent,
         QueryFails, Insert, InsertFails, NoCounts, InsertCounts, InsertCountsFails,
         FailTransient, RenameNothing, Goto, TypeOK, At, Step
    <3>2. CASE wpc'[w] = "finish"
      BY <1>4, <2>2, <3>2 DEF Step, Works
    <3>3. CASE wpc[w] = "start" /\ wpc'[w] = "test"
      <4>1. Converts(wjob[w].dir, wjob[w].file, "none")'
        BY <1>3, <1>4, <1>6, <1>8, <2>1, <2>2, <3>3, SameFinds DEF Step
      <4> QED
        BY <1>4, <2>2, <3>3, <4>1 DEF Step
    <3> QED BY <3>1, <3>2, <3>3
  <2>3. CASE wjob[w].queue = "cdns-to-pcap"
    <3>1. /\ wpc'[w] \in {"exit0", "exit1", "finish"}
      BY <2>1, <2>3 DEF Quiet, FindNode, ConvertPcap, TestTsv, AlreadyPresent, NotPresent,
         QueryFails, Insert, InsertFails, NoCounts, InsertCounts, InsertCountsFails,
         FailTransient, RenameNothing, Goto, TypeOK, At, Step
    <3>2. Links(wjob[w].dir, wjob[w].file)'
      BY <1>2, <1>3, <1>4, <1>6, <1>8, <2>1, <2>3, SameFinds DEF Step
    <3> QED
      BY <1>4, <2>3, <3>1, <3>2 DEF Step
  <2>4. CASE wjob[w].queue = "import-tsv"
    <3>1. Imports(wjob[w].dir, wjob[w].file)
      BY <1>2, <2>1, <2>4 DEF Step
    <3>2. Imports(wjob[w].dir, wjob[w].file)'
      BY <1>3, <1>4, <1>6, <1>8, <3>1, SameFinds
    <3>3. /\ wpc'[w] \in {"query", "insert", "counts", "exit0", "exit2", "finish", "resubmit"}
          /\ wpc'[w] \in {"counts", "exit0"} =>
                \/ wpc[w] = "counts" \/ head[wjob[w].file] > 0 \/ Insert(w)
      BY <2>1, <2>4, <3>1 DEF Quiet, FindNode, ConvertPcap, TestTsv, AlreadyPresent, NotPresent,
         QueryFails, Insert, InsertFails, NoCounts, InsertCounts, InsertCountsFails,
         FailTransient, RenameNothing, Goto, TypeOK, At, Step, TsvOf, Imports
    <3>4. wpc'[w] \in {"counts", "exit0"} => head'[wjob[w].file] > 0
      <4>1. CASE wpc[w] = "counts" \/ head[wjob[w].file] > 0
        BY <1>3, <1>5, <2>1, <2>4, <4>1 DEF Step
      <4>2. CASE Insert(w)
        BY <1>3, <4>2 DEF Insert, InsertRows, InsertHead, TypeOK
      <4> QED BY <3>3, <4>1, <4>2
    <3> QED
      BY <1>4, <2>4, <3>2, <3>3, <3>4 DEF Step
  <2> QED BY <1>3, <2>2, <2>3, <2>4
<1> QED BY <1>2, <1>4, <1>6, <1>9, QuietSafe

-----------------------------------------------------------------------------
(* One command beside the import: the worker that changes files            *)

\* What a job of queue q for file f in directory d finds is still there.
Finds(q, d, f) ==
    /\ q = "cdns-to-tsv" =>
        /\ \A c \in Contents : Converts(d, f, c) => Converts(d, f, c)'
        /\ f \in pending[d] => f \in pending'[d]
        /\ d = "incoming" /\ TsvKept(f) => TsvKept(f)'
    /\ q = "cdns-to-pcap" => (Links(d, f) => Links(d, f)')
    /\ q = "import-tsv" =>
        /\ Imports(d, f) => Imports(d, f)'
        /\ head[f] > 0 => head'[f] > 0

LEMMA FindsStep ==
    ASSUME TypeOK, NEW v \in Workers, Step(v), wjob'[v] = wjob[v], wpc'[v] = wpc[v],
           wjob[v] # NoJob /\ Works(v) => Finds(wjob[v].queue, wjob[v].dir, wjob[v].file)
    PROVE  Step(v)'
<1>1. CASE wjob[v] = NoJob
  BY <1>1 DEF Step, NoJob
<1>2. CASE ~Works(v)
  BY <1>2 DEF Step, Works
<1>3. CASE wjob[v] # NoJob /\ Works(v)
  <2>1. wjob[v].dir \in PendingDirs /\ wjob[v].file \in Files
    BY <1>3, JobFacts DEF TypeOK
  <2>2. Finds(wjob[v].queue, wjob[v].dir, wjob[v].file) /\ Works(v)'
    BY <1>3 DEF Works
  <2> QED
    BY <1>3, <2>1, <2>2 DEF Step, Finds
<1> QED BY <1>1, <1>2, <1>3

LEMMA FindsReady ==
    ASSUME NEW j \in Jobs, Ready(j), Finds(j.queue, j.dir, j.file)
    PROVE  Ready(j)'
  BY DEF Ready, Finds

\* Whoever is not worker w and has a job of queue q for file f in directory d, or is to have.
Other(w, q, d, f) ==
    /\ ~OfEntry(wjob[w], q, d, f)
    /\ q = "import-tsv" => ~Clear(q, d, f) \/ (Targeted(q, f) /\ d = "incoming")

\* A step of a worker that changes files, or adds a job, and leaves the others theirs.
LEMMA GoOnSafe ==
    ASSUME TypeOK, OperatorType, OneSource, SafeInv, NEW w \in Workers, Works(w), wjob[w] \in Jobs,
           UNCHANGED <<incoming, archive, importer, wjob, operator, bond, reload>>,
           \A v \in Workers \ {w} : wpc'[v] = wpc[v],
           \A q \in Queues, d \in PendingDirs, f \in Files : Other(w, q, d, f) => Finds(q, d, f),
           OneJobInv',
           \A j \in Jobs : queue'[j] > 0 => queue[j] > 0 \/ (Ready(j)' /\ j.queue # "cdns-to-pcap"),
           \A q \in ConvertQueues, d \in PendingDirs, f \in Files :
                Clear(q, d, f) => Clear(q, d, f)',
           oppc = "add" => Clear(target.queue, target.dir, target.file)',
           Step(w)', FailedInv', UnseenInv', RecordsInv',
           \A f \in Files :
                /\ Targeted("cdns-to-tsv", f) =>
                    f \in failed'["cdns-to-tsv"] /\ (f \in pending'["incoming"] \/ TsvKept(f)')
                /\ Targeted("import-tsv", f) =>
                    /\ tsv'["error"][f] # "none"
                    /\ tsv'["incoming"][f] = "whole" \/ head'[f] > 0
    PROVE  SafeInv'
<1>0. UNCHANGED <<ipc, todo, cur, oppc, source, loop, listing, target, commands>>
  BY DEF importer, operator
<1>1. OneJobInv /\ StepsInv /\ ReadyInv /\ PcapInv /\ FilesInv /\ SubmitInv /\ TargetInv /\ ListedInv
  BY DEF SafeInv
<1>2. StepsInv'
  <2> SUFFICES ASSUME NEW v \in Workers \ {w} PROVE Step(v)'
    BY DEF StepsInv
  <2>1. ASSUME wjob[v] # NoJob, Works(v)
        PROVE  Finds(wjob[v].queue, wjob[v].dir, wjob[v].file)
    <3>1. wjob[v] \in Jobs /\ wjob[v].queue \in Queues /\ wjob[v].dir \in PendingDirs
          /\ wjob[v].file \in Files
      BY <2>1, JobFacts DEF TypeOK
    <3>2. ~Rivals(wjob[w], wjob[v])
      BY <1>1, <2>1, OwnEntry
    <3>3. ~Clear(wjob[v].queue, wjob[v].dir, wjob[v].file)
      BY <2>1 DEF Clear, OfEntry
    <3>4. Other(w, wjob[v].queue, wjob[v].dir, wjob[v].file)
      BY <3>2, <3>3 DEF Other, Rivals
    <3> QED BY <3>1, <3>4
  <2> QED BY <1>1, <2>1, FindsStep DEF StepsInv
<1>3. ReadyInv'
  <2> SUFFICES ASSUME NEW j \in Jobs, queue[j] > 0 PROVE Ready(j)'
    BY DEF ReadyInv
  <2>1. j.queue \in Queues /\ j.dir \in PendingDirs /\ j.file \in Files
    BY JobFacts
  <2>2. ~Rivals(wjob[w], j)
    BY <1>1, OwnEntry
  <2>3. ~Clear(j.queue, j.dir, j.file)
    BY DEF Clear, OfEntry
  <2>4. Finds(j.queue, j.dir, j.file)
    BY <2>1, <2>2, <2>3 DEF Other, Rivals
  <2> QED BY <1>1, <2>4, FindsReady DEF ReadyInv
<1>4. ASSUME NEW q \in ConvertQueues, NEW d \in PendingDirs, NEW f \in Files, Clear(q, d, f)
      PROVE  Finds(q, d, f)
  <2>1. ~OfEntry(wjob[w], q, d, f)
    BY <1>4 DEF Clear
  <2> QED BY <2>1 DEF Other
<1>5. SubmitInv'
  <2> SUFFICES ASSUME NEW i \in Importers
               PROVE  /\ ipc[i] = "add-tsv" =>
                            /\ Clear("cdns-to-tsv", "incoming", cur[i])'
                            /\ Converts("incoming", cur[i], "none")'
                            /\ oppc = "add" => ~OfEntry(target, "cdns-to-tsv", "incoming", cur[i])
                      /\ ipc[i] = "add-pcap" =>
                            /\ Clear("cdns-to-pcap", "pcap", cur[i])' /\ Links("pcap", cur[i])'
                            /\ oppc = "add" => ~OfEntry(target, "cdns-to-pcap", "pcap", cur[i])
    BY <1>0 DEF SubmitInv, OfEntry
  <2>1. ipc[i] \in {"add-tsv", "add-pcap"} => cur[i] \in Files
    BY DEF TypeOK
  <2>2. CASE ipc[i] = "add-tsv"
    <3>1. Clear("cdns-to-tsv", "incoming", cur[i]) /\ Converts("incoming", cur[i], "none")
      BY <1>1, <2>2 DEF SubmitInv
    <3>2. Finds("cdns-to-tsv", "incoming", cur[i])
      BY <1>4, <2>1, <2>2, <3>1
    <3>3. Converts("incoming", cur[i], "none")'
      BY <1>0, <3>1, <3>2 DEF Finds
    <3>4. Clear("cdns-to-tsv", "incoming", cur[i])'
      BY <1>0, <2>1, <2>2, <3>1
    <3> QED BY <1>1, <2>2, <3>3, <3>4 DEF SubmitInv
  <2>3. CASE ipc[i] = "add-pcap"
    <3>1. Clear("cdns-to-pcap", "pcap", cur[i]) /\ Links("pcap", cur[i])
      BY <1>1, <2>3 DEF SubmitInv
    <3>2. Finds("cdns-to-pcap", "pcap", cur[i])
      BY <1>4, <2>1, <2>3, <3>1
    <3>3. Links("pcap", cur[i])'
      BY <1>0, <3>1, <3>2 DEF Finds
    <3>4. Clear("cdns-to-pcap", "pcap", cur[i])'
      BY <1>0, <2>1, <2>3, <3>1
    <3> QED BY <1>1, <2>3, <3>3, <3>4 DEF SubmitInv
  <2> QED BY <2>2, <2>3
<1>6. TargetInv'
  <2>1. ASSUME oppc = "add" PROVE Ready(target)'
    <3>1. /\ target \in Jobs /\ target.queue \in Queues /\ target.dir \in PendingDirs
          /\ target.file \in Files /\ target # NoJob
      BY <2>1, JobFacts DEF OperatorType
    <3>2. Ready(target) /\ Clear(target.queue, target.dir, target.file)
      BY <1>1, <2>1 DEF TargetInv
    <3>3. Finds(target.queue, target.dir, target.file)
      <4>1. CASE target.queue \in ConvertQueues
        BY <1>4, <3>1, <3>2, <4>1
      <4>2. CASE target.queue = "import-tsv"
        <5>1. source = "error" /\ target.dir = "incoming"
          BY <1>1, <3>1, <4>2 DEF ListedInv
        <5>2. Targeted("import-tsv", target.file)
          BY <2>1, <4>2, <5>1 DEF Targeted
        <5>3. ~OfEntry(wjob[w], target.queue, target.dir, target.file)
          BY <3>2 DEF Clear
        <5> QED BY <3>1, <4>2, <5>1, <5>2, <5>3 DEF Other
      <4> QED BY <3>1, <4>1, <4>2
    <3> QED BY <1>0, <3>1, <3>2, <3>3 DEF Ready, Finds
  <2> QED BY <1>0, <2>1 DEF TargetInv, Targeted
<1>7. FilesInv' /\ ListedInv'
  BY <1>0, <1>1 DEF FilesInv, ListedInv
<1>8. PcapInv'
  BY <1>0, <1>1 DEF PcapInv
<1> QED BY <1>2, <1>3, <1>5, <1>6, <1>7, <1>8 DEF SafeInv

\* The TSV of a file that is being converted is its worker's alone.
LEMMA WriteSafe ==
    ASSUME TypeOK, OperatorType, OneSource, SafeInv, NEW w \in Workers, Works(w),
           wjob[w].queue = "cdns-to-tsv", NEW c \in Contents,
           \E b \in Contents : Converts(wjob[w].dir, wjob[w].file, b),
           tsv' = [tsv EXCEPT ![wjob[w].dir][wjob[w].file] = c],
           UNCHANGED <<incoming, archive, pending, failed, head, importer, queue, wjob, operator,
                       bond, reload>>,
           \A v \in Workers \ {w} : wpc'[v] = wpc[v],
           \/ c = "part" /\ wpc'[w] = "convert"
           \/ c = "whole" /\ wpc'[w] = "submit"
           \/ c = "none" /\ wpc'[w] = "exit1"
    PROVE  SafeInv'
<1>0. /\ UNCHANGED <<cur, oppc, source, loop, listing, target, commands>>
      /\ OneJobInv /\ TargetInv /\ FailedInv /\ UnseenInv /\ RecordsInv
  BY DEF importer, operator, SafeInv
<1>1. wjob[w] \in Jobs
  BY DEF TypeOK, NoJob
<1>d. PICK d \in PendingDirs, f \in Files : wjob[w].dir = d /\ wjob[w].file = f
  BY <1>1, JobFacts
<1>2. /\ tsv'[d][f] = c
      /\ \A e \in TsvDirs, g \in Files : e # d \/ g # f => tsv'[e][g] = tsv[e][g]
      /\ \A g \in Files : tsv'["error"][g] = tsv["error"][g]
  BY <1>d DEF TypeOK
<1>3. PICK b \in Contents : Converts(d, f, b)
  BY <1>d
<1>4. /\ f \in pending[d] /\ Clear("import-tsv", d, f)
      /\ "cbor" \notin commands =>
            /\ d = "incoming" /\ tsv["error"][f] = "none"
            /\ f \in failed["cdns-to-tsv"] => Targeted("cdns-to-tsv", f)
  BY <1>3 DEF Converts
<1>5. OneJobInv' /\ KeepsClear
  <2>1. \A v \in Workers : Works(v)' => Works(v)
    BY DEF Works
  <2> QED BY <1>0, <2>1, GoOnEntry DEF KeepsClear
<1>6. \A q \in Queues, g \in Files : Targeted(q, g)' <=> Targeted(q, g)
  BY <1>0 DEF Targeted
<1>7. ~Targeted("import-tsv", f)
  <2> SUFFICES ASSUME Targeted("import-tsv", f) PROVE FALSE
    OBVIOUS
  <2>1. source = "error" /\ tsv["error"][f] # "none"
    BY <1>0, <1>1 DEF Targeted, TargetInv
  <2>2. "cbor" \notin commands
    BY <2>1 DEF OneSource
  <2> QED BY <1>4, <2>1, <2>2
<1>8. \A g \in Files : d # "incoming" \/ g # f =>
        /\ TsvKept(g)' <=> TsvKept(g)
        /\ Spared(g)' <=> Spared(g)
  BY <1>0, <1>2 DEF TsvKept, Spared
<1>9. ASSUME NEW q \in Queues, NEW e \in PendingDirs, NEW g \in Files, Other(w, q, e, g)
      PROVE  Finds(q, e, g)
  <2>1. CASE e # d \/ g # f
    <3>1. tsv'[e][g] = tsv[e][g] /\ tsv'["error"][g] = tsv["error"][g]
      BY <1>2, <2>1
    <3>2. \A a \in Contents : Converts(e, g, a) => Converts(e, g, a)'
      BY <1>0, <1>5, <1>6, <3>1 DEF Converts, KeepsClear
    <3>3. Links(e, g) => Links(e, g)'
      BY <1>8, <2>1 DEF Links
    <3>4. Imports(e, g) => Imports(e, g)'
      BY <1>0, <3>1 DEF Imports
    <3> QED BY <1>8, <2>1, <3>2, <3>3, <3>4 DEF Finds
  <2>2. CASE e = d /\ g = f
    <3>1. q = "import-tsv"
      BY <1>9, <1>d, <2>2 DEF Other, OfEntry
    <3> QED BY <1>4, <1>7, <1>9, <2>2, <3>1 DEF Other
  <2> QED BY <2>1, <2>2
<1>10. Step(w)'
  <2>1. Converts(d, f, c)'
    BY <1>0, <1>1, <1>2, <1>4, <1>5, <1>6 DEF Converts, KeepsClear
  <2> QED BY <1>d, <2>1 DEF Step, Works
<1>11. FailedInv'
  <2> SUFFICES ASSUME NEW g \in Files
               PROVE  /\ tsv'["error"][g] # "part"
                      /\ "cbor" \notin commands /\ g \in failed["cdns-to-tsv"]
                         /\ ~Targeted("cdns-to-tsv", g) =>
                            /\ tsv'["incoming"][g] = "none" /\ tsv'["error"][g] = "none"
                            /\ Clear("import-tsv", "incoming", g)'
    BY <1>0, <1>6 DEF FailedInv
  <2>1. "cbor" \notin commands /\ g \in failed["cdns-to-tsv"] /\ ~Targeted("cdns-to-tsv", g)
            => g # f
    BY <1>4
  <2> QED BY <1>0, <1>2, <1>5, <2>1 DEF FailedInv, KeepsClear
<1>13. UnseenInv'
  <2> SUFFICES ASSUME NEW g \in Files
               PROVE  /\ Unseen(g) => Unseen(g)'
                      /\ Untouched(g) => Untouched(g)'
    BY <1>0 DEF UnseenInv, Reached
  <2>1. Unseen(g) => g # f
    BY <1>1, <1>4 DEF Unseen
  <2>2. Untouched(g) => g # f \/ d # "cbor"
    BY <1>4 DEF Untouched
  <2>3. Unseen(g) => Unseen(g)'
    BY <1>2, <1>5, <2>1 DEF Unseen, KeepsClear
  <2>4. Untouched(g) => Untouched(g)'
    BY <1>2, <1>5, <2>2 DEF Untouched, KeepsClear
  <2> QED BY <2>3, <2>4
<1>14. RecordsInv'
  <2>1. \A g \in ImportFiles : g \in Files
    BY PipelineAssumption
  <2> QED BY <1>0, <1>4, <1>8, <2>1 DEF RecordsInv, Reached
<1>15. ASSUME NEW g \in Files
       PROVE  /\ Targeted("cdns-to-tsv", g) =>
                    g \in failed'["cdns-to-tsv"] /\ (g \in pending'["incoming"] \/ TsvKept(g)')
              /\ Targeted("import-tsv", g) =>
                    /\ tsv'["error"][g] # "none"
                    /\ tsv'["incoming"][g] = "whole" \/ head'[g] > 0
  <2>1. CASE g = f
    <3>1. d = "incoming" => f \in pending["incoming"]
      BY <1>4
    <3> QED BY <1>0, <1>7, <1>8, <2>1, <3>1 DEF TargetInv
  <2>2. CASE g # f
    BY <1>0, <1>2, <1>8, <2>2 DEF TargetInv
  <2> QED BY <2>1, <2>2
<1>16. oppc = "add" => Clear(target.queue, target.dir, target.file)'
  <2>1. oppc = "add" =>
            /\ target.queue \in Queues /\ target.dir \in PendingDirs /\ target.file \in Files
    BY JobFacts DEF OperatorType
  <2> QED BY <1>0, <1>5, <2>1 DEF TargetInv, KeepsClear
<1>17. /\ \A j \in Jobs : queue'[j] > 0 => queue[j] > 0
       /\ \A q \in ConvertQueues, e \in PendingDirs, g \in Files :
            Clear(q, e, g) => Clear(q, e, g)'
  BY <1>5 DEF KeepsClear
<1> QED
  BY <1>1, <1>5, <1>9, <1>10, <1>11, <1>13, <1>14, <1>15, <1>16, <1>17, GoOnSafe

\* A TSV is submitted while its worker still has the link.
LEMMA SubmitSafe ==
    ASSUME TypeOK, OperatorType, OneSource, SafeInv, NEW w \in Workers, SubmitTsv(w),
           UNCHANGED <<operator, bond, reload>>
    PROVE  SafeInv'
<1>0. /\ UNCHANGED <<incoming, archive, pending, failed, tsv, head, importer, cur, oppc, source,
                     loop, listing, target, commands, wjob>>
      /\ OneJobInv /\ StepsInv /\ TargetInv /\ FailedInv /\ UnseenInv /\ RecordsInv /\ ListedInv
      /\ \A v \in Workers \ {w} : wpc'[v] = wpc[v]
  BY DEF importer, operator, SafeInv, SubmitTsv, disk, cdnsFiles, tsvFiles, database, Goto, TypeOK
<1>1. /\ wpc[w] = "submit" /\ wpc'[w] = "exit0" /\ wjob[w].queue = "cdns-to-tsv"
      /\ wjob[w] \in Jobs /\ Works(w)
  BY DEF SubmitTsv, At, TypeOK, NoJob, Goto, Works
<1>d. PICK d \in PendingDirs, f \in Files : wjob[w].dir = d /\ wjob[w].file = f
  BY <1>1, JobFacts
<1>2. PICK k \in Jobs : k.queue = "import-tsv" /\ k.dir = d /\ k.file = f /\ Add(k)
  BY <1>d, JobFacts DEF SubmitTsv, NewJob
<1>3. Converts(d, f, "whole")
  BY <1>0, <1>1, <1>d DEF StepsInv, Step
<1>4. /\ f \in pending[d] /\ tsv[d][f] = "whole" /\ Clear("import-tsv", d, f)
      /\ "cbor" \notin commands =>
            /\ d = "incoming" /\ tsv["error"][f] = "none"
            /\ f \in failed["cdns-to-tsv"] => Targeted("cdns-to-tsv", f)
  BY <1>3 DEF Converts
<1>5. /\ OneJobInv'
      /\ \A q \in Queues, e \in PendingDirs, g \in Files :
            Clear(q, e, g)' <=> Clear(q, e, g) /\ ~OfEntry(k, q, e, g)
      /\ \A j \in Jobs : queue'[j] > 0 => j = k \/ queue[j] > 0
  <2>1. \A v \in Workers : Works(v)' <=> Works(v)
    BY <1>0, <1>1 DEF Works
  <2>2. Clear(k.queue, k.dir, k.file)
    BY <1>2, <1>4
  <2> QED BY <1>0, <1>2, <2>1, <2>2, AddEntry
<1>6. \A q \in Queues, g \in Files : Targeted(q, g)' <=> Targeted(q, g)
  BY <1>0 DEF Targeted
<1>7. ~Targeted("import-tsv", f)
  <2> SUFFICES ASSUME Targeted("import-tsv", f) PROVE FALSE
    OBVIOUS
  <2>1. source = "error" /\ tsv["error"][f] # "none"
    BY <1>0, <1>d DEF Targeted, TargetInv
  <2>2. "cbor" \notin commands
    BY <2>1 DEF OneSource
  <2> QED BY <1>4, <2>1, <2>2
<1>8. \A g \in Files : (TsvKept(g)' <=> TsvKept(g)) /\ (Spared(g)' <=> Spared(g))
  BY <1>0 DEF TsvKept, Spared
<1>9. ASSUME NEW q \in Queues, NEW e \in PendingDirs, NEW g \in Files, Other(w, q, e, g)
      PROVE  Finds(q, e, g)
  <2>1. q = "cdns-to-tsv" => e # d \/ g # f
    BY <1>9, <1>1, <1>d DEF Other, OfEntry
  <2>2. q = "cdns-to-tsv" => \A a \in Contents : Converts(e, g, a) => Converts(e, g, a)'
    BY <1>0, <1>2, <1>5, <1>6, <2>1 DEF Converts, OfEntry
  <2>3. Links(e, g) => Links(e, g)'
    BY <1>0, <1>8 DEF Links
  <2>4. Imports(e, g) => Imports(e, g)'
    BY <1>0 DEF Imports
  <2> QED BY <1>0, <1>8, <2>2, <2>3, <2>4 DEF Finds
<1>10. Step(w)'
  <2>1. d = "incoming" => TsvKept(f)'
    BY <1>0, <1>4 DEF TsvKept
  <2> QED BY <1>0, <1>1, <1>4, <1>d, <2>1 DEF Step, Works
<1>11. FailedInv'
  <2> SUFFICES ASSUME NEW g \in Files, "cbor" \notin commands, g \in failed["cdns-to-tsv"],
                      ~Targeted("cdns-to-tsv", g)
               PROVE  Clear("import-tsv", "incoming", g)'
    BY <1>0, <1>6 DEF FailedInv
  <2>1. g # f /\ Clear("import-tsv", "incoming", g)
    BY <1>0, <1>4 DEF FailedInv
  <2> QED BY <1>2, <1>5, <2>1 DEF OfEntry
<1>12. UnseenInv'
  <2> SUFFICES ASSUME NEW g \in Files
               PROVE  /\ Unseen(g) => Unseen(g)'
                      /\ Untouched(g) => Untouched(g)'
    BY <1>0 DEF UnseenInv, Reached
  <2>1. Unseen(g) => g # f
    BY <1>d, <1>4 DEF Unseen
  <2>2. Untouched(g) => g # f \/ d # "cbor"
    BY <1>4 DEF Untouched
  <2>3. Unseen(g) => Unseen(g)'
    BY <1>0, <1>2, <1>5, <2>1 DEF Unseen, OfEntry
  <2>4. Untouched(g) => Untouched(g)'
    BY <1>0, <1>2, <1>5, <2>2 DEF Untouched, OfEntry
  <2> QED BY <2>3, <2>4
<1>13. RecordsInv'
  <2>1. \A g \in ImportFiles : g \in Files
    BY PipelineAssumption
  <2> QED BY <1>0, <1>8, <2>1 DEF RecordsInv, Reached
<1>14. ASSUME NEW g \in Files
       PROVE  /\ Targeted("cdns-to-tsv", g) =>
                    g \in failed'["cdns-to-tsv"] /\ (g \in pending'["incoming"] \/ TsvKept(g)')
              /\ Targeted("import-tsv", g) =>
                    /\ tsv'["error"][g] # "none"
                    /\ tsv'["incoming"][g] = "whole" \/ head'[g] > 0
  BY <1>0, <1>8 DEF TargetInv
<1>15. oppc = "add" => Clear(target.queue, target.dir, target.file)'
  <2> SUFFICES ASSUME oppc = "add" PROVE Clear(target.queue, target.dir, target.file)'
    OBVIOUS
  <2>1. /\ target.queue \in Queues /\ target.dir \in PendingDirs /\ target.file \in Files
        /\ target \in Jobs /\ target # NoJob
    BY JobFacts DEF OperatorType
  <2>2. target.queue = "import-tsv" => source = "error"
    BY <1>0, <2>1 DEF ListedInv
  <2>3. target.queue = "import-tsv" => target.file # f
    BY <1>7, <2>2 DEF Targeted
  <2> QED BY <1>0, <1>2, <1>5, <2>1, <2>3 DEF TargetInv, OfEntry
<1>16. \A j \in Jobs : queue'[j] > 0 => queue[j] > 0 \/ (Ready(j)' /\ j.queue # "cdns-to-pcap")
  <2>1. Ready(k)'
    BY <1>0, <1>2, <1>4 DEF Ready, Imports
  <2> QED BY <1>2, <1>5, <2>1
<1>17. \A q \in ConvertQueues, e \in PendingDirs, g \in Files : Clear(q, e, g) => Clear(q, e, g)'
  BY <1>2, <1>5 DEF OfEntry
<1> QED
  BY <1>0, <1>1, <1>5, <1>9, <1>10, <1>11, <1>12, <1>13, <1>14, <1>15, <1>16, <1>17, GoOnSafe

\* A link goes when its file has become a TSV or a PCAP, or has failed.
LEMMA LeaveLink ==
    ASSUME TypeOK, OperatorType, OneSource, SafeInv, NEW w \in Workers, Works(w),
           wjob[w].queue \in ConvertQueues, NEW d \in PendingDirs, NEW f \in Files,
           wjob[w].dir = d, wjob[w].file = f, Goto(w, "finish"),
           pending' = [pending EXCEPT ![d] = @ \ {f}],
           \/ failed' = failed
           \/ /\ f \notin failed[wjob[w].queue]
              /\ failed' = [failed EXCEPT ![wjob[w].queue] = @ \cup {f}]
              /\ wjob[w].queue = "cdns-to-tsv" => Converts(d, f, "none"),
           wjob[w].queue = "cdns-to-tsv" /\ d = "incoming" /\ failed' = failed => TsvKept(f),
           UNCHANGED <<incoming, archive, tsv, head, importer, queue, wjob, operator, bond, reload>>
    PROVE  SafeInv'
<1>0. /\ UNCHANGED <<cur, oppc, source, loop, listing, target, commands>>
      /\ OneJobInv /\ StepsInv /\ TargetInv /\ FailedInv /\ UnseenInv /\ RecordsInv /\ ListedInv
      /\ PcapInv
      /\ wpc'[w] = "finish" /\ \A v \in Workers \ {w} : wpc'[v] = wpc[v]
  BY DEF importer, operator, SafeInv, Goto, TypeOK
<1>1. wjob[w] \in Jobs
  BY DEF TypeOK, NoJob
<1>2. /\ \A e \in PendingDirs, g \in Files :
            g \in pending[e] /\ (e # d \/ g # f) => g \in pending'[e]
      /\ \A e \in PendingDirs : pending'[e] \subseteq pending[e]
      /\ \A q \in ConvertQueues : failed[q] \subseteq failed'[q]
      /\ \A g \in Files : g \in failed'["cdns-to-tsv"] => g \in failed["cdns-to-tsv"] \/
            (g = f /\ wjob[w].queue = "cdns-to-tsv" /\ failed' # failed)
      /\ \A q \in ConvertQueues, g \in Files : g \in failed'[q] => g \in failed[q] \/ g = f
  BY DEF TypeOK
<1>3. OneJobInv' /\ KeepsClear
  <2>1. \A v \in Workers : Works(v)' => Works(v)
    BY <1>0 DEF Works
  <2> QED BY <1>0, <2>1, GoOnEntry DEF KeepsClear
<1>4. \A q \in Queues, g \in Files : Targeted(q, g)' <=> Targeted(q, g)
  BY <1>0 DEF Targeted
<1>5. ~Clear(wjob[w].queue, d, f)
  BY DEF Clear, OfEntry
<1>6. \A g \in Files : (TsvKept(g)' <=> TsvKept(g)) /\ (Spared(g) => Spared(g)')
  BY <1>2 DEF TsvKept, Spared
<1>7. wjob[w].queue = "cdns-to-pcap" => Links(d, f)
  BY <1>0 DEF StepsInv, Step
<1>8. ASSUME NEW q \in Queues, NEW e \in PendingDirs, NEW g \in Files, Other(w, q, e, g)
      PROVE  Finds(q, e, g)
  <2>1. q # "import-tsv" => e # d \/ g # f
    BY <1>8 DEF Other, OfEntry
  <2>2. ASSUME q # "import-tsv", NEW a \in Contents, Converts(e, g, a)
        PROVE  Converts(e, g, a)'
    <3>1. "cbor" \notin commands /\ g \in failed'["cdns-to-tsv"] => g \in failed["cdns-to-tsv"]
      BY <1>2, <2>1, <2>2 DEF Converts
    <3> QED BY <1>0, <1>2, <1>3, <1>4, <2>1, <2>2, <3>1 DEF Converts, KeepsClear
  <2>3. q # "import-tsv" /\ Links(e, g) => Links(e, g)'
    BY <1>2, <1>6, <2>1 DEF Links
  <2>4. Imports(e, g) => Imports(e, g)'
    BY <1>0 DEF Imports
  <2> QED BY <1>2, <1>6, <2>1, <2>2, <2>3, <2>4 DEF Finds
<1>9. Step(w)'
  BY <1>0 DEF Step, Works
<1>10. FailedInv'
  <2> SUFFICES ASSUME NEW g \in Files, "cbor" \notin commands, g \in failed'["cdns-to-tsv"],
                      ~Targeted("cdns-to-tsv", g)
               PROVE  /\ tsv["incoming"][g] = "none" /\ tsv["error"][g] = "none"
                      /\ Clear("import-tsv", "incoming", g)
    BY <1>0, <1>3, <1>4 DEF FailedInv, KeepsClear
  <2>1. CASE g \in failed["cdns-to-tsv"]
    BY <1>0, <2>1 DEF FailedInv
  <2>2. CASE g \notin failed["cdns-to-tsv"]
    BY <1>2, <2>2 DEF Converts
  <2> QED BY <2>1, <2>2
<1>11. UnseenInv'
  <2> SUFFICES ASSUME NEW g \in Files
               PROVE  /\ Unseen(g) => Unseen(g)'
                      /\ Untouched(g) => Untouched(g)'
    BY <1>0 DEF UnseenInv, Reached
  <2>1. Unseen(g) => g # f
    BY <1>5 DEF Unseen
  <2>2. Unseen(g) => Unseen(g)'
    BY <1>0, <1>2, <1>3, <2>1 DEF Unseen, KeepsClear
  <2>3. Untouched(g) => Untouched(g)'
    BY <1>0, <1>2, <1>3 DEF Untouched, KeepsClear
  <2> QED BY <2>2, <2>3
<1>12. RecordsInv'
  <2> SUFFICES ASSUME NEW g \in ImportFiles, g \in pending["incoming"] \/ Spared(g)
               PROVE  g \in pending'["incoming"] \/ Spared(g)'
    BY <1>0 DEF RecordsInv, Reached
  <2>1. g \in Files
    BY PipelineAssumption
  <2>2. CASE g \in pending'["incoming"] \/ Spared(g)
    BY <1>6, <2>1, <2>2
  <2>3. CASE g \notin pending'["incoming"] /\ g \in pending["incoming"]
    <3>1. g = f /\ d = "incoming"
      BY <1>2, <2>1, <2>3
    <3>2. CASE wjob[w].queue = "cdns-to-pcap"
      BY <1>6, <1>7, <3>1, <3>2 DEF Links
    <3>3. CASE wjob[w].queue = "cdns-to-tsv"
      BY <1>6, <3>1, <3>3 DEF Spared, TypeOK
    <3> QED BY <3>2, <3>3
  <2> QED BY <2>2, <2>3
<1>13. ASSUME NEW g \in Files
       PROVE  /\ Targeted("cdns-to-tsv", g) =>
                    g \in failed'["cdns-to-tsv"] /\ (g \in pending'["incoming"] \/ TsvKept(g)')
              /\ Targeted("import-tsv", g) =>
                    /\ tsv'["error"][g] # "none"
                    /\ tsv'["incoming"][g] = "whole" \/ head'[g] > 0
  <2>1. ASSUME Targeted("cdns-to-tsv", g), g \in pending["incoming"], g \notin pending'["incoming"]
        PROVE  TsvKept(g)
    <3>1. g = f /\ d = "incoming"
      BY <1>2, <2>1
    <3>2. target # NoJob /\ source = "error" /\ target.queue = "cdns-to-tsv"
      BY <2>1 DEF Targeted, OperatorType
    <3>3. loop = 1
      BY <1>0, <3>2 DEF ListedInv
    <3>4. wjob[w].queue = "cdns-to-tsv"
      BY <1>0, <3>1, <3>2, <3>3 DEF PcapInv
    <3>5. f \in failed["cdns-to-tsv"]
      BY <1>0, <2>1, <3>1 DEF TargetInv
    <3> QED BY <3>1, <3>4, <3>5
  <2> QED BY <1>0, <1>2, <1>6, <2>1 DEF TargetInv
<1>14. oppc = "add" => Clear(target.queue, target.dir, target.file)'
  <2>1. oppc = "add" =>
            /\ target.queue \in Queues /\ target.dir \in PendingDirs /\ target.file \in Files
    BY JobFacts DEF OperatorType
  <2> QED BY <1>0, <1>3, <2>1 DEF TargetInv, KeepsClear
<1>15. /\ \A j \in Jobs : queue'[j] > 0 => queue[j] > 0
       /\ \A q \in ConvertQueues, e \in PendingDirs, g \in Files :
            Clear(q, e, g) => Clear(q, e, g)'
  BY <1>3 DEF KeepsClear
<1> QED
  BY <1>0, <1>1, <1>3, <1>8, <1>9, <1>10, <1>11, <1>12, <1>13, <1>14, <1>15, GoOnSafe

\* A TSV goes when its records are in the database, or to the error directory.
LEMMA LeaveTsv ==
    ASSUME TypeOK, OperatorType, OneSource, SafeInv, NEW w \in Workers, Works(w),
           wjob[w].queue = "import-tsv", NEW d \in PendingDirs, NEW f \in Files,
           wjob[w].dir = d, wjob[w].file = f, Goto(w, "finish"),
           \/ head[f] > 0 /\ tsv' = [tsv EXCEPT ![d][f] = "none"]
           \/ ~Refilling(wjob[w]) /\ tsv' = [tsv EXCEPT !["error"][f] = "whole", ![d][f] = "none"],
           UNCHANGED <<incoming, archive, pending, failed, head, importer, queue, wjob, operator,
                       bond,
                       reload>>
    PROVE  SafeInv'
<1>0. /\ UNCHANGED <<cur, oppc, source, loop, listing, target, commands>>
      /\ OneJobInv /\ StepsInv /\ TargetInv /\ FailedInv /\ UnseenInv /\ RecordsInv /\ ListedInv
      /\ wpc'[w] = "finish" /\ \A v \in Workers \ {w} : wpc'[v] = wpc[v]
  BY DEF importer, operator, SafeInv, Goto, TypeOK
<1>1. wjob[w] \in Jobs
  BY DEF TypeOK, NoJob
<1>2. /\ tsv'[d][f] = "none"
      /\ \A e \in PendingDirs, g \in Files : e # d \/ g # f => tsv'[e][g] = tsv[e][g]
      /\ \A g \in Files : tsv'["error"][g] = tsv["error"][g] \/ (g = f /\ tsv'["error"][g] = "whole")
      /\ tsv'["error"][f] = "whole" \/ head[f] > 0
  BY DEF TypeOK
<1>3. OneJobInv' /\ KeepsClear
  <2>1. \A v \in Workers : Works(v)' => Works(v)
    BY <1>0 DEF Works
  <2> QED BY <1>0, <2>1, GoOnEntry DEF KeepsClear
<1>4. \A q \in Queues, g \in Files : Targeted(q, g)' <=> Targeted(q, g)
  BY <1>0 DEF Targeted
<1>5. ~Clear("import-tsv", d, f)
  BY DEF Clear, OfEntry
<1>6. \A g \in Files : (TsvKept(g) => TsvKept(g)') /\ (Spared(g) => Spared(g)')
  <2>1. ASSUME NEW g \in Files, TsvKept(g) PROVE TsvKept(g)'
    BY <1>2, <2>1 DEF TsvKept
  <2> QED BY <2>1 DEF Spared
<1>7. "cbor" \notin commands => d = "incoming"
  BY <1>0 DEF StepsInv, Step, Imports
<1>8. ASSUME NEW q \in Queues, NEW e \in PendingDirs, NEW g \in Files, Other(w, q, e, g)
      PROVE  Finds(q, e, g)
  <2>1. q = "import-tsv" => e # d \/ g # f
    BY <1>8 DEF Other, OfEntry
  <2>2. ASSUME NEW a \in Contents, Converts(e, g, a)
        PROVE  Converts(e, g, a)'
    <3>1. e # d \/ g # f
      BY <1>5, <2>2 DEF Converts
    <3>2. tsv'[e][g] = tsv[e][g]
      BY <1>2, <3>1
    <3>3. "cbor" \notin commands => tsv'["error"][g] = tsv["error"][g]
      BY <1>2, <1>7, <2>2, <3>1 DEF Converts
    <3> QED BY <1>0, <1>3, <1>4, <2>2, <3>2, <3>3 DEF Converts, KeepsClear
  <2>3. Links(e, g) => Links(e, g)'
    BY <1>6 DEF Links
  <2>4. q = "import-tsv" /\ Imports(e, g) => Imports(e, g)'
    BY <1>0, <1>2, <2>1 DEF Imports
  <2> QED BY <1>6, <2>2, <2>3, <2>4 DEF Finds
<1>9. Step(w)'
  BY <1>0 DEF Step, Works
<1>10. FailedInv'
  <2> SUFFICES ASSUME NEW g \in Files
               PROVE  /\ tsv'["error"][g] # "part"
                      /\ "cbor" \notin commands /\ g \in failed["cdns-to-tsv"]
                         /\ ~Targeted("cdns-to-tsv", g) =>
                            /\ tsv'["incoming"][g] = "none" /\ tsv'["error"][g] = "none"
                            /\ Clear("import-tsv", "incoming", g)'
    BY <1>0, <1>4 DEF FailedInv
  <2>1. "cbor" \notin commands /\ g \in failed["cdns-to-tsv"] /\ ~Targeted("cdns-to-tsv", g)
            => g # f
    BY <1>0, <1>5, <1>7 DEF FailedInv
  <2> QED BY <1>0, <1>2, <1>3, <2>1 DEF FailedInv, KeepsClear
<1>11. UnseenInv'
  <2> SUFFICES ASSUME NEW g \in Files
               PROVE  /\ Unseen(g) => Unseen(g)'
                      /\ Untouched(g) => Untouched(g)'
    BY <1>0 DEF UnseenInv, Reached
  <2>1. Unseen(g) => g # f
    BY <1>5 DEF Unseen
  <2>2. Untouched(g) => g # f \/ d # "cbor"
    BY <1>5 DEF Untouched
  <2>3. Unseen(g) => Unseen(g)'
    BY <1>2, <1>3, <2>1 DEF Unseen, KeepsClear
  <2>4. Untouched(g) => Untouched(g)'
    BY <1>2, <1>3, <2>2 DEF Untouched, KeepsClear
  <2> QED BY <2>3, <2>4
<1>12. RecordsInv'
  <2>1. \A g \in ImportFiles : g \in Files
    BY PipelineAssumption
  <2> QED BY <1>0, <1>6, <2>1 DEF RecordsInv, Reached
<1>13. ASSUME NEW g \in Files
       PROVE  /\ Targeted("cdns-to-tsv", g) =>
                    g \in failed'["cdns-to-tsv"] /\ (g \in pending'["incoming"] \/ TsvKept(g)')
              /\ Targeted("import-tsv", g) =>
                    /\ tsv'["error"][g] # "none"
                    /\ tsv'["incoming"][g] = "whole" \/ head'[g] > 0
  <2>1. ASSUME Targeted("import-tsv", g), g = f PROVE head[f] > 0
    <3>1. target \in Jobs /\ target # NoJob
      BY <2>1 DEF Targeted, OperatorType
    <3>2. source = "error" /\ target.queue = "import-tsv" /\ target.file = f
          /\ oppc \in {"add", "unlink"}
      BY <2>1 DEF Targeted
    <3>3. target.dir = "incoming"
      BY <1>0, <3>1, <3>2 DEF ListedInv
    <3>4. d = "incoming"
      BY <1>7, <3>2 DEF OneSource
    <3>5. wjob[w] = [target EXCEPT !.retry = wjob[w].retry]
      BY <1>1, <3>1, <3>2, <3>3, <3>4 DEF Jobs
    <3>6. Refilling(wjob[w])
      BY <3>2, <3>5 DEF Refilling
    <3> QED BY <3>6
  <2>2. Targeted("import-tsv", g) => tsv["error"][g] # "none"
            /\ (tsv["incoming"][g] = "whole" \/ head[g] > 0)
    BY <1>0 DEF TargetInv
  <2> QED BY <1>0, <1>2, <1>6, <2>1, <2>2 DEF TargetInv
<1>14. oppc = "add" => Clear(target.queue, target.dir, target.file)'
  <2>1. oppc = "add" =>
            /\ target.queue \in Queues /\ target.dir \in PendingDirs /\ target.file \in Files
    BY JobFacts DEF OperatorType
  <2> QED BY <1>0, <1>3, <2>1 DEF TargetInv, KeepsClear
<1>15. /\ \A j \in Jobs : queue'[j] > 0 => queue[j] > 0
       /\ \A q \in ConvertQueues, e \in PendingDirs, g \in Files :
            Clear(q, e, g) => Clear(q, e, g)'
  BY <1>3 DEF KeepsClear
<1> QED
  BY <1>0, <1>1, <1>3, <1>8, <1>9, <1>10, <1>11, <1>12, <1>13, <1>14, <1>15, GoOnSafe

LEMMA ConvertSafe ==
    ASSUME TypeOK, OperatorType, OneSource, SafeInv, NEW w \in Workers,
           BeginConvert(w) \/ EndConvert(w) \/ ConvertError(w),
           UNCHANGED <<operator, bond, reload>>
    PROVE  SafeInv'
<1>0. OneJobInv /\ StepsInv /\ TypeOK
  BY DEF SafeInv
<1>1. /\ wpc[w] \in {"start", "test", "convert", "submit"} /\ Works(w)
      /\ wjob[w].queue = "cdns-to-tsv"
      /\ UNCHANGED <<incoming, archive, pending, failed, head, importer, queue, wjob>>
      /\ \A v \in Workers \ {w} : wpc'[v] = wpc[v]
  BY DEF BeginConvert, EndConvert, ConvertError, At, Works, Goto, TypeOK, disk, cdnsFiles,
     database
<1>2. wjob[w] \in Jobs /\ wjob[w].dir \in PendingDirs /\ wjob[w].file \in Files
  BY <1>1, Working
<1>3. Step(w)
  BY <1>0 DEF StepsInv
<1>4. CASE BeginConvert(w)
  <2>1. wpc[w] = "test"
    BY <1>4 DEF BeginConvert, At
  <2>2. Converts(wjob[w].dir, wjob[w].file, "none")
    BY <1>1, <1>3, <2>1 DEF Step
  <2>3. wjob[w].file \in pending[wjob[w].dir] /\ tsv[wjob[w].dir][wjob[w].file] = "none"
    BY <2>2 DEF Converts
  <2>4. /\ tsv' = [tsv EXCEPT ![wjob[w].dir][wjob[w].file] = "part"]
        /\ wpc'[w] = "convert"
    BY <1>4, <2>3 DEF BeginConvert, Goto, TypeOK
  <2> QED BY <1>1, <2>2, <2>4, WriteSafe
<1>5. CASE EndConvert(w)
  <2>1. wpc[w] = "convert"
    BY <1>5 DEF EndConvert, At
  <2>2. Converts(wjob[w].dir, wjob[w].file, "part")
    BY <1>1, <1>3, <2>1 DEF Step
  <2>3. tsv[wjob[w].dir][wjob[w].file] = "part"
    BY <2>2 DEF Converts
  <2>4. ~SharedOutput(w)
    <3> SUFFICES ASSUME NEW v \in Workers \ {w}, At(v, "convert", "cdns-to-tsv"),
                        wjob[v].dir = wjob[w].dir, wjob[v].file = wjob[w].file
                 PROVE  FALSE
      BY DEF SharedOutput
    <3>1. Works(v) /\ Rivals(wjob[v], wjob[w])
      BY <1>1 DEF At, Works, Rivals, OfEntry
    <3> QED BY <1>0, <1>1, <1>2, <3>1, OwnEntry
  <2>5. /\ tsv' = [tsv EXCEPT ![wjob[w].dir][wjob[w].file] = "whole"]
        /\ wpc'[w] = "submit"
    BY <1>5, <2>3, <2>4 DEF EndConvert, Goto, TypeOK
  <2> QED BY <1>1, <2>2, <2>5, WriteSafe
<1>6. CASE ConvertError(w)
  <2>1. wpc[w] \in {"start", "convert", "submit"}
    BY <1>6 DEF ConvertError, At
  <2>2. \E b \in Contents : Converts(wjob[w].dir, wjob[w].file, b)
    BY <1>1, <1>3, <2>1 DEF Step
  <2>3. /\ tsv' = [tsv EXCEPT ![wjob[w].dir][wjob[w].file] = "none"]
        /\ wpc'[w] = "exit1"
    BY <1>6 DEF ConvertError, RemoveTsv, Goto, TypeOK
  <2> QED BY <1>1, <2>2, <2>3, WriteSafe
<1> QED BY <1>4, <1>5, <1>6

LEMMA LeaveSafe ==
    ASSUME TypeOK, OperatorType, OneSource, SafeInv, NEW w \in Workers,
           Unlink(w) \/ (MoveToError(w) /\ ~Refilling(wjob[w])),
           UNCHANGED <<operator, bond, reload>>
    PROVE  SafeInv'
<1>0. OneJobInv /\ StepsInv
  BY DEF SafeInv
<1>1. /\ wpc[w] \in {"exit0", "exit1", "exit2"} /\ Works(w)
      /\ UNCHANGED <<incoming, archive, head, importer, queue, wjob>>
      /\ Goto(w, "finish")
  BY DEF Unlink, MoveToError, Works, database
<1>2. wjob[w] \in Jobs /\ wjob[w].queue \in Queues
  BY <1>1, Working
<1>d. PICK d \in PendingDirs, f \in Files : wjob[w].dir = d /\ wjob[w].file = f
  BY <1>1, Working
<1>3. Step(w)
  BY <1>0 DEF StepsInv
<1>4. CASE wjob[w].queue = "import-tsv"
  <2>1. tsv[d][f] = "whole" /\ (wpc[w] = "exit0" => head[f] > 0)
    BY <1>1, <1>3, <1>4, <1>d DEF Step, Imports
  <2>2. UNCHANGED <<pending, failed>>
    BY <1>4 DEF Unlink, MoveToError
  <2>3. \/ head[f] > 0 /\ tsv' = [tsv EXCEPT ![d][f] = "none"]
        \/ ~Refilling(wjob[w]) /\ tsv' = [tsv EXCEPT !["error"][f] = "whole", ![d][f] = "none"]
    <3>1. CASE Unlink(w)
      BY <1>4, <1>d, <2>1, <3>1 DEF Unlink
    <3>2. CASE MoveToError(w) /\ ~Refilling(wjob[w])
      BY <1>4, <1>d, <2>1, <3>2 DEF MoveToError, TsvOf
    <3> QED BY <3>1, <3>2
  <2> QED BY <1>1, <1>4, <1>d, <2>2, <2>3, LeaveTsv
<1>5. CASE wjob[w].queue \in ConvertQueues
  <2>1. UNCHANGED tsv
    BY <1>5 DEF Unlink, MoveToError
  <2>2. f \in pending[d]
    BY <1>1, <1>3, <1>5, <1>d DEF Step, Links, Converts
  <2>3. CASE Unlink(w)
    <3>1. /\ wpc[w] = "exit0" /\ failed' = failed
          /\ pending' = [pending EXCEPT ![d] = @ \ {f}]
      BY <1>5, <1>d, <2>3 DEF Unlink
    <3>2. wjob[w].queue = "cdns-to-tsv" /\ d = "incoming" => TsvKept(f)
      BY <1>3, <1>d, <3>1 DEF Step
    <3> QED BY <1>1, <1>5, <1>d, <2>1, <3>1, <3>2, LeaveLink
  <2>4. CASE MoveToError(w) /\ f \notin failed[wjob[w].queue]
    <3>1. /\ failed' = [failed EXCEPT ![wjob[w].queue] = @ \cup {f}]
          /\ pending' = [pending EXCEPT ![d] = @ \ {f}]
      BY <1>5, <1>d, <2>2, <2>4 DEF MoveToError
    <3>2. wjob[w].queue = "cdns-to-tsv" => Converts(d, f, "none")
      BY <1>3, <1>d, <2>4 DEF MoveToError, Step
    <3>3. failed' # failed
      BY <1>5, <2>4, <3>1 DEF TypeOK
    <3> QED BY <1>1, <1>5, <1>d, <2>1, <2>4, <3>1, <3>2, <3>3, LeaveLink
  <2>5. CASE MoveToError(w) /\ f \in failed[wjob[w].queue]
    <3>1. UNCHANGED <<pending, failed>>
      BY <1>5, <1>d, <2>5 DEF MoveToError
    <3>2. SameFiles /\ UNCHANGED <<ipc, todo>>
      BY <1>1, <2>1, <3>1 DEF SameFiles, importer
    <3>3. wpc'[w] = "finish" /\ \A v \in Workers \ {w} : wpc'[v] = wpc[v]
      BY <1>1 DEF Goto, TypeOK
    <3>4. Step(w)'
      BY <1>1, <3>3 DEF Step, Works
    <3> QED BY <1>1, <3>2, <3>3, <3>4, QuietSafe
  <2> QED BY <2>3, <2>4, <2>5
<1> QED BY <1>2, <1>4, <1>5

\* What a worker has found is not removed by another, as no other has a job for it.
LEMMA NothingVanishes ==
    ASSUME TypeOK, SeenType, SafeInv, NEW w \in Workers
    PROVE  ~Vanished(w)
<1> SUFFICES ASSUME w \in seen PROVE FileThere(w)
  BY DEF Vanished
<1>1. wpc[w] \in {"exit0", "exit1", "exit2"}
  BY DEF SeenType, Removes
<1>2. wjob[w] \in Jobs /\ wjob[w].queue \in Queues
  BY <1>1, Working, JobFacts
<1>3. Step(w) /\ Works(w)
  BY <1>1 DEF SafeInv, StepsInv, Works
<1> QED
  BY <1>1, <1>2, <1>3 DEF Step, Converts, Links, Imports, FileThere, TsvOf

LEMMA WorkersSafe ==
    ASSUME RecoveryInv, OneSource, SafeInv, NEW w \in Workers, LoopNext(w), ~Look(w),
           UNCHANGED <<operator, reload>>
    PROVE  SafeInv' /\ OneSource'
<1>0. TypeOK /\ OperatorType /\ SeenType
  BY DEF RecoveryInv
<1>1. ~Vanished(w)
  BY <1>0, NothingVanishes
<1>2. bond[w] = "ok"
  BY DEF OneSource
<1>3. /\ Take(w) \/ InfraExit(w) \/ ScriptNext(w) \/ LiveExit(w)
      /\ UNCHANGED <<operator, bond, reload>>
  BY <1>1, <1>2 DEF LoopNext, BondNext, CutExit, OrphanEnds
<1>4. OneSource'
  BY <1>3 DEF OneSource, operator
<1>5. SafeInv'
  BY <1>0, <1>3, TakeSafe, ReturnSafe, AnswerSafe, QuietStep, SubmitSafe, ConvertSafe,
     LeaveSafe DEF ScriptNext, LiveExit, Removal, Quiet
<1> QED BY <1>4, <1>5

-----------------------------------------------------------------------------
(* One command beside the import: the import                               *)

\* A file without a link, or without a TSV, has no job there.
LEMMA UnlinkedClear ==
    ASSUME TypeOK, OperatorType, SafeInv, NEW q \in ConvertQueues, NEW d \in PendingDirs,
           NEW f \in Files, f \notin pending[d]
    PROVE  Clear(q, d, f) /\ (oppc = "add" => ~OfEntry(target, q, d, f))
<1>0. StepsInv /\ ReadyInv /\ TargetInv
  BY DEF SafeInv
<1>1. ASSUME NEW j \in Jobs, Ready(j) PROVE ~OfEntry(j, q, d, f)
  BY <1>1, JobFacts DEF Ready, Converts, Links, OfEntry
<1>2. ASSUME NEW w \in Workers, Works(w) PROVE ~OfEntry(wjob[w], q, d, f)
  <2>1. CASE wjob[w] = NoJob
    BY <2>1 DEF NoJob, OfEntry
  <2>2. CASE wjob[w] \in Jobs
    <3>1. Step(w)
      BY <1>0 DEF StepsInv
    <3> QED BY <1>2, <2>2, <3>1, JobFacts DEF Step, Converts, Links, OfEntry, Works
  <2> QED BY <2>1, <2>2 DEF TypeOK
<1>3. oppc = "add" => target \in Jobs
  BY DEF OperatorType
<1> QED BY <1>0, <1>1, <1>2, <1>3 DEF ReadyInv, TargetInv, Clear

LEMMA NoTsvClear ==
    ASSUME TypeOK, SafeInv, NEW d \in PendingDirs, NEW f \in Files, tsv[d][f] = "none"
    PROVE  Clear("import-tsv", d, f)
<1>0. StepsInv /\ ReadyInv
  BY DEF SafeInv
<1>1. ASSUME NEW j \in Jobs, Ready(j) PROVE ~OfEntry(j, "import-tsv", d, f)
  BY <1>1 DEF Ready, Imports, OfEntry
<1>2. ASSUME NEW w \in Workers, Works(w) PROVE ~OfEntry(wjob[w], "import-tsv", d, f)
  <2>1. Step(w)
    BY <1>0 DEF StepsInv
  <2> QED BY <1>2, <2>1 DEF Step, Imports, OfEntry
<1> QED BY <1>0, <1>1, <1>2 DEF ReadyInv, Clear

\* Job j waits, or a worker works on it.
Live(j) == queue[j] > 0 \/ \E w \in Workers : wjob[w] = j /\ Works(w)

\* Workers that do nothing, while no file that one of them works on gets worse.
LEMMA AsideSteps ==
    ASSUME TypeOK, SafeInv, UNCHANGED worker,
           \A j \in Jobs : Live(j) => Finds(j.queue, j.dir, j.file),
           \A j \in Jobs : queue'[j] > 0 => queue[j] > 0 \/ Ready(j)'
    PROVE  StepsInv' /\ ReadyInv'
<1>0. StepsInv /\ ReadyInv /\ UNCHANGED <<wpc, wjob>>
  BY DEF SafeInv, worker
<1>1. ASSUME NEW v \in Workers, wjob[v] # NoJob, Works(v)
      PROVE  Finds(wjob[v].queue, wjob[v].dir, wjob[v].file)
  BY <1>1 DEF TypeOK, Live
<1>2. ASSUME NEW j \in Jobs, queue[j] > 0 PROVE Ready(j)'
  <2>1. Finds(j.queue, j.dir, j.file)
    BY <1>2 DEF Live
  <2> QED BY <1>0, <1>2, <2>1, FindsReady DEF ReadyInv
<1>3. StepsInv'
  BY <1>0, <1>1, FindsStep DEF StepsInv
<1>4. ReadyInv'
  BY <1>2 DEF ReadyInv
<1> QED BY <1>3, <1>4

LEMMA AsideAll ==
    ASSUME TypeOK, SafeInv, UNCHANGED worker,
           \A q \in Queues, d \in PendingDirs, f \in Files : Finds(q, d, f),
           \A j \in Jobs : queue'[j] > 0 => queue[j] > 0 \/ Ready(j)'
    PROVE  StepsInv' /\ ReadyInv'
<1>1. \A j \in Jobs : Finds(j.queue, j.dir, j.file)
  BY JobFacts
<1> QED BY <1>1, AsideSteps

\* Links that come about leave every job what it finds.
LEMMA GrowsFinds ==
    ASSUME UNCHANGED <<failed, tsv, head, commands, queue, worker>>,
           \A d \in PendingDirs : pending[d] \subseteq pending'[d],
           \A q \in Queues, f \in Files : Targeted(q, f) => Targeted(q, f)'
    PROVE  /\ \A q \in Queues, d \in PendingDirs, f \in Files : Finds(q, d, f)
           /\ \A q \in Queues, d \in PendingDirs, f \in Files : Clear(q, d, f)' <=> Clear(q, d, f)
           /\ \A f \in Files : (TsvKept(f)' <=> TsvKept(f)) /\ (Spared(f)' <=> Spared(f))
           /\ OneJobInv => OneJobInv'
           /\ \A f \in Files, c \in Contents :
                Converts("incoming", f, c) => Converts("incoming", f, c)'
           /\ \A f \in Files : Links("pcap", f) => Links("pcap", f)'
<1>1. UNCHANGED <<wpc, wjob>>
  BY DEF worker
<1>2. \A q \in Queues, d \in PendingDirs, f \in Files : Clear(q, d, f)' <=> Clear(q, d, f)
  BY <1>1 DEF Clear, OfEntry, Works
<1>3. OneJobInv => OneJobInv'
  BY <1>1 DEF OneJobInv, Rivals, OfEntry, Works
<1>4. \A f \in Files : (TsvKept(f)' <=> TsvKept(f)) /\ (Spared(f)' <=> Spared(f))
  BY DEF TsvKept, Spared
<1>5. ASSUME NEW d \in PendingDirs, NEW f \in Files
      PROVE  /\ \A c \in Contents : Converts(d, f, c) => Converts(d, f, c)'
             /\ Links(d, f) => Links(d, f)'
             /\ Imports(d, f) => Imports(d, f)'
             /\ f \in pending[d] => f \in pending'[d]
  BY <1>2, <1>4 DEF Converts, Links, Imports
<1>6. ASSUME NEW q \in Queues, NEW d \in PendingDirs, NEW f \in Files
      PROVE  Finds(q, d, f)
  BY <1>4, <1>5 DEF Finds
<1> QED BY <1>2, <1>3, <1>4, <1>5, <1>6

\* The import leaves the workers and the operator alone.
LEMMA ImporterRest ==
    ASSUME TypeOK, OperatorType, SafeInv, UNCHANGED <<failed, tsv, head, queue, worker>>,
           UNCHANGED <<operator, bond, reload>>,
           \A d \in PendingDirs : pending[d] \subseteq pending'[d]
    PROVE  /\ OneJobInv' /\ StepsInv' /\ ReadyInv' /\ TargetInv' /\ FailedInv' /\ ListedInv'
           /\ PcapInv'
<1>0. /\ UNCHANGED <<oppc, source, loop, listing, target, commands, wpc, wjob>>
      /\ OneJobInv /\ StepsInv /\ ReadyInv /\ TargetInv /\ FailedInv /\ ListedInv /\ PcapInv
  BY DEF operator, worker, SafeInv
<1>1. \A q \in Queues, f \in Files : Targeted(q, f)' <=> Targeted(q, f)
  BY <1>0 DEF Targeted
<1>2. /\ \A q \in Queues, d \in PendingDirs, f \in Files : Finds(q, d, f)
      /\ \A q \in Queues, d \in PendingDirs, f \in Files : Clear(q, d, f)' <=> Clear(q, d, f)
      /\ \A f \in Files : (TsvKept(f)' <=> TsvKept(f)) /\ (Spared(f)' <=> Spared(f))
      /\ OneJobInv'
  BY <1>0, <1>1, GrowsFinds
<1>3. StepsInv' /\ ReadyInv'
  BY <1>2, AsideAll
<1>4. TargetInv'
  <2>1. oppc = "add" =>
            /\ target \in Jobs /\ target.queue \in Queues /\ target.dir \in PendingDirs
            /\ target.file \in Files
    BY JobFacts DEF OperatorType
  <2>2. oppc = "add" => Ready(target)' /\ Clear(target.queue, target.dir, target.file)'
    <3> SUFFICES ASSUME oppc = "add"
                 PROVE  Ready(target)' /\ Clear(target.queue, target.dir, target.file)'
      OBVIOUS
    <3>1. Finds(target.queue, target.dir, target.file)
          /\ (Clear(target.queue, target.dir, target.file)'
              <=> Clear(target.queue, target.dir, target.file))
      BY <1>0, <1>2, <2>1
    <3> QED BY <1>0, <2>1, <3>1 DEF TargetInv, Ready, Finds
  <2>3. \A f \in Files :
            /\ Targeted("cdns-to-tsv", f)' =>
                f \in failed["cdns-to-tsv"] /\ (f \in pending'["incoming"] \/ TsvKept(f)')
            /\ Targeted("import-tsv", f)' =>
                /\ tsv["error"][f] # "none"
                /\ tsv["incoming"][f] = "whole" \/ head[f] > 0
    BY <1>0, <1>1, <1>2 DEF TargetInv
  <2> QED BY <1>0, <2>2, <2>3 DEF TargetInv
<1>5. FailedInv'
  BY <1>0, <1>1, <1>2 DEF FailedInv
<1>6. ListedInv' /\ PcapInv'
  BY <1>0 DEF ListedInv, PcapInv
<1> QED BY <1>2, <1>3, <1>4, <1>5, <1>6

\* A file arrives, or the import goes from one file to the next.
LEMMA BetweenSafe ==
    ASSUME TypeOK, TypeOK', OperatorType, SafeInv, OneImporter,
           \/ \E f \in Files : Arrive(f)
           \/ \E i \in Importers : List(i) \/ Rename(i) \/ Finish(i),
           UNCHANGED <<operator, bond, reload>>
    PROVE  SafeInv'
<1>0. /\ UNCHANGED <<pending, failed, tsv, head, queue, worker>>
      /\ FilesInv /\ UnseenInv /\ RecordsInv
  BY DEF Arrive, List, Rename, Finish, SafeInv, disk, cdnsFiles, tsvFiles, database
<1>1. /\ OneJobInv' /\ StepsInv' /\ ReadyInv' /\ TargetInv' /\ FailedInv' /\ ListedInv'
      /\ PcapInv'
  BY <1>0, ImporterRest
<1>2. \A f \in Files : Reached(f)' <=> Reached(f)
  <2>1. CASE \E f \in Files : Arrive(f)
    BY <2>1 DEF Arrive, Reached, importer
  <2>2. CASE \E i \in Importers : List(i) \/ Finish(i)
    BY <2>2 DEF List, Finish, Reached, disk, cdnsFiles
  <2>3. CASE \E i \in Importers : Rename(i)
    <3>1. PICK i \in Importers : Rename(i)
      BY <2>3
    <3>2. cur[i] \in incoming /\ cur[i] \in Files /\ archive' = archive \cup {cur[i]}
          /\ cur'[i] = NoFile
      BY <1>0, <3>1, PipelineAssumption DEF Rename, FilesInv, TypeOK
    <3> QED BY <3>2, PipelineAssumption DEF OneImporter, Reached
  <2> QED BY <2>1, <2>2, <2>3
<1>3. FilesInv'
  <2>1. CASE \E f \in Files : Arrive(f)
    BY <1>0, <2>1 DEF Arrive, FilesInv, importer, TypeOK
  <2>2. CASE \E i \in Importers : List(i) \/ Rename(i) \/ Finish(i)
    <3>1. PICK i \in Importers : List(i) \/ Rename(i) \/ Finish(i)
      BY <2>2
    <3>2. CASE List(i) \/ Finish(i)
      BY <1>0, <3>2, PipelineAssumption
         DEF OneImporter, List, Finish, FilesInv, TypeOK, disk, cdnsFiles
    <3>3. CASE Rename(i)
      BY <1>0, <3>3, PipelineAssumption DEF OneImporter, Rename, FilesInv, TypeOK
    <3> QED BY <3>1, <3>2, <3>3
  <2> QED BY <2>1, <2>2
<1>4. SubmitInv'
  <2>1. \A i \in Importers : ipc'[i] \in {"add-tsv", "add-pcap"} =>
            ipc'[i] = ipc[i] /\ cur'[i] = cur[i]
    BY DEF OneImporter, Arrive, List, Rename, Finish, TypeOK, importer
  <2>2. /\ \A q \in Queues, d \in PendingDirs, f \in Files : Clear(q, d, f)' <=> Clear(q, d, f)
        /\ \A f \in Files, c \in Contents :
                Converts("incoming", f, c) => Converts("incoming", f, c)'
        /\ \A f \in Files : Links("pcap", f) => Links("pcap", f)'
    <3>1. \A q \in Queues, f \in Files : Targeted(q, f)' <=> Targeted(q, f)
      BY DEF Targeted, operator
    <3> QED BY <1>0, <3>1, GrowsFinds DEF operator
  <2>3. SubmitInv /\ UNCHANGED <<oppc, target>>
    BY DEF SafeInv, operator
  <2> SUFFICES ASSUME NEW i \in Importers, ipc'[i] \in {"add-tsv", "add-pcap"}
               PROVE  /\ ipc[i] = "add-tsv" =>
                            /\ Clear("cdns-to-tsv", "incoming", cur[i])'
                            /\ Converts("incoming", cur[i], "none")'
                            /\ oppc = "add" => ~OfEntry(target, "cdns-to-tsv", "incoming", cur[i])
                      /\ ipc[i] = "add-pcap" =>
                            /\ Clear("cdns-to-pcap", "pcap", cur[i])' /\ Links("pcap", cur[i])'
                            /\ oppc = "add" => ~OfEntry(target, "cdns-to-pcap", "pcap", cur[i])
    BY <2>1, <2>3 DEF SubmitInv, OfEntry
  <2>4. PICK f \in Files : f = cur[i]
    BY <2>1 DEF TypeOK
  <2>5. cur'[i] = f
    BY <2>1, <2>4
  <2> QED BY <2>2, <2>3, <2>4, <2>5 DEF SubmitInv
<1>5. UnseenInv'
  <2> SUFFICES ASSUME NEW f \in Files
               PROVE  /\ Unseen(f) => Unseen(f)'
                      /\ Untouched(f) => Untouched(f)'
    BY <1>0, <1>2 DEF UnseenInv, operator
  <2>1. \A q \in Queues, d \in PendingDirs : Clear(q, d, f)' <=> Clear(q, d, f)
    BY <1>0 DEF Clear, OfEntry, Works, worker
  <2> QED BY <1>0, <2>1 DEF Unseen, Untouched
<1>6. RecordsInv'
  BY <1>0, <1>2, PipelineAssumption DEF RecordsInv, Spared, TsvKept
<1> QED BY <1>1, <1>3, <1>4, <1>5, <1>6 DEF SafeInv

LEMMA LinkIncomingSafe ==
    ASSUME TypeOK, OperatorType, SafeInv, OneImporter, NEW i \in Importers, LinkIncoming(i),
           UNCHANGED <<operator, bond, reload>>
    PROVE  SafeInv'
<1>0. /\ UNCHANGED <<archive, incoming, failed, tsv, head, queue, worker>>
      /\ FilesInv /\ UnseenInv /\ RecordsInv /\ SubmitInv
      /\ UNCHANGED <<oppc, source, loop, listing, target, commands>>
  BY DEF LinkIncoming, SafeInv, tsvFiles, database, operator
<1>1. PICK f \in todo[i] :
        /\ ipc[i] = "next" /\ todo' = [todo EXCEPT ![i] = @ \ {f}]
        /\ cur' = [cur EXCEPT ![i] = f]
        /\ \/ /\ f \in ImportFiles /\ Linkable(incoming, "incoming", f)
              /\ pending' = [pending EXCEPT !["incoming"] = @ \cup {f}]
              /\ ipc' = [ipc EXCEPT ![i] = "add-tsv"]
           \/ /\ ~(f \in ImportFiles /\ Linkable(incoming, "incoming", f))
              /\ ipc' = [ipc EXCEPT ![i] = "pcap"] /\ UNCHANGED pending
  BY DEF LinkIncoming
<1>2. /\ f \in incoming \ archive /\ f \in Files /\ f # NoFile
      /\ cur[i] = NoFile /\ ~Reached(f)
      /\ cur'[i] = f /\ todo'[i] = todo[i] \ {f}
      /\ ipc'[i] \in {"add-tsv", "pcap"}
  BY <1>0, <1>1, PipelineAssumption DEF OneImporter, FilesInv, TypeOK, Reached
<1>3. Unseen(f)
  BY <1>0, <1>2 DEF UnseenInv
<1>4. /\ \A g \in Files \ {f} : g \in pending'["incoming"] <=> g \in pending["incoming"]
      /\ pending'["pcap"] = pending["pcap"] /\ pending'["cbor"] = pending["cbor"]
      /\ pending["incoming"] \subseteq pending'["incoming"]
      /\ f \in ImportFiles => f \in pending'["incoming"]
      /\ ipc'[i] = "add-tsv" => f \in pending'["incoming"]
  BY <1>1, <1>2, <1>3 DEF TypeOK, Linkable, Unseen
<1>5. \A g \in Files : Reached(g)' <=> Reached(g) \/ g = f
  BY <1>0, <1>1, <1>2, PipelineAssumption DEF OneImporter, Reached
<1>6. FilesInv'
  BY <1>0, <1>1, <1>2 DEF OneImporter, FilesInv
<1>7. /\ OneJobInv' /\ StepsInv' /\ ReadyInv' /\ TargetInv' /\ FailedInv' /\ ListedInv'
      /\ PcapInv'
  BY <1>0, <1>4, ImporterRest
<1>8. \A q \in Queues, d \in PendingDirs, g \in Files : Clear(q, d, g)' <=> Clear(q, d, g)
  BY <1>0 DEF Clear, OfEntry, Works, worker
<1>9. SubmitInv'
  <2>1. oppc = "add" => ~OfEntry(target, "cdns-to-tsv", "incoming", f)
    BY <1>2, <1>3, UnlinkedClear DEF Unseen
  <2>2. Clear("cdns-to-tsv", "incoming", f)'
    BY <1>2, <1>3, <1>8 DEF Unseen
  <2>3. ipc'[i] = "add-tsv" => Converts("incoming", f, "none")'
    BY <1>0, <1>2, <1>3, <1>4, <1>8 DEF Unseen, Converts
  <2> QED BY <1>0, <1>2, <2>1, <2>2, <2>3 DEF OneImporter, SubmitInv, OfEntry
<1>10. UnseenInv'
  <2> SUFFICES ASSUME NEW g \in Files
               PROVE  /\ g # f /\ Unseen(g) => Unseen(g)'
                      /\ Untouched(g) => Untouched(g)'
    BY <1>0, <1>5 DEF UnseenInv
  <2> QED BY <1>0, <1>2, <1>4, <1>8 DEF Unseen, Untouched
<1>11. RecordsInv'
  BY <1>0, <1>2, <1>4, <1>5, PipelineAssumption DEF RecordsInv, Spared, TsvKept
<1> QED BY <1>6, <1>7, <1>9, <1>10, <1>11 DEF SafeInv

LEMMA LinkPcapSafe ==
    ASSUME TypeOK, OperatorType, SafeInv, OneImporter, NEW i \in Importers, LinkPcap(i),
           UNCHANGED <<operator, bond, reload>>
    PROVE  SafeInv'
<1>0. /\ UNCHANGED <<archive, incoming, failed, tsv, head, queue, worker, todo, cur>>
      /\ FilesInv /\ UnseenInv /\ RecordsInv /\ SubmitInv
      /\ UNCHANGED <<oppc, source, loop, listing, target, commands>>
  BY DEF LinkPcap, SafeInv, tsvFiles, database, operator
<1>1. PICK f \in Files : f = cur[i] /\ f # NoFile /\ ipc[i] = "pcap"
  BY PipelineAssumption DEF LinkPcap, TypeOK
<1>2. /\ ipc'[i] \in {"add-pcap", "rename"}
      /\ \A e \in PendingDirs, g \in Files :
            g \in pending'[e] <=> g \in pending[e]
                                  \/ (e = "pcap" /\ g = f /\ ipc'[i] = "add-pcap")
      /\ \A e \in PendingDirs : pending[e] \subseteq pending'[e]
      /\ ipc'[i] = "add-pcap" => f \notin pending["pcap"]
      /\ pending'["incoming"] = pending["incoming"] /\ pending'["cbor"] = pending["cbor"]
  BY <1>1 DEF LinkPcap, Linkable, TypeOK
<1>3. \A g \in Files : Reached(g)' <=> Reached(g)
  BY <1>0 DEF Reached
<1>4. FilesInv'
  BY <1>0 DEF FilesInv
<1>5. /\ OneJobInv' /\ StepsInv' /\ ReadyInv' /\ TargetInv' /\ FailedInv' /\ ListedInv'
      /\ PcapInv'
  BY <1>0, <1>2, ImporterRest
<1>6. \A q \in Queues, d \in PendingDirs, g \in Files : Clear(q, d, g)' <=> Clear(q, d, g)
  BY <1>0 DEF Clear, OfEntry, Works, worker
<1>7. SubmitInv'
  <2>1. ipc'[i] = "add-pcap" =>
            /\ Clear("cdns-to-pcap", "pcap", f)
            /\ oppc = "add" => ~OfEntry(target, "cdns-to-pcap", "pcap", f)
    BY <1>2, UnlinkedClear
  <2>2. ipc'[i] = "add-pcap" => Links("pcap", f)'
    BY <1>2 DEF Links
  <2> QED BY <1>0, <1>1, <1>2, <1>6, <2>1, <2>2 DEF OneImporter, SubmitInv, OfEntry
<1>8. UnseenInv'
  <2>1. \A g \in Files : ~Reached(g) => g # f
    BY <1>1 DEF Reached
  <2> SUFFICES ASSUME NEW g \in Files
               PROVE  /\ g # f /\ Unseen(g) => Unseen(g)'
                      /\ Untouched(g) => Untouched(g)'
    BY <1>0, <1>3, <2>1 DEF UnseenInv
  <2> QED BY <1>0, <1>2, <1>6 DEF Unseen, Untouched
<1>9. RecordsInv'
  BY <1>0, <1>2, <1>3, PipelineAssumption DEF RecordsInv, Spared, TsvKept
<1> QED BY <1>4, <1>5, <1>7, <1>8, <1>9 DEF SafeInv

\* The job for a link that has been made is submitted.
LEMMA AddCdnsSafe ==
    ASSUME TypeOK, OperatorType, SafeInv, OneImporter, NEW i \in Importers,
           AddCdnsToTsv(i) \/ AddCdnsToPcap(i), UNCHANGED <<operator, bond, reload>>
    PROVE  SafeInv'
<1>0. /\ UNCHANGED <<disk, pending, archive, incoming, failed, tsv, head, worker, wpc, wjob,
                     todo, cur>>
      /\ FilesInv /\ UnseenInv /\ RecordsInv /\ SubmitInv /\ TargetInv /\ FailedInv /\ ListedInv
      /\ PcapInv /\ OneJobInv
      /\ UNCHANGED <<oppc, source, loop, listing, target, commands>>
  BY DEF AddCdnsToTsv, AddCdnsToPcap, SafeInv, disk, cdnsFiles, tsvFiles, database, operator,
     worker
<1>1. PICK f \in Files, k \in Jobs :
        /\ f = cur[i] /\ f # NoFile
        /\ k.file = f /\ Add(k) /\ k.queue \in ConvertQueues
        /\ \/ ipc[i] = "add-tsv" /\ k.queue = "cdns-to-tsv" /\ k.dir = "incoming"
           \/ ipc[i] = "add-pcap" /\ k.queue = "cdns-to-pcap" /\ k.dir = "pcap"
  <2>1. cur[i] \in Files /\ cur[i] # NoFile
    BY PipelineAssumption DEF AddCdnsToTsv, AddCdnsToPcap, TypeOK
  <2>2. CASE AddCdnsToTsv(i)
    <3> DEFINE k == NewJob("cdns-to-tsv", "incoming", cur[i])
    <3>1. /\ k \in Jobs /\ k.file = cur[i] /\ k.queue = "cdns-to-tsv" /\ k.dir = "incoming"
      BY <2>1, JobFacts DEF NewJob
    <3>2. Add(k) /\ ipc[i] = "add-tsv"
      BY <2>2 DEF AddCdnsToTsv
    <3> HIDE DEF k
    <3> QED BY <2>1, <3>1, <3>2
  <2>3. CASE AddCdnsToPcap(i)
    <3> DEFINE k == NewJob("cdns-to-pcap", "pcap", cur[i])
    <3>1. /\ k \in Jobs /\ k.file = cur[i] /\ k.queue = "cdns-to-pcap" /\ k.dir = "pcap"
      BY <2>1, JobFacts DEF NewJob
    <3>2. Add(k) /\ ipc[i] = "add-pcap"
      BY <2>3 DEF AddCdnsToPcap
    <3> HIDE DEF k
    <3> QED BY <2>1, <3>1, <3>2
  <2> QED BY <2>2, <2>3
<1>2. /\ Clear(k.queue, k.dir, f) /\ Ready(k)
      /\ oppc = "add" => ~OfEntry(target, k.queue, k.dir, f)
  BY <1>0, <1>1 DEF SubmitInv, Ready
<1>3. /\ OneJobInv'
      /\ \A q \in Queues, d \in PendingDirs, g \in Files :
            Clear(q, d, g)' <=> Clear(q, d, g) /\ ~OfEntry(k, q, d, g)
      /\ \A j \in Jobs : queue'[j] > 0 => j = k \/ queue[j] > 0
  <2>1. \A v \in Workers : Works(v)' <=> Works(v)
    BY <1>0 DEF Works
  <2> QED BY <1>0, <1>1, <1>2, <2>1, AddEntry
<1>4. \A d \in PendingDirs, g \in Files : Clear("import-tsv", d, g)' <=> Clear("import-tsv", d, g)
  BY <1>1, <1>3 DEF OfEntry
<1>5. \A q \in Queues, g \in Files : Targeted(q, g)' <=> Targeted(q, g)
  BY <1>0 DEF Targeted
<1>6. \A g \in Files : (TsvKept(g)' <=> TsvKept(g)) /\ (Spared(g)' <=> Spared(g))
  BY <1>0 DEF TsvKept, Spared
<1>7. \A d \in PendingDirs, g \in Files :
        /\ \A c \in Contents : Converts(d, g, c)' <=> Converts(d, g, c)
        /\ Links(d, g)' <=> Links(d, g)
        /\ Imports(d, g)' <=> Imports(d, g)
  BY <1>0, <1>4, <1>5, <1>6 DEF Converts, Links, Imports
<1>8. \A q \in Queues, d \in PendingDirs, g \in Files : Finds(q, d, g)
  BY <1>0, <1>6, <1>7 DEF Finds
<1>9. StepsInv' /\ ReadyInv'
  <2>1. Ready(k)'
    BY <1>1, <1>2, <1>8, FindsReady
  <2> QED BY <1>0, <1>3, <1>8, <2>1, AsideAll
<1>10. SubmitInv'
  <2>1. ipc'[i] \notin {"add-tsv", "add-pcap"}
    BY DEF AddCdnsToTsv, AddCdnsToPcap, TypeOK
  <2> QED BY <2>1 DEF OneImporter, SubmitInv
<1>11. TargetInv'
  <2>1. ASSUME oppc = "add"
        PROVE  Ready(target)' /\ Clear(target.queue, target.dir, target.file)'
    <3>1. /\ target \in Jobs /\ target.queue \in Queues /\ target.dir \in PendingDirs
          /\ target.file \in Files
      BY <2>1, JobFacts DEF OperatorType
    <3>2. Ready(target)'
      BY <1>0, <1>8, <2>1, <3>1, FindsReady DEF TargetInv
    <3>3. ~OfEntry(k, target.queue, target.dir, target.file)
      BY <1>1, <1>2, <2>1, <3>1 DEF OfEntry
    <3> QED BY <1>0, <1>3, <2>1, <3>1, <3>2, <3>3 DEF TargetInv
  <2> QED BY <1>0, <1>5, <1>6, <2>1 DEF TargetInv
<1>12. FailedInv'
  BY <1>0, <1>4, <1>5 DEF FailedInv
<1>13. UnseenInv'
  <2>1. \A g \in Files : ~Reached(g) => g # f
    BY <1>1 DEF Reached
  <2>2. \A g \in Files : Reached(g)' <=> Reached(g)
    BY <1>0 DEF Reached
  <2> SUFFICES ASSUME NEW g \in Files
               PROVE  /\ g # f /\ Unseen(g) => Unseen(g)'
                      /\ Untouched(g) => Untouched(g)'
    BY <1>0, <2>1, <2>2 DEF UnseenInv
  <2>3. \A q \in Queues, d \in PendingDirs :
            (g # f \/ d = "cbor") /\ Clear(q, d, g) => Clear(q, d, g)'
    BY <1>1, <1>3 DEF OfEntry
  <2> QED BY <1>0, <2>3 DEF Unseen, Untouched
<1>14. RecordsInv'
  BY <1>0, <1>6, PipelineAssumption DEF RecordsInv, Reached
<1>15. FilesInv' /\ ListedInv' /\ PcapInv'
  BY <1>0, <1>1, <1>3 DEF FilesInv, ListedInv, PcapInv
<1> QED
  BY <1>3, <1>9, <1>10, <1>11, <1>12, <1>13, <1>14, <1>15 DEF SafeInv

-----------------------------------------------------------------------------
(* One command beside the import: the command                              *)

LEMMA NothingFails == OneCommand /\ RecoveryInv => ~FaultNext
<1> SUFFICES ASSUME OneCommand, RecoveryInv, FaultNext PROVE FALSE
  OBVIOUS
<1>1. faults < MaxFaults
  BY DEF FaultNext, GearmanRestarts, HostCrashes, WorkerDies, ImportDies, SubmitUnanswered,
     Fault
<1>2. MaxFaults = 0 /\ faults \in 0..MaxFaults
  BY DEF OneCommand, RecoveryInv, FaultType
<1> QED BY <1>1, <1>2

LEMMA FirstCommand ==
    ASSUME OneCommand, RecoveryInv, RunCommand
    PROVE  commands = {} /\ \E s \in Sources : Run(s) /\ commands' = {s}
<1>1. /\ Sources \subseteq AllSources /\ commands \subseteq Sources
      /\ Cardinality(commands) < MaxCommands /\ MaxCommands \in Nat /\ MaxCommands <= 1
  BY RecoveryAssumption DEF OneCommand, RecoveryInv, OperatorType, RunCommand, AllSources
<1>2. IsFiniteSet(AllSources)
  <2>1. /\ IsFiniteSet({}) /\ IsFiniteSet({} \cup {"cbor"})
    BY FS_EmptySet, FS_AddElement
  <2>2. IsFiniteSet(({} \cup {"cbor"}) \cup {"pcap"})
    BY <2>1, FS_AddElement
  <2>3. IsFiniteSet((({} \cup {"cbor"}) \cup {"pcap"}) \cup {"error"})
    BY <2>2, FS_AddElement
  <2>4. IsFiniteSet(((({} \cup {"cbor"}) \cup {"pcap"}) \cup {"error"}) \cup {"regen-error-tsv"})
    BY <2>3, FS_AddElement
  <2>5. IsFiniteSet((((({} \cup {"cbor"}) \cup {"pcap"}) \cup {"error"}) \cup {"regen-error-tsv"})
                    \cup {"pending"})
    BY <2>4, FS_AddElement
  <2>6. AllSources = (((({} \cup {"cbor"}) \cup {"pcap"}) \cup {"error"}) \cup {"regen-error-tsv"})
                     \cup {"pending"}
    BY DEF AllSources
  <2> QED BY <2>5, <2>6
<1>3. IsFiniteSet(commands)
  BY <1>1, <1>2, FS_Subset
<1>4. Cardinality(commands) = 0
  BY <1>1, <1>3, FS_CardinalityType
<1>5. commands = {}
  BY <1>3, <1>4, FS_EmptySet
<1> QED BY <1>5 DEF RunCommand

LEMMA OperatorSource ==
    ASSUME OneCommand, RecoveryInv, OneSource, OperatorNext
    PROVE  OneSource'
<1>0. OperatorType /\ UNCHANGED bond /\ reload = FALSE /\ reload' = FALSE /\ ~Reload
  BY DEF RecoveryInv, OneSource, OperatorNext, RunCommand, Reload, Run, NextLoop, TakePending,
     LinkCdns, LinkTsv, LinkFails, RegenPending, RegenAborts, AddTarget, UnlinkError, Yield
<1>1. CASE RunCommand
  <2>1. PICK s \in Sources : Run(s) /\ commands' = {s}
    BY <1>1, FirstCommand
  <2>2. s # "none"
    BY RecoveryAssumption
  <2> QED BY <1>0, <2>1, <2>2 DEF Run, OneSource
<1>2. CASE NextLoop
  BY <1>0, <1>2 DEF NextLoop, StopCommand, OneSource, OperatorType
<1>3. CASE TakePending \/ LinkCdns \/ LinkTsv
  BY <1>0, <1>3 DEF TakePending, LinkCdns, LinkTsv, Yield, Chosen, OneSource
<1>4. CASE LinkFails \/ RegenPending
  BY <1>0, <1>4 DEF LinkFails, RegenPending, Yield, OneSource
<1>5. CASE RegenAborts \/ AddTarget \/ UnlinkError
  BY <1>0, <1>5 DEF RegenAborts, StopCommand, AddTarget, UnlinkError, OneSource
<1> QED BY <1>0, <1>1, <1>2, <1>3, <1>4, <1>5 DEF OperatorNext

\* The command starts, goes on to its next loop, stops, or passes a file over.
LEMMA OperatorQuiet ==
    ASSUME TypeOK, OperatorType, SafeInv, UNCHANGED vars, {oppc, oppc'} \subseteq {"idle", "next"},
           "cbor" \notin commands' => "cbor" \notin commands,
           ListedInv', PcapInv', UnseenInv'
    PROVE  SafeInv'
<1>0. /\ UNCHANGED <<ipc, cur, todo, incoming, archive, tsv, failed, pending, queue, head, worker>>
      /\ FilesInv /\ OneJobInv /\ SubmitInv /\ FailedInv /\ RecordsInv
  BY DEF vars, disk, cdnsFiles, tsvFiles, database, importer, SafeInv
<1>1. \A q \in Queues, f \in Files : ~Targeted(q, f) /\ ~Targeted(q, f)'
  BY DEF Targeted
<1>2. /\ OneJobInv'
      /\ \A q \in Queues, d \in PendingDirs, f \in Files : Clear(q, d, f)' <=> Clear(q, d, f)
  BY <1>0 DEF OneJobInv, Clear, Rivals, OfEntry, Works, worker
<1>3. \A f \in Files : (TsvKept(f)' <=> TsvKept(f)) /\ (Spared(f)' <=> Spared(f))
  BY <1>0 DEF TsvKept, Spared
<1>4. \A d \in PendingDirs, f \in Files :
        /\ \A c \in Contents : Converts(d, f, c) => Converts(d, f, c)'
        /\ Links(d, f) => Links(d, f)'
        /\ Imports(d, f) => Imports(d, f)'
  BY <1>0, <1>1, <1>2, <1>3 DEF Converts, Links, Imports
<1>5. \A q \in Queues, d \in PendingDirs, f \in Files : Finds(q, d, f)
  BY <1>0, <1>3, <1>4 DEF Finds
<1>6. StepsInv' /\ ReadyInv'
  BY <1>0, <1>5, AsideAll
<1>7. SubmitInv'
  <2> SUFFICES ASSUME NEW i \in Importers, ipc[i] \in {"add-tsv", "add-pcap"}
               PROVE  /\ ipc[i] = "add-tsv" =>
                            /\ Clear("cdns-to-tsv", "incoming", cur[i])'
                            /\ Converts("incoming", cur[i], "none")'
                      /\ ipc[i] = "add-pcap" =>
                            /\ Clear("cdns-to-pcap", "pcap", cur[i])' /\ Links("pcap", cur[i])'
    BY <1>0 DEF SubmitInv
  <2>1. cur[i] \in Files
    BY DEF TypeOK
  <2> QED BY <1>0, <1>2, <1>4, <2>1 DEF SubmitInv
<1>8. TargetInv'
  BY <1>1 DEF TargetInv
<1>9. FailedInv'
  BY <1>0, <1>1, <1>2 DEF FailedInv
<1>10. RecordsInv' /\ FilesInv'
  BY <1>0, <1>3, PipelineAssumption DEF RecordsInv, Reached, FilesInv
<1> QED BY <1>2, <1>6, <1>7, <1>8, <1>9, <1>10 DEF SafeInv

\* A step that changes no file and no job leaves a file that is unseen, or untouched, so.
LEMMA SameUnseen ==
    ASSUME UNCHANGED vars, NEW f \in Files
    PROVE  /\ Unseen(f)' <=> Unseen(f)
           /\ Untouched(f)' <=> Untouched(f)
           /\ Reached(f)' <=> Reached(f)
<1>0. UNCHANGED <<cur, archive, tsv, failed, pending, queue, wpc, wjob>>
  BY DEF vars, disk, cdnsFiles, tsvFiles, importer, worker
<1>1. \A q \in Queues, d \in PendingDirs : Clear(q, d, f)' <=> Clear(q, d, f)
  BY <1>0 DEF Clear, OfEntry, Works
<1> QED BY <1>0, <1>1 DEF Unseen, Untouched, Reached

LEMMA RunSafe ==
    ASSUME OneCommand, RecoveryInv, OneSource, SafeInv, RunCommand,
           "regen-error-tsv" \notin commands'
    PROVE  SafeInv'
<1>0. TypeOK /\ OperatorType /\ UnseenInv /\ PcapInv /\ ListedInv
  BY DEF RecoveryInv, SafeInv
<1>1. commands = {}
  BY FirstCommand
<1>2. PICK s \in Sources : Run(s) /\ commands' = {s}
  BY FirstCommand
<1>3. s \in {"cbor", "pcap", "error"}
  BY <1>2, RecoveryAssumption DEF OneCommand
<1>4. /\ UNCHANGED <<vars, target>> /\ oppc = "idle" /\ oppc' = "next" /\ target = NoJob
      /\ source' = s /\ loop' = 1 /\ listing' = Listings(s)[1]
  BY <1>0, <1>2 DEF Run, OperatorType
<1>5. ListedInv'
  <2>1. \A j \in Listings(s)[1] :
            /\ j.retry = 0
            /\ s = "cbor" => j.queue = "cdns-to-tsv" /\ j.dir = "cbor"
            /\ s = "pcap" => j.queue = "cdns-to-pcap" /\ j.dir = "pcap"
            /\ s = "error" => j.dir = "incoming" /\ j.queue = "cdns-to-tsv"
    <3>1. CASE s = "cbor"
      BY <3>1 DEF Listings, Targets, NewJob
    <3>2. CASE s = "pcap"
      BY <3>2 DEF Listings, Targets, NewJob
    <3>3. CASE s = "error"
      <4>1. Listings(s)[1] = Targets("cdns-to-tsv", "incoming", failed["cdns-to-tsv"])
        BY <3>3 DEF Listings
      <4> QED BY <3>3, <4>1 DEF Targets, NewJob
    <3> QED BY <1>3, <3>1, <3>2, <3>3
  <2> QED BY <1>3, <1>4, <2>1 DEF ListedInv
<1>6. PcapInv'
  BY <1>0, <1>1, <1>4 DEF PcapInv, vars, worker
<1>7. UnseenInv'
  BY <1>0, <1>1, <1>4, SameUnseen DEF UnseenInv
<1> QED BY <1>0, <1>1, <1>4, <1>5, <1>6, <1>7, OperatorQuiet

LEMMA NextLoopSafe ==
    ASSUME OneCommand, RecoveryInv, OneSource, SafeInv, NextLoop,
           "regen-error-tsv" \notin commands
    PROVE  SafeInv'
<1>0. TypeOK /\ OperatorType /\ UnseenInv /\ PcapInv /\ ListedInv
  BY DEF RecoveryInv, SafeInv
<1>1. /\ UNCHANGED <<vars, commands>> /\ oppc = "next" /\ listing = {} /\ target = NoJob
      /\ source # "none" /\ loop \in Nat /\ loop >= 1
      /\ source \in commands /\ commands = {source}
  BY <1>0 DEF NextLoop, OperatorType, OneSource
<1>2. CASE ~(loop < Len(Listings(source)))
  <2>1. StopCommand
    BY <1>2 DEF NextLoop
  <2>2. ListedInv' /\ PcapInv'
    BY <1>0, <1>1, <2>1 DEF StopCommand, ListedInv, PcapInv, vars, worker
  <2>3. UnseenInv'
    BY <1>0, <1>1, <2>1, SameUnseen DEF StopCommand, UnseenInv
  <2> QED BY <1>0, <1>1, <2>1, <2>2, <2>3, OperatorQuiet DEF StopCommand
<1>3. CASE loop < Len(Listings(source))
  <2>1. /\ loop' = loop + 1 /\ listing' = Listings(source)[loop + 1]
        /\ UNCHANGED <<oppc, source, target>>
    BY <1>3 DEF NextLoop
  <2>2. source = "error" \/ source = "pending"
    <3>1. source \in AllSources
      BY <1>0, <1>1 DEF OperatorType
    <3>2. source \in {"cbor", "pcap", "regen-error-tsv"} => Len(Listings(source)) = 1
      BY DEF Listings
    <3>3. source \notin {"cbor", "pcap", "regen-error-tsv"}
      <4> SUFFICES ASSUME source \in {"cbor", "pcap", "regen-error-tsv"} PROVE FALSE
        OBVIOUS
      <4>1. loop < 1
        BY <1>3, <3>2
      <4> QED BY <1>1, <4>1
    <3> QED BY <3>1, <3>3 DEF AllSources
  <2>3. CASE source = "error"
    <3>1. ListedInv'
      <4>1. loop + 1 \in {2, 3}
        <5>1. Len(Listings(source)) = 3
          BY <2>3 DEF Listings
        <5> QED BY <1>1, <1>3, <5>1
      <4>2. Listings(source)[loop + 1] \in
                {Targets("cdns-to-pcap", "incoming", failed["cdns-to-pcap"]),
                 Targets("import-tsv", "incoming", TsvIn("error"))}
        BY <2>3, <4>1 DEF Listings
      <4>3. \A j \in Listings(source)[loop + 1] :
                j.retry = 0 /\ j.dir = "incoming" /\ j.queue # "cdns-to-tsv"
        BY <4>2 DEF Targets, NewJob
      <4>4. loop' # 1
        BY <2>1, <4>1
      <4>5. target' = NoJob /\ source' = "error"
        BY <1>1, <2>1, <2>3
      <4> QED BY <2>1, <4>3, <4>4, <4>5 DEF ListedInv
    <3>2. PcapInv'
      BY <1>0, <1>1, <2>1, <2>3 DEF PcapInv, vars, worker
    <3>3. UnseenInv'
      BY <1>0, <1>1, <2>1, <2>3, SameUnseen DEF UnseenInv
    <3> QED BY <1>0, <1>1, <2>1, <3>1, <3>2, <3>3, OperatorQuiet
  <2>4. source # "pending"
    BY <1>0, <1>1 DEF OneCommand, OperatorType
  <2> QED BY <2>2, <2>3, <2>4
<1> QED BY <1>2, <1>3

LEMMA LinkFailsSafe ==
    ASSUME RecoveryInv, SafeInv, LinkFails
    PROVE  SafeInv'
<1>0. TypeOK /\ OperatorType /\ UnseenInv /\ PcapInv /\ ListedInv
  BY DEF RecoveryInv, SafeInv
<1>1. /\ UNCHANGED <<vars, oppc, target, source, loop, commands>> /\ oppc = "next"
      /\ listing' \subseteq listing
  BY DEF LinkFails, Yield
<1>2. ListedInv' /\ PcapInv'
  BY <1>0, <1>1 DEF ListedInv, PcapInv, vars, worker
<1>3. UnseenInv'
  BY <1>0, <1>1, SameUnseen DEF UnseenInv
<1> QED BY <1>0, <1>1, <1>2, <1>3, OperatorQuiet

\* The command makes a link, for which there is none, and is about to submit its job.
LEMMA LinkCdnsSafe ==
    ASSUME OneCommand, RecoveryInv, OneSource, SafeInv, LinkCdns,
           "regen-error-tsv" \notin commands
    PROVE  SafeInv'
<1>0. /\ TypeOK /\ OperatorType
      /\ FilesInv /\ OneJobInv /\ SubmitInv /\ FailedInv /\ UnseenInv /\ RecordsInv /\ ListedInv
      /\ PcapInv
  BY DEF RecoveryInv, SafeInv
<1>1. PICK k \in listing :
        /\ k.queue \in ConvertQueues
        /\ Linkable(Origin(k), k.dir, k.file)
        /\ oppc = "next" /\ listing' = listing \ {k}
        /\ oppc' = "add" /\ target' = k
        /\ pending' = [pending EXCEPT ![k.dir] = @ \cup {k.file}]
  BY DEF LinkCdns, Yield, Chosen
<1>2. /\ UNCHANGED <<incoming, archive, failed, tsv, queue, head, ipc, cur, todo, worker,
                     source, loop, commands>>
  BY DEF LinkCdns, Yield, tsvFiles, database, importer
<1>3. k \in Jobs /\ k # NoJob
  BY <1>0, JobFacts DEF OperatorType
<1>d. PICK d \in PendingDirs, f \in Files : k.dir = d /\ k.file = f
  BY <1>3, JobFacts
<1>4. /\ source \in {"cbor", "pcap", "error"}
      /\ source = "cbor" => k.queue = "cdns-to-tsv" /\ d = "cbor"
      /\ source = "pcap" => k.queue = "cdns-to-pcap" /\ d = "pcap"
      /\ source = "error" => d = "incoming" /\ (loop = 1 <=> k.queue = "cdns-to-tsv")
      /\ commands = {source}
  <2>1. commands = {source} /\ source # "none"
    BY <1>0, <1>1, <1>3 DEF ListedInv, OneSource
  <2> QED BY <1>0, <1>d, <2>1 DEF ListedInv
<1>5. /\ f \notin pending[d]
      /\ \A e \in PendingDirs, g \in Files :
            g \in pending'[e] <=> g \in pending[e] \/ (e = d /\ g = f)
      /\ \A e \in PendingDirs : pending[e] \subseteq pending'[e]
      /\ Reached(f)
  <2>1. f \in Origin(k) /\ f \notin pending[d]
    BY <1>1, <1>d DEF Linkable
  <2>2. Reached(f)
    <3>1. CASE source = "error"
      BY <1>0, <1>1, <2>1, <3>1 DEF Origin, UnseenInv, Unseen
    <3>2. CASE source # "error"
      BY <2>1, <3>2 DEF Origin, Reached
    <3> QED BY <3>1, <3>2
  <2> QED BY <1>1, <1>d, <2>1, <2>2 DEF TypeOK, RecoveryInv
<1>6. \A q \in ConvertQueues : Clear(q, d, f)
  BY <1>0, <1>5, UnlinkedClear
<1>7. \A q \in Queues, g \in Files :
        /\ ~Targeted(q, g)
        /\ Targeted(q, g)' <=> source = "error" /\ k.queue = q /\ g = f
  BY <1>1, <1>2, <1>d DEF Targeted
<1>8. /\ \A q \in Queues, e \in PendingDirs, g \in Files : Finds(q, e, g)
      /\ \A q \in Queues, e \in PendingDirs, g \in Files : Clear(q, e, g)' <=> Clear(q, e, g)
      /\ \A g \in Files : (TsvKept(g)' <=> TsvKept(g)) /\ (Spared(g)' <=> Spared(g))
      /\ OneJobInv'
      /\ \A g \in Files, c \in Contents :
            Converts("incoming", g, c) => Converts("incoming", g, c)'
      /\ \A g \in Files : Links("pcap", g) => Links("pcap", g)'
  BY <1>0, <1>2, <1>5, <1>7, GrowsFinds
<1>9. StepsInv' /\ ReadyInv'
  BY <1>0, <1>2, <1>8, AsideAll
<1>10. SubmitInv'
  <2> SUFFICES ASSUME NEW i \in Importers, ipc[i] \in {"add-tsv", "add-pcap"}
               PROVE  /\ ipc[i] = "add-tsv" =>
                            /\ Clear("cdns-to-tsv", "incoming", cur[i])'
                            /\ Converts("incoming", cur[i], "none")'
                            /\ ~OfEntry(k, "cdns-to-tsv", "incoming", cur[i])
                      /\ ipc[i] = "add-pcap" =>
                            /\ Clear("cdns-to-pcap", "pcap", cur[i])' /\ Links("pcap", cur[i])'
                            /\ ~OfEntry(k, "cdns-to-pcap", "pcap", cur[i])
    BY <1>1, <1>2 DEF SubmitInv, OfEntry
  <2>1. PICK g \in Files : g = cur[i]
    BY <1>0 DEF TypeOK
  <2>2. /\ ipc[i] = "add-tsv" =>
            Clear("cdns-to-tsv", "incoming", g) /\ Converts("incoming", g, "none")
        /\ ipc[i] = "add-pcap" => Clear("cdns-to-pcap", "pcap", g) /\ Links("pcap", g)
    BY <1>0, <2>1 DEF SubmitInv
  <2>3. /\ ipc[i] = "add-tsv" => ~OfEntry(k, "cdns-to-tsv", "incoming", g)
        /\ ipc[i] = "add-pcap" => ~OfEntry(k, "cdns-to-pcap", "pcap", g)
    BY <1>5, <1>d, <2>2 DEF Converts, Links, OfEntry
  <2>4. /\ ipc[i] = "add-tsv" =>
            Clear("cdns-to-tsv", "incoming", g)' /\ Converts("incoming", g, "none")'
        /\ ipc[i] = "add-pcap" => Clear("cdns-to-pcap", "pcap", g)' /\ Links("pcap", g)'
    BY <1>8, <2>2
  <2>5. cur'[i] = g
    BY <1>2, <2>1
  <2> QED BY <2>1, <2>3, <2>4, <2>5
<1>11. Ready(k)'
  <2>1. CASE k.queue = "cdns-to-pcap"
    <3>1. d = "incoming" => Spared(f)
      <4>1. f \in ImportFiles /\ d = "incoming" => Spared(f)
        BY <1>0, <1>5 DEF RecordsInv
      <4> QED BY <4>1 DEF Spared
    <3>2. Links(d, f)'
      BY <1>5, <1>8, <3>1 DEF Links
    <3> QED BY <1>d, <2>1, <3>2 DEF Ready
  <2>2. CASE k.queue = "cdns-to-tsv"
    <3>1. CASE source = "cbor"
      <4>1. Untouched(f) /\ d = "cbor"
        BY <1>0, <1>1, <1>4, <1>d, <2>2, <3>1 DEF UnseenInv
      <4>2. Converts(d, f, "none")'
        BY <1>2, <1>4, <1>5, <1>8, <3>1, <4>1 DEF Untouched, Converts
      <4> QED BY <1>d, <2>2, <4>2 DEF Ready
    <3>2. CASE source = "error"
      <4>1. f \in failed["cdns-to-tsv"] /\ d = "incoming" /\ "cbor" \notin commands
        BY <1>1, <1>4, <1>d, <2>2, <3>2 DEF Origin, Linkable
      <4>2. /\ tsv["incoming"][f] = "none" /\ tsv["error"][f] = "none"
            /\ Clear("import-tsv", "incoming", f)
        BY <1>0, <1>7, <4>1 DEF FailedInv
      <4>3. Targeted("cdns-to-tsv", f)'
        BY <1>7, <2>2, <3>2
      <4>4. Converts(d, f, "none")'
        BY <1>2, <1>5, <1>8, <4>1, <4>2, <4>3 DEF Converts
      <4> QED BY <1>d, <2>2, <4>4 DEF Ready
    <3> QED BY <1>4, <2>2, <3>1, <3>2
  <2> QED BY <1>1, <2>1, <2>2
<1>12. TargetInv'
  <2>1. Clear(k.queue, k.dir, k.file)'
    BY <1>1, <1>6, <1>8, <1>d
  <2>2. \A g \in Files :
            /\ Targeted("cdns-to-tsv", g)' =>
                g \in failed["cdns-to-tsv"] /\ g \in pending'["incoming"]
            /\ ~Targeted("import-tsv", g)'
    <3>1. source = "error" /\ k.queue = "cdns-to-tsv" => f \in failed["cdns-to-tsv"]
      BY <1>1, <1>d DEF Origin, Linkable
    <3> QED BY <1>1, <1>4, <1>5, <1>7, <3>1
  <2> QED BY <1>1, <1>2, <1>11, <2>1, <2>2 DEF TargetInv
<1>13. FailedInv'
  BY <1>0, <1>2, <1>7, <1>8 DEF FailedInv
<1>14. UnseenInv'
  <2>1. \A g \in Files : Reached(g)' <=> Reached(g)
    BY <1>2 DEF Reached
  <2>2. ASSUME NEW g \in Files, ~Reached(g) PROVE Unseen(g)'
    <3>1. g # f /\ Unseen(g)
      BY <1>0, <1>5, <2>2 DEF UnseenInv
    <3> QED BY <1>2, <1>5, <1>8, <3>1 DEF Unseen
  <2>3. ASSUME NEW g \in Files,
               "cbor" \notin commands \/ (source = "cbor" /\ \E j \in listing' : j.file = g)
        PROVE  Untouched(g)'
    <3>1. Untouched(g)
      BY <1>0, <1>1, <2>3 DEF UnseenInv
    <3>2. d # "cbor" \/ g # f
      <4> SUFFICES ASSUME d = "cbor", g = f PROVE FALSE
        OBVIOUS
      <4>1. source = "cbor" /\ "cbor" \in commands
        BY <1>4
      <4>2. PICK j \in listing \ {k} : j.file = f
        BY <1>1, <2>3, <4>1
      <4>3. j \in Jobs /\ j # NoJob
        BY <1>0, JobFacts DEF OperatorType
      <4>4. /\ j.queue = "cdns-to-tsv" /\ j.dir = "cbor" /\ j.retry = 0
            /\ k.queue = "cdns-to-tsv" /\ k.dir = "cbor" /\ k.retry = 0
        BY <1>0, <4>1 DEF ListedInv
      <4>5. j = k
        BY <1>3, <1>d, <4>2, <4>3, <4>4 DEF Jobs
      <4> QED BY <4>2, <4>5
    <3> QED BY <1>2, <1>5, <1>8, <3>1, <3>2 DEF Untouched
  <2> QED BY <1>2, <2>1, <2>2, <2>3 DEF UnseenInv
<1>15. RecordsInv'
  BY <1>0, <1>2, <1>5, <1>8, PipelineAssumption DEF RecordsInv, Reached
<1>16. FilesInv' /\ ListedInv' /\ PcapInv'
  <2>1. ListedInv'
    BY <1>0, <1>1, <1>2 DEF ListedInv
  <2>2. FilesInv' /\ PcapInv'
    BY <1>0, <1>2 DEF FilesInv, PcapInv, worker
  <2> QED BY <2>1, <2>2
<1> QED
  BY <1>8, <1>9, <1>10, <1>12, <1>13, <1>14, <1>15, <1>16 DEF SafeInv

\* The command puts a TSV back beside the links, under both names for now.
LEMMA LinkTsvSafe ==
    ASSUME OneCommand, RecoveryInv, OneSource, SafeInv, LinkTsv,
           "regen-error-tsv" \notin commands
    PROVE  SafeInv'
<1>0. /\ TypeOK /\ OperatorType
      /\ FilesInv /\ OneJobInv /\ SubmitInv /\ FailedInv /\ UnseenInv /\ RecordsInv /\ ListedInv
      /\ PcapInv
  BY DEF RecoveryInv, SafeInv
<1>1. PICK k \in listing :
        /\ source = "error" /\ k.queue = "import-tsv"
        /\ tsv[k.dir][k.file] = "none" /\ tsv["error"][k.file] # "none"
        /\ oppc = "next" /\ listing' = listing \ {k}
        /\ oppc' = "add" /\ target' = k
        /\ tsv' = [tsv EXCEPT ![k.dir][k.file] = tsv["error"][k.file]]
  BY DEF LinkTsv, Yield, Chosen
<1>2. /\ UNCHANGED <<incoming, archive, failed, pending, queue, head, ipc, cur, todo, worker,
                     wpc, wjob, source, loop, commands>>
  BY DEF LinkTsv, Yield, cdnsFiles, database, importer, worker
<1>3. k \in Jobs /\ k # NoJob
  BY <1>0, JobFacts DEF OperatorType
<1>d. PICK f \in Files : k.file = f
  BY <1>3, JobFacts
<1>4. k.dir = "incoming" /\ "cbor" \notin commands
  BY <1>0, <1>1, <1>3 DEF ListedInv, OneSource
<1>5. /\ tsv["error"][f] = "whole" /\ tsv["incoming"][f] = "none"
      /\ tsv'["incoming"][f] = "whole"
      /\ \A e \in TsvDirs, g \in Files : e # "incoming" \/ g # f => tsv'[e][g] = tsv[e][g]
  <2>1. tsv["error"][f] = "whole"
    BY <1>0, <1>1, <1>d DEF FailedInv, TypeOK
  <2> QED BY <1>0, <1>1, <1>4, <1>d, <2>1 DEF TypeOK
<1>6. /\ OneJobInv'
      /\ \A q \in Queues, d \in PendingDirs, g \in Files : Clear(q, d, g)' <=> Clear(q, d, g)
  BY <1>0, <1>2 DEF OneJobInv, Clear, Rivals, OfEntry, Works
<1>7. \A q \in Queues, g \in Files :
        /\ ~Targeted(q, g)
        /\ Targeted(q, g)' <=> q = "import-tsv" /\ g = f
  BY <1>1, <1>2, <1>d DEF Targeted
<1>8. \A g \in Files : (TsvKept(g) => TsvKept(g)') /\ (Spared(g) => Spared(g)')
  <2>1. \A g \in Files : TsvKept(g) => TsvKept(g)'
    BY <1>2, <1>5 DEF TsvKept
  <2> QED BY <1>2, <2>1 DEF Spared
<1>9. \A d \in PendingDirs, g \in Files :
        /\ \A c \in Contents : Converts(d, g, c) => Converts(d, g, c)'
        /\ Links(d, g) => Links(d, g)'
        /\ Imports(d, g) => Imports(d, g)'
  <2>1. ASSUME NEW d \in PendingDirs, NEW g \in Files, NEW c \in Contents, Converts(d, g, c)
        PROVE  Converts(d, g, c)'
    <3>1. g # f
      BY <1>4, <1>5, <2>1 DEF Converts
    <3> QED BY <1>2, <1>4, <1>5, <1>6, <1>7, <2>1, <3>1 DEF Converts
  <2>2. \A d \in PendingDirs, g \in Files : Links(d, g) => Links(d, g)'
    BY <1>2, <1>8 DEF Links
  <2>3. \A d \in PendingDirs, g \in Files : Imports(d, g) => Imports(d, g)'
    BY <1>2, <1>5 DEF Imports
  <2> QED BY <2>1, <2>2, <2>3
<1>10. StepsInv' /\ ReadyInv'
  <2>1. \A q \in Queues, d \in PendingDirs, g \in Files : Finds(q, d, g)
    BY <1>2, <1>8, <1>9 DEF Finds
  <2> QED BY <1>0, <1>2, <2>1, AsideAll
<1>11. SubmitInv'
  <2> SUFFICES ASSUME NEW i \in Importers, ipc[i] \in {"add-tsv", "add-pcap"}
               PROVE  /\ ipc[i] = "add-tsv" =>
                            /\ Clear("cdns-to-tsv", "incoming", cur[i])'
                            /\ Converts("incoming", cur[i], "none")'
                      /\ ipc[i] = "add-pcap" =>
                            /\ Clear("cdns-to-pcap", "pcap", cur[i])' /\ Links("pcap", cur[i])'
    BY <1>1, <1>2 DEF SubmitInv, OfEntry
  <2>1. cur[i] \in Files
    BY <1>0 DEF TypeOK
  <2> QED BY <1>0, <1>2, <1>6, <1>9, <2>1 DEF SubmitInv
<1>12. TargetInv'
  <2>1. Ready(k)'
    BY <1>1, <1>4, <1>5, <1>d DEF Ready, Imports
  <2>2. Clear(k.queue, k.dir, k.file)'
    BY <1>0, <1>1, <1>4, <1>5, <1>6, <1>d, NoTsvClear
  <2> QED BY <1>1, <1>2, <1>5, <1>7, <2>1, <2>2 DEF TargetInv
<1>13. FailedInv'
  <2> SUFFICES ASSUME NEW g \in Files
               PROVE  /\ tsv'["error"][g] # "part"
                      /\ g \in failed["cdns-to-tsv"] =>
                            /\ tsv'["incoming"][g] = "none" /\ tsv'["error"][g] = "none"
                            /\ Clear("import-tsv", "incoming", g)'
    BY <1>2 DEF FailedInv
  <2>1. g \in failed["cdns-to-tsv"] => g # f
    BY <1>0, <1>4, <1>5, <1>7 DEF FailedInv
  <2> QED BY <1>0, <1>4, <1>5, <1>6, <1>7, <2>1 DEF FailedInv
<1>14. UnseenInv'
  <2>1. \A g \in Files : Reached(g)' <=> Reached(g)
    BY <1>2 DEF Reached
  <2>2. ASSUME NEW g \in Files, Unseen(g) PROVE Unseen(g)'
    <3>1. g # f
      BY <1>5, <2>2 DEF Unseen
    <3> QED BY <1>2, <1>5, <1>6, <2>2, <3>1 DEF Unseen
  <2>3. \A g \in Files : Untouched(g) => Untouched(g)'
    BY <1>2, <1>5, <1>6 DEF Untouched
  <2> QED BY <1>0, <1>1, <1>2, <2>1, <2>2, <2>3 DEF UnseenInv
<1>15. RecordsInv'
  BY <1>0, <1>2, <1>8, PipelineAssumption DEF RecordsInv, Reached
<1>16. FilesInv' /\ ListedInv' /\ PcapInv'
  BY <1>0, <1>1, <1>2 DEF FilesInv, ListedInv, PcapInv
<1> QED
  BY <1>6, <1>10, <1>11, <1>12, <1>13, <1>14, <1>15, <1>16 DEF SafeInv

LEMMA AddTargetSafe ==
    ASSUME OneCommand, RecoveryInv, OneSource, SafeInv, AddTarget,
           "regen-error-tsv" \notin commands
    PROVE  SafeInv'
<1>0. /\ TypeOK /\ OperatorType
      /\ FilesInv /\ OneJobInv /\ SubmitInv /\ FailedInv /\ UnseenInv /\ RecordsInv /\ ListedInv
      /\ PcapInv /\ TargetInv
  BY DEF RecoveryInv, SafeInv
<1>1. /\ oppc = "add" /\ Add(target) /\ target \in Jobs /\ target # NoJob
      /\ UNCHANGED <<incoming, archive, failed, tsv, pending, head, ipc, cur, todo, worker,
                     wpc, wjob, source, loop, listing, commands>>
  BY <1>0 DEF AddTarget, OperatorType, disk, cdnsFiles, tsvFiles, database, importer, worker
<1>d. PICK k \in Jobs, d \in PendingDirs, f \in Files : k = target /\ k.dir = d /\ k.file = f
  BY <1>1, JobFacts
<1>2. /\ source \in {"cbor", "pcap", "error"} /\ source \in commands /\ commands = {source}
      /\ source = "cbor" => k.queue = "cdns-to-tsv" /\ d = "cbor"
      /\ source = "pcap" => k.queue = "cdns-to-pcap" /\ d = "pcap"
      /\ source = "error" => d = "incoming" /\ (loop = 1 <=> k.queue = "cdns-to-tsv")
  BY <1>0, <1>1, <1>d DEF ListedInv, OneSource
<1>3. /\ oppc' = IF source = "error" THEN "unlink" ELSE "next"
      /\ target' = IF source = "error" THEN k ELSE NoJob
  BY <1>2, <1>d DEF AddTarget
<1>4. Ready(k) /\ Clear(k.queue, d, f)
  BY <1>0, <1>1, <1>d DEF TargetInv
<1>5. /\ OneJobInv'
      /\ \A q \in Queues, e \in PendingDirs, g \in Files :
            Clear(q, e, g)' <=> Clear(q, e, g) /\ ~OfEntry(k, q, e, g)
      /\ \A j \in Jobs : queue'[j] > 0 => j = k \/ queue[j] > 0
  <2>1. \A v \in Workers : Works(v)' <=> Works(v)
    BY <1>1 DEF Works
  <2> QED BY <1>0, <1>1, <1>4, <1>d, <2>1, AddEntry
<1>6. \A q \in Queues, g \in Files : Targeted(q, g)' <=> Targeted(q, g)
  BY <1>1, <1>3, <1>d DEF Targeted
<1>7. k.queue = "import-tsv" => /\ source = "error" /\ d = "incoming" /\ "cbor" \notin commands
                                /\ tsv["error"][f] # "none" /\ tsv["incoming"][f] = "whole"
  <2> SUFFICES ASSUME k.queue = "import-tsv"
               PROVE  /\ source = "error" /\ d = "incoming" /\ "cbor" \notin commands
                      /\ tsv["error"][f] # "none" /\ tsv["incoming"][f] = "whole"
    OBVIOUS
  <2>1. source = "error" /\ d = "incoming" /\ "cbor" \notin commands
    BY <1>2
  <2>2. Targeted("import-tsv", f)
    BY <1>1, <1>d, <2>1 DEF Targeted
  <2>3. Imports(d, f)
    BY <1>4, <1>d DEF Ready
  <2> QED BY <1>0, <2>1, <2>2, <2>3 DEF TargetInv, Imports
<1>8. \A g \in Files : (TsvKept(g)' <=> TsvKept(g)) /\ (Spared(g)' <=> Spared(g))
  BY <1>1 DEF TsvKept, Spared
<1>9. \A e \in PendingDirs, g \in Files :
        /\ \A c \in Contents : Converts(e, g, c) => Converts(e, g, c)'
        /\ Links(e, g) => Links(e, g)'
        /\ Imports(e, g) => Imports(e, g)'
  <2>1. ASSUME NEW e \in PendingDirs, NEW g \in Files, NEW c \in Contents, Converts(e, g, c)
        PROVE  Converts(e, g, c)'
    <3>1. k.queue = "import-tsv" => g # f
      BY <1>7, <2>1 DEF Converts
    <3>2. ~OfEntry(k, "import-tsv", e, g)
      BY <1>d, <3>1 DEF OfEntry
    <3> QED BY <1>1, <1>5, <1>6, <2>1, <3>2 DEF Converts
  <2>2. \A e \in PendingDirs, g \in Files : Links(e, g) => Links(e, g)'
    BY <1>1, <1>8 DEF Links
  <2>3. \A e \in PendingDirs, g \in Files : Imports(e, g) => Imports(e, g)'
    BY <1>1 DEF Imports
  <2> QED BY <2>1, <2>2, <2>3
<1>10. StepsInv' /\ ReadyInv'
  <2>1. \A q \in Queues, e \in PendingDirs, g \in Files : Finds(q, e, g)
    BY <1>1, <1>8, <1>9 DEF Finds
  <2>2. Finds(k.queue, k.dir, k.file)
    BY <1>d, <2>1, JobFacts
  <2>3. Ready(k)'
    BY <1>4, <2>2, FindsReady
  <2> QED BY <1>0, <1>1, <1>5, <2>1, <2>3, AsideAll
<1>11. SubmitInv'
  <2> SUFFICES ASSUME NEW i \in Importers, ipc[i] \in {"add-tsv", "add-pcap"}
               PROVE  /\ ipc[i] = "add-tsv" =>
                            /\ Clear("cdns-to-tsv", "incoming", cur[i])'
                            /\ Converts("incoming", cur[i], "none")'
                      /\ ipc[i] = "add-pcap" =>
                            /\ Clear("cdns-to-pcap", "pcap", cur[i])' /\ Links("pcap", cur[i])'
    BY <1>1, <1>3 DEF SubmitInv
  <2>1. PICK g \in Files : g = cur[i]
    BY <1>0 DEF TypeOK
  <2>2. cur'[i] = g
    BY <1>1, <2>1
  <2>3. /\ ipc[i] = "add-tsv" =>
            /\ Clear("cdns-to-tsv", "incoming", g) /\ Converts("incoming", g, "none")
            /\ ~OfEntry(k, "cdns-to-tsv", "incoming", g)
        /\ ipc[i] = "add-pcap" =>
            /\ Clear("cdns-to-pcap", "pcap", g) /\ Links("pcap", g)
            /\ ~OfEntry(k, "cdns-to-pcap", "pcap", g)
    BY <1>0, <1>1, <1>d, <2>1 DEF SubmitInv
  <2> QED BY <1>5, <1>9, <2>1, <2>2, <2>3
<1>12. TargetInv'
  BY <1>0, <1>1, <1>3, <1>6, <1>8 DEF TargetInv
<1>13. FailedInv'
  <2> SUFFICES ASSUME NEW g \in Files, "cbor" \notin commands, g \in failed["cdns-to-tsv"],
                      ~Targeted("cdns-to-tsv", g)
               PROVE  Clear("import-tsv", "incoming", g)'
    BY <1>0, <1>1, <1>6 DEF FailedInv
  <2>1. tsv["error"][g] = "none" /\ Clear("import-tsv", "incoming", g)
    BY <1>0 DEF FailedInv
  <2>2. ~OfEntry(k, "import-tsv", "incoming", g)
    BY <1>7, <1>d, <2>1 DEF OfEntry
  <2> QED BY <1>5, <2>1, <2>2
<1>14. UnseenInv'
  <2>1. \A g \in Files : Reached(g)' <=> Reached(g)
    BY <1>1 DEF Reached
  <2>2. ASSUME NEW g \in Files, Unseen(g) PROVE Unseen(g)'
    <3>1. g # f
      BY <1>4, <1>d, <2>2, JobFacts DEF Ready, Converts, Links, Imports, Unseen
    <3>2. \A q \in Queues, e \in PendingDirs : Clear(q, e, g)'
      BY <1>5, <1>d, <2>2, <3>1 DEF Unseen, OfEntry
    <3> QED BY <1>1, <2>2, <3>2 DEF Unseen
  <2>3. ASSUME NEW g \in Files, Untouched(g) PROVE Untouched(g)'
    <3>1. d = "cbor" => g # f
      BY <1>4, <1>d, <2>3, JobFacts DEF Ready, Converts, Links, Imports, Untouched
    <3>2. Clear("import-tsv", "cbor", g)' /\ Clear("cdns-to-tsv", "cbor", g)'
      BY <1>5, <1>d, <2>3, <3>1 DEF Untouched, OfEntry
    <3> QED BY <1>1, <2>3, <3>2 DEF Untouched
  <2> QED BY <1>0, <1>1, <2>1, <2>2, <2>3 DEF UnseenInv
<1>15. RecordsInv'
  BY <1>0, <1>1, <1>8, PipelineAssumption DEF RecordsInv, Reached
<1>16. FilesInv' /\ ListedInv'
  BY <1>0, <1>1, <1>2, <1>3, <1>d DEF FilesInv, ListedInv
<1>17. PcapInv'
  BY <1>0, <1>1, <1>2, <1>5, <1>d DEF PcapInv
<1> QED
  BY <1>5, <1>10, <1>11, <1>12, <1>13, <1>14, <1>15, <1>16, <1>17 DEF SafeInv

\* The command is done with a file of an error directory.  The file is pending again by now,
\* or has come further; and links for PCAPs are not yet in incoming/pending while those for
\* TSVs are put back.
LEMMA UnlinkErrorSafe ==
    ASSUME OneCommand, RecoveryInv, OneSource, SafeInv, UnlinkError,
           "regen-error-tsv" \notin commands
    PROVE  SafeInv'
<1>0. /\ TypeOK /\ OperatorType
      /\ FilesInv /\ OneJobInv /\ SubmitInv /\ FailedInv /\ UnseenInv /\ RecordsInv /\ ListedInv
      /\ PcapInv /\ TargetInv
  BY DEF RecoveryInv, SafeInv
<1>1. /\ oppc = "unlink" /\ target \in Jobs /\ target # NoJob
      /\ oppc' = "next" /\ target' = NoJob
      /\ UNCHANGED <<incoming, archive, pending, queue, head, ipc, cur, todo, worker, wpc, wjob,
                     source, loop, listing, commands>>
  BY <1>0 DEF UnlinkError, OperatorType, database, importer, worker
<1>d. PICK k \in Jobs, f \in Files : k = target /\ k.file = f
  BY <1>1, JobFacts
<1>2. /\ source = "error" /\ commands = {"error"} /\ k.dir = "incoming"
      /\ loop = 1 <=> k.queue = "cdns-to-tsv"
  BY <1>0, <1>1, <1>d DEF ListedInv, OneSource
<1>3. \A q \in Queues, g \in Files :
        /\ Targeted(q, g) <=> q = k.queue /\ g = f
        /\ ~Targeted(q, g)'
  BY <1>1, <1>2, <1>d DEF Targeted
<1>4. /\ \A q \in ConvertQueues : failed'[q] \subseteq failed[q]
      /\ \A g \in failed["cdns-to-tsv"] :
            g \in failed'["cdns-to-tsv"] <=> ~(k.queue = "cdns-to-tsv" /\ g = f)
      /\ \A e \in TsvDirs, g \in Files :
            tsv'[e][g] = IF k.queue = "import-tsv" /\ e = "error" /\ g = f
                         THEN "none" ELSE tsv[e][g]
  <2>1. CASE k.queue \in ConvertQueues
    <3>1. /\ failed' = [failed EXCEPT ![k.queue] = @ \ {f}]
          /\ tsv' = tsv
      BY <1>2, <1>d, <2>1 DEF UnlinkError
    <3> QED BY <1>0, <2>1, <3>1 DEF TypeOK
  <2>2. CASE k.queue \notin ConvertQueues
    <3>1. k.queue = "import-tsv"
      BY <2>2, JobFacts
    <3>2. /\ tsv' = [tsv EXCEPT !["error"][f] = "none"]
          /\ failed' = failed
      BY <1>d, <2>2 DEF UnlinkError
    <3> QED BY <1>0, <3>1, <3>2 DEF TypeOK
  <2> QED BY <2>1, <2>2
<1>5. /\ OneJobInv'
      /\ \A q \in Queues, d \in PendingDirs, g \in Files : Clear(q, d, g)' <=> Clear(q, d, g)
  BY <1>0, <1>1 DEF OneJobInv, Clear, Rivals, OfEntry, Works
<1>6. \A g \in Files :
        /\ TsvKept(g) => TsvKept(g)'
        /\ Spared(g) => Spared(g)' \/ (k.queue = "cdns-to-tsv" /\ g \in pending["incoming"])
  <2>1. ASSUME NEW g \in Files, TsvKept(g) PROVE TsvKept(g)'
    <3>1. CASE k.queue = "import-tsv" /\ g = f
      <4>1. tsv["incoming"][f] = "whole" \/ head[f] > 0
        BY <1>0, <1>3, <3>1 DEF TargetInv
      <4> QED BY <1>1, <1>4, <3>1, <4>1 DEF TsvKept
    <3>2. CASE ~(k.queue = "import-tsv" /\ g = f)
      BY <1>1, <1>4, <2>1, <3>2 DEF TsvKept
    <3> QED BY <3>1, <3>2
  <2>2. ASSUME NEW g \in Files, Spared(g), ~(k.queue = "cdns-to-tsv" /\ g \in pending["incoming"])
        PROVE  Spared(g)'
    <3>1. CASE k.queue = "cdns-to-tsv" /\ g = f
      <4>1. TsvKept(g)
        BY <1>0, <1>3, <2>2, <3>1 DEF TargetInv
      <4> QED BY <2>1, <4>1 DEF Spared
    <3>2. CASE ~(k.queue = "cdns-to-tsv" /\ g = f)
      BY <1>4, <2>1, <2>2, <3>2 DEF Spared
    <3> QED BY <3>1, <3>2
  <2> QED BY <2>1, <2>2
<1>7. \A d \in PendingDirs, g \in Files :
        /\ \A c \in Contents : Converts(d, g, c) => Converts(d, g, c)'
        /\ Links(d, g) => Links(d, g)' \/ (k.queue = "cdns-to-tsv" /\ d = "incoming")
        /\ Imports(d, g) => Imports(d, g)'
  <2>1. ASSUME NEW d \in PendingDirs, NEW g \in Files, NEW c \in Contents, Converts(d, g, c)
        PROVE  Converts(d, g, c)'
    <3>1. /\ g \in pending[d] /\ tsv[d][g] = c /\ Clear("import-tsv", d, g)
          /\ d = "incoming" /\ tsv["error"][g] = "none"
          /\ g \in failed["cdns-to-tsv"] => Targeted("cdns-to-tsv", g)
      BY <1>2, <2>1 DEF Converts
    <3>2. g \notin failed'["cdns-to-tsv"]
      BY <1>3, <1>4, <3>1
    <3>3. tsv'[d][g] = c /\ tsv'["error"][g] = "none"
      BY <1>4, <3>1
    <3> QED BY <1>1, <1>5, <3>1, <3>2, <3>3 DEF Converts
  <2>2. \A d \in PendingDirs, g \in Files :
            Links(d, g) => Links(d, g)' \/ (k.queue = "cdns-to-tsv" /\ d = "incoming")
    BY <1>1, <1>6 DEF Links
  <2>3. \A d \in PendingDirs, g \in Files : Imports(d, g) => Imports(d, g)'
    BY <1>1, <1>4 DEF Imports
  <2> QED BY <2>1, <2>2, <2>3
<1>8. StepsInv' /\ ReadyInv'
  <2>1. ASSUME NEW j \in Jobs, Live(j) PROVE Finds(j.queue, j.dir, j.file)
    <3>1. j.queue = "cdns-to-pcap" /\ k.queue = "cdns-to-tsv" => j.dir # "incoming"
      BY <1>0, <1>2, <2>1 DEF PcapInv, Live
    <3>2. j.dir \in PendingDirs /\ j.file \in Files
      BY JobFacts
    <3> QED BY <1>1, <1>6, <1>7, <3>1, <3>2 DEF Finds
  <2> QED BY <1>0, <1>1, <2>1, AsideSteps
<1>9. SubmitInv'
  <2> SUFFICES ASSUME NEW i \in Importers, ipc[i] \in {"add-tsv", "add-pcap"}
               PROVE  /\ ipc[i] = "add-tsv" =>
                            /\ Clear("cdns-to-tsv", "incoming", cur[i])'
                            /\ Converts("incoming", cur[i], "none")'
                      /\ ipc[i] = "add-pcap" =>
                            /\ Clear("cdns-to-pcap", "pcap", cur[i])' /\ Links("pcap", cur[i])'
    BY <1>1 DEF SubmitInv
  <2>1. PICK g \in Files : g = cur[i]
    BY <1>0 DEF TypeOK
  <2>2. cur'[i] = g
    BY <1>1, <2>1
  <2> QED BY <1>0, <1>5, <1>7, <2>1, <2>2 DEF SubmitInv
<1>10. TargetInv'
  BY <1>1, <1>3 DEF TargetInv
<1>11. FailedInv'
  <2> SUFFICES ASSUME NEW g \in Files
               PROVE  /\ tsv'["error"][g] # "part"
                      /\ g \in failed'["cdns-to-tsv"] =>
                            /\ tsv'["incoming"][g] = "none" /\ tsv'["error"][g] = "none"
                            /\ Clear("import-tsv", "incoming", g)'
    BY <1>1 DEF FailedInv
  <2>1. g \in failed'["cdns-to-tsv"] =>
            g \in failed["cdns-to-tsv"] /\ ~Targeted("cdns-to-tsv", g)
    BY <1>3, <1>4
  <2> QED BY <1>0, <1>2, <1>4, <1>5, <2>1 DEF FailedInv
<1>12. UnseenInv'
  <2>1. \A g \in Files : Reached(g)' <=> Reached(g)
    BY <1>1 DEF Reached
  <2>2. \A g \in Files : Unseen(g) => Unseen(g)'
    BY <1>1, <1>4, <1>5 DEF Unseen
  <2>3. \A g \in Files : Untouched(g) => Untouched(g)'
    BY <1>1, <1>4, <1>5 DEF Untouched
  <2> QED BY <1>0, <1>1, <2>1, <2>2, <2>3 DEF UnseenInv
<1>13. RecordsInv'
  BY <1>0, <1>1, <1>6, PipelineAssumption DEF RecordsInv, Reached
<1>14. FilesInv' /\ ListedInv' /\ PcapInv'
  BY <1>0, <1>1 DEF FilesInv, ListedInv, PcapInv
<1> QED
  BY <1>5, <1>8, <1>9, <1>10, <1>11, <1>12, <1>13, <1>14 DEF SafeInv

-----------------------------------------------------------------------------
(* One command beside the import: the invariant, and what follows          *)

LEMMA ImportersSafe ==
    ASSUME OneCommand, RecoveryInv, RecoveryInv', OneSource, SafeInv,
           (\E f \in Files : Arrive(f)) \/ (\E i \in Importers : ImporterNext(i)),
           UNCHANGED <<operator, bond, seen, faults, reload>>
    PROVE  OneSource' /\ SafeInv'
<1>1. /\ TypeOK /\ TypeOK' /\ OperatorType /\ OneImporter
      /\ UNCHANGED <<operator, bond, reload>>
  BY DEF RecoveryInv, OneCommand
<1>2. OneSource'
  BY <1>1 DEF OneSource, operator
<1>3. CASE (\E f \in Files : Arrive(f)) \/ (\E i \in Importers : List(i) \/ Rename(i) \/ Finish(i))
  BY <1>1, <1>2, <1>3, BetweenSafe
<1>4. CASE \E i \in Importers : LinkIncoming(i)
  BY <1>1, <1>2, <1>4, LinkIncomingSafe
<1>5. CASE \E i \in Importers : LinkPcap(i)
  BY <1>1, <1>2, <1>5, LinkPcapSafe
<1>6. CASE \E i \in Importers : AddCdnsToTsv(i) \/ AddCdnsToPcap(i)
  BY <1>1, <1>2, <1>6, AddCdnsSafe
<1> QED BY <1>3, <1>4, <1>5, <1>6 DEF ImporterNext

LEMMA OperatorSafe ==
    ASSUME OneCommand, RecoveryInv, Spares, OperatorNext
    PROVE  Spares'
<1>1. OneSource /\ OneSource'
  BY OperatorSource DEF Spares
<1>2. SUFFICES ASSUME "regen-error-tsv" \notin commands' PROVE SafeInv'
  BY <1>1 DEF Spares
<1>3. commands \subseteq commands'
  BY DEF OperatorNext, RunCommand, Reload, Run, NextLoop, TakePending, LinkCdns, LinkTsv,
     LinkFails, RegenPending, RegenAborts, AddTarget, UnlinkError, Yield
<1>4. "regen-error-tsv" \notin commands /\ SafeInv
  BY <1>2, <1>3 DEF Spares
<1>5. ~Reload
  BY <1>1 DEF OneSource, Reload
<1>6. ~(TakePending \/ RegenPending \/ RegenAborts)
  <2>1. source \notin {"pending", "regen-error-tsv"}
    BY <1>1, <1>4 DEF OneSource, OneCommand, RecoveryInv, OperatorType
  <2> QED BY <2>1 DEF TakePending, RegenPending, RegenAborts
<1> QED
  BY <1>1, <1>2, <1>4, <1>5, <1>6, RunSafe, NextLoopSafe, LinkCdnsSafe, LinkTsvSafe,
     LinkFailsSafe, AddTargetSafe, UnlinkErrorSafe DEF OperatorNext

LEMMA StutterSpares ==
    ASSUME RecoveryInv, Spares, UNCHANGED <<vars, operator, bond, reload>>
    PROVE  Spares'
<1>1. UNCHANGED <<cur, todo, ipc, incoming, archive, tsv, failed, pending, queue, head, worker, wpc,
                  wjob, oppc, source, loop, listing, target, commands, bond, reload>>
  BY DEF vars, disk, cdnsFiles, tsvFiles, database, importer, worker, operator
<1>2. OneSource' /\ (SafeInv => FilesInv' /\ OneJobInv' /\ ListedInv' /\ PcapInv')
  BY <1>1 DEF Spares, OneSource, SafeInv, FilesInv, OneJobInv, Rivals, OfEntry, Works,
     ListedInv, PcapInv
<1>3. /\ \A q \in Queues, d \in PendingDirs, f \in Files :
            /\ Clear(q, d, f)' <=> Clear(q, d, f)
            /\ Targeted(q, f)' <=> Targeted(q, f)
      /\ \A f \in Files : /\ TsvKept(f)' <=> TsvKept(f)
                          /\ Spared(f)' <=> Spared(f)
                          /\ Reached(f)' <=> Reached(f)
  BY <1>1 DEF Clear, OfEntry, Works, Targeted, TsvKept, Spared, Reached
<1>4. \A d \in PendingDirs, f \in Files :
        /\ \A c \in Contents : Converts(d, f, c)' <=> Converts(d, f, c)
        /\ Links(d, f)' <=> Links(d, f)
        /\ Imports(d, f)' <=> Imports(d, f)
  BY <1>1, <1>3 DEF Converts, Links, Imports
<1>5. ASSUME TypeOK, OperatorType, SafeInv PROVE StepsInv' /\ ReadyInv'
  <2>1. \A q \in Queues, d \in PendingDirs, f \in Files : Finds(q, d, f)
    BY <1>1, <1>3, <1>4 DEF Finds
  <2> QED BY <1>1, <1>5, <2>1, AsideAll
<1>6. ASSUME TypeOK, OperatorType, SafeInv PROVE SubmitInv'
  <2> SUFFICES ASSUME NEW i \in Importers, ipc[i] \in {"add-tsv", "add-pcap"}
               PROVE  /\ ipc[i] = "add-tsv" =>
                            /\ Clear("cdns-to-tsv", "incoming", cur[i])'
                            /\ Converts("incoming", cur[i], "none")'
                      /\ ipc[i] = "add-pcap" =>
                            /\ Clear("cdns-to-pcap", "pcap", cur[i])' /\ Links("pcap", cur[i])'
    BY <1>1, <1>6 DEF SafeInv, SubmitInv, OfEntry
  <2>1. PICK g \in Files : g = cur[i]
    BY <1>6 DEF TypeOK
  <2>2. cur'[i] = g
    BY <1>1, <2>1
  <2> QED BY <1>3, <1>4, <1>6, <2>1, <2>2 DEF SafeInv, SubmitInv
<1>7. ASSUME TypeOK, OperatorType, SafeInv PROVE TargetInv'
  <2>1. oppc = "add" => Finds(target.queue, target.dir, target.file) /\ target \in Jobs
    BY <1>1, <1>3, <1>4, <1>7, JobFacts DEF Finds, OperatorType
  <2>2. oppc = "add" => Ready(target)' /\ Clear(target.queue, target.dir, target.file)'
    BY <1>1, <1>3, <1>7, <2>1, FindsReady, JobFacts DEF SafeInv, TargetInv
  <2> QED BY <1>1, <1>3, <1>7, <2>2 DEF SafeInv, TargetInv
<1>8. SafeInv => FailedInv' /\ UnseenInv' /\ RecordsInv'
  BY <1>1, <1>3, PipelineAssumption
     DEF SafeInv, FailedInv, UnseenInv, RecordsInv, Unseen, Untouched
<1> QED
  BY <1>1, <1>2, <1>5, <1>6, <1>7, <1>8 DEF RecoveryInv, Spares, SafeInv

LEMMA InitSpares == RecoveryInit => Spares
<1> SUFFICES ASSUME RecoveryInit PROVE Spares
  OBVIOUS
<1>1. /\ incoming = {} /\ archive = {}
      /\ pending = [d \in PendingDirs |-> {}]
      /\ tsv = [d \in TsvDirs |-> [f \in Files |-> "none"]]
      /\ failed = [q \in ConvertQueues |-> {}]
      /\ queue = [j \in Jobs |-> 0]
      /\ ipc = [i \in Importers |-> "idle"]
      /\ todo = [i \in Importers |-> {}]
      /\ cur = [i \in Importers |-> NoFile]
      /\ wpc = [w \in Workers |-> "idle"]
      /\ wjob = [w \in Workers |-> NoJob]
      /\ oppc = "idle" /\ source = "none" /\ listing = {} /\ target = NoJob
      /\ commands = {} /\ reload = FALSE /\ bond = [w \in Workers |-> "ok"]
  BY DEF RecoveryInit, Init
<1>2. NoJob.queue \notin Queues
  BY DEF NoJob
<1>3. \A q \in Queues, d \in PendingDirs, f \in Files : Clear(q, d, f) /\ ~Targeted(q, f)
  <2>1. \A q \in Queues, d \in PendingDirs, f \in Files : ~OfEntry(NoJob, q, d, f)
    BY DEF OfEntry, NoJob
  <2>2. (\A w \in Workers : wjob[w] = NoJob) /\ (\A j \in Jobs : ~(queue[j] > 0))
    BY <1>1
  <2>3. \A q \in Queues, d \in PendingDirs, f \in Files : Clear(q, d, f)
    BY <2>1, <2>2 DEF Clear
  <2> QED BY <1>1, <2>3 DEF Targeted
<1>4. \A f \in Files : ~Reached(f)
  BY <1>1, PipelineAssumption DEF Reached
<1>5. OneSource /\ FilesInv /\ OneJobInv /\ ListedInv /\ PcapInv
  BY <1>1 DEF OneSource, FilesInv, OneJobInv, Rivals, ListedInv, PcapInv, NoJob
<1>6. StepsInv /\ ReadyInv /\ SubmitInv /\ TargetInv
  BY <1>1, <1>2, <1>3 DEF StepsInv, Step, NoJob, ReadyInv, SubmitInv, TargetInv
<1>7. FailedInv /\ UnseenInv /\ RecordsInv
  BY <1>1, <1>3, <1>4, PipelineAssumption
     DEF FailedInv, UnseenInv, Unseen, Untouched, RecordsInv
<1> QED BY <1>5, <1>6, <1>7 DEF Spares, SafeInv

LEMMA NextSpares ==
    ASSUME OneCommand, RecoveryInv, Spares, [RecoveryNext]_rvars
    PROVE  Spares'
<1>0. TypeOK /\ OperatorType /\ OneSource /\ RecoveryInv'
  BY NextRecovery DEF RecoveryInv, Spares
<1>1. CASE /\ (\E f \in Files : Arrive(f)) \/ (\E i \in Importers : ImporterNext(i))
           /\ UNCHANGED <<operator, bond, seen, faults, reload>>
  <2>1. commands' = commands
    BY <1>1 DEF operator
  <2>2. OneSource'
    BY <1>0, <1>1 DEF OneSource, operator
  <2>3. SafeInv => SafeInv'
    BY <1>0, <1>1, ImportersSafe
  <2> QED BY <2>1, <2>2, <2>3 DEF Spares
<1>2. CASE WorkersNext
  <2>1. PICK w \in Workers : LoopNext(w) /\ UNCHANGED <<operator, faults, reload>>
    BY <1>2 DEF WorkersNext
  <2>2. commands' = commands
    BY <2>1 DEF operator
  <2>3. CASE Look(w)
    <3>1. bond' = bond
      <4>1. bond[w] = "ok"
        BY <1>0 DEF OneSource
      <4> QED BY <2>1, <2>3, <4>1 DEF LoopNext, BondNext, CutExit, Vanished, OrphanEnds, Look,
                   Quits, vars, worker
    <3> QED BY <2>1, <2>3, <3>1, StutterSpares DEF Look
  <2>4. CASE ~Look(w)
    <3>1. OneSource'
      <4>1. bond' = bond
        BY <1>0, <2>1 DEF LoopNext, BondNext, CutExit, Vanished, Quits, OrphanEnds, OneSource
      <4> QED BY <1>0, <2>1, <4>1 DEF OneSource, operator
    <3>2. SafeInv => SafeInv'
      BY <1>0, <2>1, <2>4, WorkersSafe
    <3> QED BY <2>2, <3>1, <3>2 DEF Spares
  <2> QED BY <2>3, <2>4
<1>3. CASE OperatorNext
  BY <1>3, OperatorSafe
<1>4. CASE UNCHANGED rvars
  BY <1>4, StutterSpares DEF rvars
<1>5. ~FaultNext
  BY NothingFails
<1> QED BY <1>1, <1>2, <1>3, <1>4, <1>5 DEF RecoveryNext

\* One run of dsv-import with another source than regen-error-tsv, beside dsv-import -s
\* incoming and the workers, lets no file received for the database vanish: while workers
\* take jobs and give them up in any order, the file is pending, set aside or stored.
THEOREM CommandsLoseNothing ==
    ASSUME OneCommand
    PROVE  RecoverySpec => []CommandsKeepRecords
<1>1. RecoveryInit => RecoveryInv /\ Spares
  BY InitRecovery, InitSpares
<1>2. RecoveryInv /\ Spares /\ [RecoveryNext]_rvars => RecoveryInv' /\ Spares'
  BY NextRecovery, NextSpares
<1>3. Spares => CommandsKeepRecords
  <2> SUFFICES ASSUME Spares, "regen-error-tsv" \notin commands, NEW f \in ImportFiles,
                      f \in archive
               PROVE  \/ f \in pending["incoming"] \cup failed["cdns-to-tsv"]
                      \/ TsvKept(f)
    BY DEF CommandsKeepRecords, RecordsKept, TsvKept
  <2>1. RecordsInv /\ Reached(f)
    BY DEF Spares, SafeInv, Reached
  <2> QED BY <2>1 DEF RecordsInv, Spared
<1> QED
  BY <1>1, <1>2, <1>3, PTL DEF RecoverySpec

\* No worker takes a file out of an error directory.
LEMMA WorkersGrowFailed ==
    ASSUME TypeOK, WorkersNext
    PROVE  failed["cdns-to-tsv"] \subseteq failed'["cdns-to-tsv"]
<1>1. ASSUME NEW w \in Workers, MoveToError(w)
      PROVE  failed["cdns-to-tsv"] \subseteq failed'["cdns-to-tsv"]
  BY <1>1 DEF MoveToError, TypeOK, database, importer
<1>2. ASSUME NEW w \in Workers, LoopNext(w), ~MoveToError(w)
      PROVE  failed' = failed
  <2>1. ScriptNext(w) => failed' = failed
    BY DEF ScriptNext, FindNode, BeginConvert, EndConvert, SubmitTsv, ConvertError, ConvertPcap,
       TestTsv, AlreadyPresent, NotPresent, QueryFails, Insert, InsertFails, NoCounts,
       InsertCounts, InsertCountsFails, disk, cdnsFiles
  <2>2. Take(w) \/ InfraExit(w) \/ CutExit(w) \/ Vanished(w) \/ OrphanEnds(w) \/ Look(w)
            => failed' = failed
    BY DEF Take, InfraExit, CutExit, Vanished, Quits, OrphanEnds, Look, vars, disk, cdnsFiles
  <2>3. LiveExit(w) => failed' = failed
    BY <1>2 DEF LiveExit, Removal, RenameNothing, Unlink, Answer, FailTransient, Resubmit, disk,
       cdnsFiles
  <2> QED BY <1>2, <2>1, <2>2, <2>3 DEF LoopNext, BondNext
<1> QED BY <1>1, <1>2 DEF WorkersNext

\* That command takes a file out of error-cdns-to-tsv only when the file is pending again, or
\* has come further: dsv-import -s error removes it last, and what the workers make of the
\* job meanwhile does not get lost.
THEOREM RefillIsSafe ==
    ASSUME OneCommand
    PROVE  RecoverySpec => RefillKeepsFile
<1> DEFINE Stays == \A f \in failed["cdns-to-tsv"] \ failed'["cdns-to-tsv"] :
                        \/ f \in pending'["incoming"] \/ tsv'["incoming"][f] # "none"
                        \/ tsv'["error"][f] # "none" \/ head'[f] > 0
<1>1. RecoveryInit => RecoveryInv /\ Spares
  BY InitRecovery, InitSpares
<1>2. RecoveryInv /\ Spares /\ [RecoveryNext]_rvars => RecoveryInv' /\ Spares'
  BY NextRecovery, NextSpares
<1>3. RecoveryInv /\ Spares /\ [RecoveryNext]_rvars => [Stays]_rvars
  <2> SUFFICES ASSUME RecoveryInv, Spares, RecoveryNext, NEW f \in failed["cdns-to-tsv"],
                      f \notin failed'["cdns-to-tsv"]
               PROVE  \/ f \in pending'["incoming"] \/ tsv'["incoming"][f] # "none"
                      \/ tsv'["error"][f] # "none" \/ head'[f] > 0
    OBVIOUS
  <2>0. TypeOK /\ OperatorType /\ OneSource
    BY DEF RecoveryInv, Spares
  <2>1. UnlinkError
    <3>1. CASE WorkersNext
      BY <2>0, <3>1, WorkersGrowFailed
    <3>2. CASE \/ (\E g \in Files : Arrive(g)) \/ (\E i \in Importers : ImporterNext(i))
               \/ OperatorNext /\ ~UnlinkError
      BY <3>2 DEF Arrive, ImporterNext, List, LinkIncoming, AddCdnsToTsv, LinkPcap,
         AddCdnsToPcap, Rename, Finish, OperatorNext, RunCommand, Reload, Run, NextLoop,
         TakePending, LinkCdns, LinkTsv, LinkFails, RegenPending, RegenAborts, AddTarget,
         vars, disk, cdnsFiles
    <3> QED BY <3>1, <3>2, NothingFails DEF RecoveryNext
  <2>2. /\ oppc = "unlink" /\ target \in Jobs /\ source = "error"
        /\ failed' = [failed EXCEPT ![target.queue] = @ \ {target.file}]
        /\ UNCHANGED <<tsv, pending, head>>
    BY <2>0, <2>1 DEF UnlinkError, OperatorType, database
  <2>3. f \in Files /\ Targeted("cdns-to-tsv", f)
    BY <2>0, <2>2 DEF TypeOK, Targeted
  <2>4. TargetInv
    BY <2>0, <2>2 DEF Spares, OneSource, SafeInv
  <2> QED BY <2>2, <2>3, <2>4 DEF TargetInv, TsvKept
<1> QED
  BY <1>1, <1>2, <1>3, PTL DEF RecoverySpec, RefillKeepsFile
=============================================================================
