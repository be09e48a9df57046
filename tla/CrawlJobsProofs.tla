--------------------------- MODULE CrawlJobsProofs ---------------------------
(* Theorems about CrawlJobs for any number of processes, workers, domains   *)
(* and jobs, whatever faults happen.                                        *)
EXTENDS CrawlJobs, TLAPS, WellFoundedInduction

(* The state of a worker and of an event loop, by what the code is doing.   *)
LEMMA WorkerShape ==
  ASSUME TypeOK, NEW w \in Workers
  PROVE  /\ run[w] \in Polling \union Executing
         /\ run[w].at \in {"poll", "start", "discover", "fetch"}
         /\ run[w].at # "poll" =>
              /\ run[w] \in Executing
              /\ run[w].job \in JobIds
              /\ run[w].seen \in Status
  BY DEF TypeOK, Polling, Executing

LEMMA LoopShape ==
  ASSUME TypeOK, NEW p \in Procs
  PROVE  /\ loop[p] \in Section
         /\ loop[p].op \in {"enqueue", "delete"} => loop[p].domain \in Domains
         /\ loop[p].op \in {"cancel", "locked", "checked", "begin", "finish", "failed", "reject"}
              => loop[p].job \in JobIds
         /\ loop[p].op \in {"locked", "checked", "begin", "finish", "failed", "reject"}
              => loop[p].worker \in Workers
         /\ loop[p].op \in {"finish", "failed", "reject"} => loop[p].seen \in Status
         /\ loop[p].op = "reset" => loop[p].stuck \subseteq JobIds
  BY DEF TypeOK, Section, Down, Free

(* Writing a status column keeps the table well typed. *)
LEMMA WriteType ==
  ASSUME TypeOK, NEW j \in JobIds, NEW seen \in Status, NEW new \in Status,
         Write(j, seen, new)
  PROVE  status' \in [JobIds -> Status]
  BY DEF TypeOK, Write

LEMMA BecomesType ==
  ASSUME TypeOK, NEW p \in Procs, NEW s \in Section, Becomes(p, s)
  PROVE  loop' \in [Procs -> Section]
  BY DEF TypeOK, Becomes

LEMMA LeaveType ==
  ASSUME TypeOK, NEW w \in Workers, Leave(w)
  PROVE  run' \in [Workers -> Polling \union Executing]
  BY DEF TypeOK, Leave, Polling

LEMMA ResumeType ==
  ASSUME TypeOK, NEW w \in Workers, NEW j \in JobIds,
         NEW at \in {"discover", "fetch"}, Resume(w, at, j)
  PROVE  run' \in [Workers -> Polling \union Executing]
  <1>1. [at |-> at, job |-> j, seen |-> status[j]] \in Executing
    BY DEF Executing, TypeOK
  <1>2. QED  BY <1>1 DEF TypeOK, Resume

-----------------------------------------------------------------------------
LEMMA InitType == Init => TypeOK
  BY MaxJobsAssumption
     DEF Init, TypeOK, JobIds, Status, Active, Terminal, Polling, Section, Down

LEMMA StatusMembers ==
  /\ {"QUEUED", "RUNNING", "COMPLETED", "FAILED", "CANCELLED", "absent", "gone"} = Status
  /\ Active \subseteq Status
  /\ Terminal \subseteq Status
  BY DEF Status, Active, Terminal

LEMMA SectionMembers ==
  /\ Free \in Section
  /\ Down \in Section
  BY DEF Section

(* Requests. *)
LEMMA RequestType ==
  ASSUME TypeOK, NEW p \in Procs,
         \/ \E d \in Domains : EnqueueCheck(p, d) \/ DeleteCheck(p, d)
         \/ \E j \in JobIds : CancelCheck(p, j)
         \/ EnqueueInsert(p)
         \/ CancelWrite(p)
         \/ DeleteCommit(p)
  PROVE  TypeOK'
  <1> USE StatusMembers, SectionMembers
  <1>1. CASE \E d \in Domains : EnqueueCheck(p, d) \/ DeleteCheck(p, d)
    <2>1. PICK d \in Domains : EnqueueCheck(p, d) \/ DeleteCheck(p, d)
      BY <1>1
    <2>2. /\ [op |-> "enqueue", domain |-> d] \in Section
          /\ [op |-> "delete", domain |-> d] \in Section
      BY DEF Section
    <2>3. loop' \in [Procs -> Section]
      BY <2>1, <2>2, BecomesType DEF EnqueueCheck, DeleteCheck
    <2>4. QED
      BY <2>1, <2>3 DEF EnqueueCheck, DeleteCheck, jobRows, TypeOK
  <1>2. CASE \E j \in JobIds : CancelCheck(p, j)
    <2>1. PICK j \in JobIds : CancelCheck(p, j)
      BY <1>2
    <2>2. [op |-> "cancel", job |-> j] \in Section
      BY DEF Section
    <2>3. loop' \in [Procs -> Section]
      BY <2>1, <2>2, BecomesType DEF CancelCheck
    <2>4. QED
      BY <2>1, <2>3 DEF CancelCheck, jobRows, TypeOK
  <1>3. CASE EnqueueInsert(p)
    <2>1. loop' \in [Procs -> Section]
      BY <1>3, BecomesType DEF EnqueueInsert
    <2>2. created' \in 0 .. MaxJobs
      BY <1>3, MaxJobsAssumption DEF EnqueueInsert, TypeOK
    <2>3. status' \in [JobIds -> Status]
      BY <1>3 DEF EnqueueInsert, TypeOK
    <2>4. domainOf' \in [JobIds -> Domains \union {NoDomain}]
      BY <1>3, LoopShape DEF EnqueueInsert, TypeOK
    <2>5. QED
      BY <1>3, <2>1, <2>2, <2>3, <2>4 DEF EnqueueInsert, TypeOK
  <1>4. CASE CancelWrite(p)
    <2>1. loop' \in [Procs -> Section]
      BY <1>4, BecomesType DEF CancelWrite
    <2>2. status' \in [JobIds -> Status]
      BY <1>4, LoopShape, WriteType DEF CancelWrite
    <2>3. QED
      BY <1>4, <2>1, <2>2 DEF CancelWrite, jobRows, TypeOK
  <1>5. CASE DeleteCommit(p)
    <2>1. loop' \in [Procs -> Section]
      BY <1>5, BecomesType DEF DeleteCommit
    <2>2. status' \in [JobIds -> Status]
      BY <1>5 DEF DeleteCommit, TypeOK
    <2>3. QED
      BY <1>5, <2>1, <2>2 DEF DeleteCommit, TypeOK
  <1>6. QED
    BY <1>1, <1>2, <1>3, <1>4, <1>5

(* Polls. *)
LEMMA PollType ==
  ASSUME TypeOK,
         \/ \E w \in Workers : PollIdle(w) \/ \E j \in JobIds : PollLock(w, j)
         \/ \E p \in Procs : PollCheck(p) \/ PollClaim(p)
  PROVE  TypeOK'
  <1> USE StatusMembers, SectionMembers
  <1>1. ASSUME NEW w \in Workers, PollIdle(w) PROVE TypeOK'
    BY <1>1 DEF PollIdle, vars, TypeOK
  <1>2. ASSUME NEW w \in Workers, NEW j \in JobIds, PollLock(w, j) PROVE TypeOK'
    <2>1. [op |-> "locked", worker |-> w, job |-> j] \in Section
      BY DEF Section
    <2>2. Home[w] \in Procs
      BY HomeAssumption
    <2>3. loop' \in [Procs -> Section]
      BY <1>2, <2>1, <2>2, BecomesType DEF PollLock
    <2>4. QED
      BY <1>2, <2>3 DEF PollLock, jobRows, TypeOK
  <1>3. ASSUME NEW p \in Procs, PollCheck(p) PROVE TypeOK'
    <2>1. loop[p] \in [op : {"locked", "checked", "begin"}, worker : Workers, job : JobIds]
      BY <1>3, LoopShape DEF PollCheck, Section, Down, Free
    <2>2. [loop[p] EXCEPT !.op = "checked"] \in Section
      BY <2>1 DEF Section
    <2>3. loop' \in [Procs -> Section]
      BY <1>3, <2>2, BecomesType DEF PollCheck
    <2>4. QED
      BY <1>3, <2>3 DEF PollCheck, jobRows, TypeOK
  <1>4. ASSUME NEW p \in Procs, PollClaim(p) PROVE TypeOK'
    <2>1. loop[p] \in [op : {"locked", "checked", "begin"}, worker : Workers, job : JobIds]
      BY <1>4, LoopShape DEF PollClaim, Section, Down, Free
    <2>2. [loop[p] EXCEPT !.op = "begin"] \in Section
      BY <2>1 DEF Section
    <2>3. loop' \in [Procs -> Section]
      BY <1>4, <2>2, BecomesType DEF PollClaim
    <2>4. status' \in [JobIds -> Status]
      BY <1>4, <2>1, WriteType DEF PollClaim
    <2>5. [at |-> "start", job |-> loop[p].job, seen |-> "RUNNING"] \in Executing
      BY <2>1 DEF Executing
    <2>6. run' \in [Workers -> Polling \union Executing]
      BY <1>4, <2>1, <2>5 DEF PollClaim, TypeOK
    <2>7. QED
      BY <1>4, <2>3, <2>4, <2>6 DEF PollClaim, jobRows, TypeOK
  <1>5. QED
    BY <1>1, <1>2, <1>3, <1>4

(* The executor. *)
LEMMA ExecutorType ==
  ASSUME TypeOK, NEW w \in Workers,
         \/ Discover(w) \/ StartFetching(w) \/ Heartbeat(w) \/ FinishRead(w)
         \/ FailRead(w) \/ Vanish(w) \/ FlushError(w)
  PROVE  TypeOK'
  <1> USE StatusMembers, SectionMembers
  <1> DEFINE j == run[w].job
  <1>1. /\ j \in JobIds
        /\ run[w].seen \in Status
        /\ Home[w] \in Procs
    BY WorkerShape, HomeAssumption
       DEF AtAwait, Discover, StartFetching, Heartbeat, FinishRead, FailRead, Vanish, FlushError
  <1>2. CASE Discover(w) \/ StartFetching(w)
    <2>1. run' \in [Workers -> Polling \union Executing]
      BY <1>1, <1>2, ResumeType DEF Discover, StartFetching
    <2>2. QED
      BY <1>2, <2>1 DEF Discover, StartFetching, jobRows, TypeOK
  <1>3. CASE Heartbeat(w)
    BY <1>1, <1>3 DEF Heartbeat, TypeOK
  <1>4. CASE FinishRead(w)
    <2>1. [op |-> "finish", worker |-> w, job |-> j, seen |-> status[j]] \in Section
      BY <1>1 DEF Section, TypeOK
    <2>2. loop' \in [Procs -> Section]
      BY <1>1, <1>4, <2>1, BecomesType DEF FinishRead
    <2>3. QED
      BY <1>4, <2>2 DEF FinishRead, jobRows, TypeOK
  <1>5. CASE FailRead(w)
    <2>1. PICK s \in {status[j]} \union (IF run[w].at = "discover" THEN {run[w].seen} ELSE {}) :
            Becomes(Home[w], [op |-> "failed", worker |-> w, job |-> j, seen |-> s])
      BY <1>5 DEF FailRead
    <2>2. s \in Status
      BY <1>1 DEF TypeOK
    <2>3. [op |-> "failed", worker |-> w, job |-> j, seen |-> s] \in Section
      BY <1>1, <2>2 DEF Section
    <2>4. loop' \in [Procs -> Section]
      BY <1>1, <2>1, <2>3, BecomesType
    <2>5. QED
      BY <1>5, <2>4 DEF FailRead, jobRows, TypeOK
  <1>6. CASE Vanish(w) \/ FlushError(w)
    <2>1. run' \in [Workers -> Polling \union Executing]
      BY <1>6, LeaveType DEF Vanish, FlushError
    <2>2. QED
      BY <1>6, <2>1 DEF Vanish, FlushError, jobRows, TypeOK
  <1>7. QED
    BY <1>2, <1>3, <1>4, <1>5, <1>6

(* The executor's synchronous sections, restarts and time. *)
LEMMA SectionType ==
  ASSUME TypeOK, NEW p \in Procs,
         \/ Begin(p) \/ FinishWrite(p) \/ FailWrite(p)
         \/ Crash(p) \/ ResetRead(p) \/ ResetWrite(p)
  PROVE  TypeOK'
  <1> USE StatusMembers, SectionMembers
  <1>1. CASE Begin(p)
    <2>1. loop[p].job \in JobIds /\ loop[p].worker \in Workers
      BY <1>1, LoopShape DEF Begin
    <2>2. status[loop[p].job] \in Status
      BY <2>1 DEF TypeOK
    <2>3. [op |-> "reject", worker |-> loop[p].worker, job |-> loop[p].job,
           seen |-> status[loop[p].job]] \in Section
      BY <2>1, <2>2 DEF Section
    <2>4. loop' \in [Procs -> Section]
      BY <1>1, <2>3, BecomesType DEF Begin
    <2>5. run' \in [Workers -> Polling \union Executing]
      BY <1>1, <2>1, LeaveType, ResumeType DEF Begin, TypeOK
    <2>6. QED
      BY <1>1, <2>4, <2>5 DEF Begin, jobRows, TypeOK
  <1>2. CASE FinishWrite(p) \/ FailWrite(p)
    <2>1. /\ loop[p].job \in JobIds
          /\ loop[p].worker \in Workers
          /\ loop[p].seen \in Status
      BY <1>2, LoopShape DEF FinishWrite, FailWrite
    <2>2. loop' \in [Procs -> Section]
      BY <1>2, BecomesType DEF FinishWrite, FailWrite
    <2>3. status' \in [JobIds -> Status]
      <3>1. CASE UNCHANGED status
        BY <3>1 DEF TypeOK
      <3>2. CASE \/ Write(loop[p].job, loop[p].seen, "COMPLETED")
                 \/ Write(loop[p].job, loop[p].seen, "FAILED")
        BY <3>2, <2>1, WriteType
      <3>3. QED
        BY <1>2, <3>1, <3>2 DEF FinishWrite, FailWrite
    <2>4. run' \in [Workers -> Polling \union Executing]
      BY <1>2, <2>1, LeaveType DEF FinishWrite, FailWrite
    <2>5. QED
      BY <1>2, <2>2, <2>3, <2>4 DEF FinishWrite, FailWrite, jobRows, TypeOK
  <1>3. CASE Crash(p)
    <2>1. loop' \in [Procs -> Section]
      BY <1>3, BecomesType DEF Crash
    <2>2. run' \in [Workers -> Polling \union Executing]
      BY <1>3 DEF Crash, TypeOK, Polling
    <2>3. QED
      BY <1>3, <2>1, <2>2 DEF Crash, jobRows, TypeOK
  <1>4. CASE ResetRead(p)
    <2>1. [op |-> "reset",
           stuck |-> {j \in JobIds : status[j] = "RUNNING" /\ heartbeat[j] = "stale"}] \in Section
      BY DEF Section
    <2>2. loop' \in [Procs -> Section]
      BY <1>4, <2>1, BecomesType DEF ResetRead
    <2>3. QED
      BY <1>4, <2>2 DEF ResetRead, jobRows, TypeOK
  <1>5. CASE ResetWrite(p)
    <2>1. loop' \in [Procs -> Section]
      BY <1>5, BecomesType DEF ResetWrite
    <2>2. status' \in [JobIds -> Status]
      BY <1>5 DEF ResetWrite, TypeOK
    <2>3. recovered' \in [JobIds -> BOOLEAN]
      BY <1>5 DEF ResetWrite, TypeOK
    <2>4. QED
      BY <1>5, <2>1, <2>2, <2>3 DEF ResetWrite, TypeOK
  <1>6. QED
    BY <1>1, <1>2, <1>3, <1>4, <1>5

LEMMA StepType == TypeOK /\ [Next]_vars => TypeOK'
  <1> SUFFICES ASSUME TypeOK, [Next]_vars PROVE TypeOK'
    OBVIOUS
  <1>1. ASSUME NEW j \in JobIds, HeartbeatAges(j) PROVE TypeOK'
    BY <1>1 DEF HeartbeatAges, TypeOK
  <1>2. CASE UNCHANGED vars
    BY <1>2 DEF vars, TypeOK
  <1>3. QED
    BY <1>1, <1>2, RequestType, PollType, ExecutorType, SectionType DEF Next, Continue

(* Every reachable state of the queue is well typed: in particular every    *)
(* section and every worker refers to rows, workers and domains that exist. *)
THEOREM TypeCorrect == Spec => []TypeOK
  BY InitType, StepType, PTL DEF Spec

-----------------------------------------------------------------------------
(* The claim protocol of the crawl queue: FOR UPDATE SKIP LOCKED hands a    *)
(* queued job to one worker.  The proof is for any number of processes,     *)
(* workers, domains and jobs, and for every fault.                          *)
Executes(w) == run[w].at # "poll"

Claiming == {"locked", "checked"}
OfWorker == {"locked", "checked", "begin", "finish", "failed", "reject"}

(* Rows that are in the queue, executed, claimed or being recovered were    *)
(* inserted before: the id of the next insert refers to nothing yet.        *)
Allocated ==
  /\ \A j \in JobIds : status[j] \in Active => j <= created
  /\ \A w \in Workers : Executes(w) => run[w].job <= created
  /\ \A p \in Procs : loop[p].op \in {"locked", "checked", "begin"} => loop[p].job <= created
  /\ \A p \in Procs : loop[p].op = "reset" => \A j \in loop[p].stuck : j <= created

(* A section belongs to a worker of its own process, and run_job starts on  *)
(* the job that was just claimed.                                           *)
OwnSection ==
  /\ \A p \in Procs : loop[p].op \in OfWorker => Home[loop[p].worker] = p
  /\ \A p \in Procs :
       loop[p].op = "begin" =>
         /\ run[loop[p].worker].at = "start"
         /\ run[loop[p].worker].job = loop[p].job

(* The row lock: one process at a time holds a row, and it stays queued.    *)
LockHolds ==
  /\ \A p \in Procs : loop[p].op \in Claiming => status[loop[p].job] = "QUEUED"
  /\ \A p, q \in Procs :
       loop[p].op \in Claiming /\ loop[q].op \in Claiming /\ loop[p].job = loop[q].job => p = q

(* A job somebody executes is in the queue again only after a recovery.     *)
QueuedAgainOnlyIfRecovered ==
  \A w \in Workers :
    Executes(w) /\ status[run[w].job] = "QUEUED" => recovered[run[w].job]

ClaimInv ==
  /\ TypeOK
  /\ Allocated
  /\ OwnSection
  /\ LockHolds
  /\ QueuedAgainOnlyIfRecovered
  /\ SameJobOnlyAfterRecovery
-----------------------------------------------------------------------------
LEMMA InitClaim == Init => ClaimInv
  BY InitType DEF Init, ClaimInv, Allocated, OwnSection, LockHolds, QueuedAgainOnlyIfRecovered,
     SameJobOnlyAfterRecovery, Executes, Claiming, OfWorker, Active, Down

(* Ending a section: process p gives its section up, workers of p may stop  *)
(* executing, and rows nobody has locked may leave the queue.  This covers  *)
(* every write of a final status, every exit of an executor and the crash.  *)
LEMMA RetreatClaim ==
  ASSUME ClaimInv, TypeOK', NEW p \in Procs,
         loop'[p] \in {Free, Down},
         \A q \in Procs : q # p => loop'[q] = loop[q],
         UNCHANGED <<created, recovered>>,
         \A w \in Workers : run'[w] = run[w] \/ (Home[w] = p /\ ~Executes(w)'),
         \A j \in JobIds :
           status'[j] = status[j] \/ (~RowLocked(j) /\ status'[j] \notin Active)
  PROVE  ClaimInv'
  <1> USE DEF Free, Down
  <1>1. TypeOK
    BY DEF ClaimInv
  <1>2. ASSUME NEW q \in Procs, loop'[q].op \notin {"free", "down"}
        PROVE  q # p /\ loop'[q] = loop[q]
    BY <1>2
  <1>3. ASSUME NEW w \in Workers, Executes(w)'
        PROVE  run'[w] = run[w] /\ Executes(w)
    BY <1>3 DEF Executes
  <1>4. Allocated'
    <2>1. \A j \in JobIds : status'[j] \in Active => j <= created'
      BY DEF ClaimInv, Allocated
    <2>2. \A w \in Workers : Executes(w)' => run'[w].job <= created'
      BY <1>3 DEF ClaimInv, Allocated
    <2>3. \A q \in Procs : loop'[q].op \in {"locked", "checked", "begin"}
                             => loop'[q].job <= created'
      BY <1>2 DEF ClaimInv, Allocated
    <2>4. \A q \in Procs : loop'[q].op = "reset" => \A j \in loop'[q].stuck : j <= created'
      BY <1>2 DEF ClaimInv, Allocated
    <2>5. QED
      BY <2>1, <2>2, <2>3, <2>4 DEF Allocated, Executes
  <1>5. OwnSection'
    <2>1. \A q \in Procs : loop'[q].op \in OfWorker => Home[loop'[q].worker] = q
      BY <1>2 DEF ClaimInv, OwnSection, OfWorker
    <2>2. ASSUME NEW q \in Procs, loop'[q].op = "begin"
          PROVE  /\ run'[loop'[q].worker].at = "start"
                 /\ run'[loop'[q].worker].job = loop'[q].job
      <3>1. q # p /\ loop'[q] = loop[q]
        BY <1>2, <2>2
      <3>2. loop[q].worker \in Workers /\ Home[loop[q].worker] = q
        BY <1>1, <2>2, <3>1, LoopShape DEF ClaimInv, OwnSection, OfWorker
      <3>3. run'[loop[q].worker] = run[loop[q].worker]
        BY <3>1, <3>2
      <3>4. QED
        BY <2>2, <3>1, <3>3 DEF ClaimInv, OwnSection
    <2>3. QED
      BY <2>1, <2>2 DEF OwnSection
  <1>6. LockHolds'
    <2>1. ASSUME NEW q \in Procs, loop'[q].op \in Claiming
          PROVE  status'[loop'[q].job] = "QUEUED"
      <3>1. loop'[q] = loop[q]
        BY <1>2, <2>1 DEF Claiming
      <3>2. loop[q].job \in JobIds /\ RowLocked(loop[q].job)
        BY <1>1, <2>1, <3>1, LoopShape DEF Claiming, RowLocked
      <3>3. status'[loop[q].job] = status[loop[q].job]
        BY <3>2
      <3>4. QED
        BY <2>1, <3>1, <3>3 DEF ClaimInv, LockHolds
    <2>2. \A q, r \in Procs :
            loop'[q].op \in Claiming /\ loop'[r].op \in Claiming
              /\ loop'[q].job = loop'[r].job => q = r
      BY <1>2 DEF ClaimInv, LockHolds, Claiming
    <2>3. QED
      BY <2>1, <2>2 DEF LockHolds
  <1>7. QueuedAgainOnlyIfRecovered'
    <2>1. ASSUME NEW w \in Workers, Executes(w)', status'[run'[w].job] = "QUEUED"
          PROVE  recovered'[run'[w].job]
      <3>1. run'[w] = run[w] /\ Executes(w) /\ run[w].job \in JobIds
        BY <1>1, <1>3, <2>1, WorkerShape DEF Executes
      <3>2. status[run[w].job] = "QUEUED"
        BY <2>1, <3>1 DEF Active
      <3>3. QED
        BY <3>1, <3>2 DEF ClaimInv, QueuedAgainOnlyIfRecovered
    <2>2. QED
      BY <2>1 DEF QueuedAgainOnlyIfRecovered, Executes
  <1>8. SameJobOnlyAfterRecovery'
    BY <1>3 DEF ClaimInv, SameJobOnlyAfterRecovery, Executes
  <1>9. QED
    BY <1>4, <1>5, <1>6, <1>7, <1>8 DEF ClaimInv

(* Opening a section: process p's loop enters one that claims nothing, and  *)
(* nothing else changes.                                                    *)
LEMMA OpenClaim ==
  ASSUME ClaimInv, TypeOK', NEW p \in Procs,
         \A q \in Procs : q # p => loop'[q] = loop[q],
         loop'[p].op \notin Claiming \union {"begin"},
         loop'[p].op \in OfWorker => Home[loop'[p].worker] = p,
         loop'[p].op = "reset" => \A j \in loop'[p].stuck : status[j] \in Active,
         UNCHANGED <<created, recovered, status, run>>
  PROVE  ClaimInv'
  <1> USE DEF Claiming
  <1>1. Allocated'
    <2>1. ASSUME NEW q \in Procs, loop'[q].op = "reset", NEW j \in loop'[q].stuck
          PROVE  j <= created'
      <3>1. CASE q = p
        <4>1. j \in JobIds
          BY <2>1, LoopShape DEF TypeOK, Section, Free, Down
        <4>2. QED
          BY <2>1, <3>1, <4>1 DEF ClaimInv, Allocated
      <3>2. CASE q # p
        BY <2>1, <3>2 DEF ClaimInv, Allocated
      <3>3. QED
        BY <3>1, <3>2
    <2>2. QED
      BY <2>1 DEF ClaimInv, Allocated, Executes
  <1>2. OwnSection'
    BY DEF ClaimInv, OwnSection
  <1>3. LockHolds'
    BY DEF ClaimInv, LockHolds
  <1>4. QueuedAgainOnlyIfRecovered' /\ SameJobOnlyAfterRecovery'
    BY DEF ClaimInv, QueuedAgainOnlyIfRecovered, SameJobOnlyAfterRecovery, Executes
  <1>5. QED
    BY <1>1, <1>2, <1>3, <1>4 DEF ClaimInv

(* A worker that executes a job goes on with the same job. *)
LEMMA ContinueClaim ==
  ASSUME ClaimInv, TypeOK', NEW w \in Workers, NEW at \in {"discover", "fetch"},
         Executes(w), Resume(w, at, run[w].job),
         \A q \in Procs : loop'[q].op # "free" => loop'[q] = loop[q] /\ q # Home[w],
         UNCHANGED <<created, recovered, status>>
  PROVE  ClaimInv'
  <1>1. ASSUME NEW v \in Workers
        PROVE  /\ Executes(v)' <=> Executes(v)
               /\ Executes(v) => run'[v].job = run[v].job
               /\ v # w => run'[v] = run[v]
    BY DEF Resume, Executes, ClaimInv, TypeOK
  <1>2. Allocated'
    BY <1>1 DEF ClaimInv, Allocated, Executes
  <1>3. OwnSection'
    <2>1. ASSUME NEW q \in Procs, loop'[q].op = "begin"
          PROVE  /\ run'[loop'[q].worker].at = "start"
                 /\ run'[loop'[q].worker].job = loop'[q].job
      <3>1. loop'[q] = loop[q] /\ q # Home[w]
        BY <2>1
      <3>2. loop[q].worker \in Workers /\ Home[loop[q].worker] = q
        BY <2>1, <3>1, LoopShape DEF ClaimInv, OwnSection, OfWorker
      <3>3. QED
        BY <1>1, <2>1, <3>1, <3>2 DEF ClaimInv, OwnSection
    <2>2. \A q \in Procs : loop'[q].op \in OfWorker => Home[loop'[q].worker] = q
      BY DEF ClaimInv, OwnSection, OfWorker
    <2>3. QED
      BY <2>1, <2>2 DEF OwnSection
  <1>4. LockHolds'
    BY DEF ClaimInv, LockHolds, Claiming
  <1>5. QueuedAgainOnlyIfRecovered'
    BY <1>1 DEF ClaimInv, QueuedAgainOnlyIfRecovered, Executes
  <1>6. SameJobOnlyAfterRecovery'
    BY <1>1 DEF ClaimInv, SameJobOnlyAfterRecovery, Executes
  <1>7. QED
    BY <1>2, <1>3, <1>4, <1>5, <1>6 DEF ClaimInv

(* The insert creates a queued row that nothing refers to. *)
LEMMA InsertClaim ==
  ASSUME ClaimInv, TypeOK', NEW p \in Procs, EnqueueInsert(p)
  PROVE  ClaimInv'
  <1>1. CASE loop[p].domain \in live /\ created < MaxJobs
    <2>1. /\ created' = created + 1
          /\ status' = [status EXCEPT ![created + 1] = "QUEUED"]
          /\ loop' = [loop EXCEPT ![p] = Free]
          /\ run' = run /\ recovered' = recovered
      BY <1>1 DEF EnqueueInsert, Becomes
    <2>2. created \in Nat /\ created + 1 \in JobIds
      BY <1>1, MaxJobsAssumption DEF ClaimInv, TypeOK, JobIds
    <2>3. \A q \in Procs : loop'[q].op # "free" => q # p /\ loop'[q] = loop[q]
      BY <2>1 DEF ClaimInv, TypeOK, Free
    <2>4. \A j \in JobIds : j <= created => status'[j] = status[j]
      BY <2>1, <2>2 DEF ClaimInv, TypeOK, JobIds
    <2>5. Allocated'
      <3>1. \A j \in JobIds : status'[j] \in Active => j <= created'
        BY <2>1, <2>2 DEF ClaimInv, TypeOK, Allocated, JobIds
      <3>2. \A w \in Workers : Executes(w) => run[w].job <= created'
        BY <2>1, <2>2, WorkerShape DEF ClaimInv, Allocated, Executes, JobIds
      <3>3. ASSUME NEW q \in Procs, loop'[q].op \in {"locked", "checked", "begin"}
            PROVE  loop'[q].job <= created'
        BY <2>1, <2>2, <2>3, <3>3, LoopShape DEF ClaimInv, Allocated, JobIds
      <3>4. ASSUME NEW q \in Procs, loop'[q].op = "reset", NEW j \in loop'[q].stuck
            PROVE  j <= created'
        <4>1. loop'[q] = loop[q] /\ j \in JobIds
          BY <2>3, <3>4, LoopShape DEF ClaimInv
        <4>2. QED
          BY <2>1, <2>2, <3>4, <4>1 DEF ClaimInv, Allocated, JobIds
      <3>5. QED
        BY <2>1, <3>1, <3>2, <3>3, <3>4 DEF Allocated, Executes
    <2>6. OwnSection'
      BY <2>1, <2>3 DEF ClaimInv, OwnSection, OfWorker
    <2>7. LockHolds'
      <3>1. ASSUME NEW q \in Procs, loop'[q].op \in Claiming
            PROVE  status'[loop'[q].job] = "QUEUED"
        BY <2>3, <2>4, <3>1, LoopShape DEF ClaimInv, LockHolds, Allocated, Claiming
      <3>2. QED
        BY <2>3, <3>1 DEF ClaimInv, LockHolds, Claiming
    <2>8. QueuedAgainOnlyIfRecovered'
      BY <2>1, <2>4, WorkerShape DEF ClaimInv, Allocated, QueuedAgainOnlyIfRecovered, Executes
    <2>9. SameJobOnlyAfterRecovery'
      BY <2>1 DEF ClaimInv, SameJobOnlyAfterRecovery
    <2>10. QED
      BY <2>5, <2>6, <2>7, <2>8, <2>9 DEF ClaimInv
  <1>2. CASE ~(loop[p].domain \in live /\ created < MaxJobs)
    <2>1. UNCHANGED <<created, status, run, recovered>> /\ loop' = [loop EXCEPT ![p] = Free]
      BY <1>2 DEF EnqueueInsert, Becomes
    <2>2. QED
      BY <2>1, RetreatClaim DEF ClaimInv, TypeOK
  <1>3. QED
    BY <1>1, <1>2

(* The poll takes the lock of a queued row that nobody holds. *)
LEMMA LockClaim ==
  ASSUME ClaimInv, TypeOK', NEW w \in Workers, NEW j \in JobIds, PollLock(w, j)
  PROVE  ClaimInv'
  BY HomeAssumption
     DEF ClaimInv, Allocated, OwnSection, LockHolds, QueuedAgainOnlyIfRecovered,
         SameJobOnlyAfterRecovery, Executes, Claiming, OfWorker, Active, TypeOK,
         PollLock, Claimable, RowLocked, Becomes, AtAwait, jobRows, Free

LEMMA CheckClaim ==
  ASSUME ClaimInv, TypeOK', NEW p \in Procs, PollCheck(p)
  PROVE  ClaimInv'
  BY LoopShape
     DEF ClaimInv, Allocated, OwnSection, LockHolds, QueuedAgainOnlyIfRecovered,
         SameJobOnlyAfterRecovery, Executes, Claiming, OfWorker, Active, TypeOK,
         PollCheck, Becomes, jobRows, Free

(* The claim: the row is queued and locked by this process alone, so a job  *)
(* that was never recovered has no other executor.                          *)
LEMMA CommitClaim ==
  ASSUME ClaimInv, TypeOK', NEW p \in Procs, PollClaim(p)
  PROVE  ClaimInv'
  BY LoopShape
     DEF ClaimInv, Allocated, OwnSection, LockHolds, QueuedAgainOnlyIfRecovered,
         SameJobOnlyAfterRecovery, Executes, Claiming, OfWorker, Active, TypeOK,
         PollClaim, Write, Becomes, jobRows, Free

LEMMA BeginClaim ==
  ASSUME ClaimInv, TypeOK', NEW p \in Procs, Begin(p)
  PROVE  ClaimInv'
  <1> DEFINE w == loop[p].worker
             j == loop[p].job
  <1>1. /\ w \in Workers /\ Home[w] = p /\ Executes(w) /\ run[w].job = j
        /\ j \in JobIds
    BY LoopShape DEF ClaimInv, OwnSection, OfWorker, Begin, Executes
  <1>2. UNCHANGED <<created, recovered, status>>
    BY DEF Begin, jobRows
  <1>3. CASE Resume(w, "discover", j) /\ Becomes(p, Free)
    BY <1>1, <1>2, <1>3, ContinueClaim DEF ClaimInv, TypeOK, Free, Becomes
  <1>4. CASE Leave(w) /\ Becomes(p, Free)
    <2>1. \A v \in Workers : run'[v] = run[v] \/ (Home[v] = p /\ ~Executes(v)')
      BY <1>1, <1>4 DEF Leave, Executes, ClaimInv, TypeOK
    <2>2. QED
      BY <1>2, <1>4, <2>1, RetreatClaim DEF ClaimInv, TypeOK, Becomes
  <1>5. CASE /\ Becomes(p, [op |-> "reject", worker |-> w, job |-> j, seen |-> status[j]])
             /\ UNCHANGED run
    <2>1. loop'[p] = [op |-> "reject", worker |-> w, job |-> j, seen |-> status[j]]
      BY <1>5 DEF Becomes, ClaimInv, TypeOK
    <2>2. \A q \in Procs : q # p => loop'[q] = loop[q]
      BY <1>5 DEF Becomes, ClaimInv, TypeOK
    <2>3. QED
      BY <1>1, <1>2, <1>5, <2>1, <2>2, OpenClaim DEF Claiming
  <1>6. QED
    BY <1>3, <1>4, <1>5 DEF Begin

(* The recovery puts rows back into the queue and marks them. *)
LEMMA ResetClaim ==
  ASSUME ClaimInv, TypeOK', NEW p \in Procs, ResetWrite(p)
  PROVE  ClaimInv'
  <1>1. CASE \E j \in loop[p].stuck : status[j] = "gone"
    <2>1. /\ UNCHANGED <<created, status, run, recovered>>
          /\ loop' = [loop EXCEPT ![p] = Down]
      BY <1>1 DEF ResetWrite, Becomes
    <2>2. QED
      BY <2>1, RetreatClaim DEF ClaimInv, TypeOK
  <1>2. CASE ~\E j \in loop[p].stuck : status[j] = "gone"
    <2> DEFINE stuck == loop[p].stuck
    <2>1. /\ UNCHANGED <<created, run>>
          /\ loop' = [loop EXCEPT ![p] = Free]
          /\ status' = [j \in JobIds |-> IF j \in stuck THEN "QUEUED" ELSE status[j]]
          /\ recovered' = [j \in JobIds |-> j \in stuck \/ recovered[j]]
      BY <1>2 DEF ResetWrite, Becomes
    <2>2. \A q \in Procs : loop'[q].op # "free" => q # p /\ loop'[q] = loop[q]
      BY <2>1 DEF ClaimInv, TypeOK, Free
    <2>3. \A j \in stuck : j \in JobIds /\ j <= created
      BY LoopShape DEF ClaimInv, Allocated, ResetWrite
    <2>4. Allocated'
      BY <2>1, <2>2, <2>3 DEF ClaimInv, Allocated, Executes
    <2>5. OwnSection'
      BY <2>1, <2>2 DEF ClaimInv, OwnSection, OfWorker
    <2>6. LockHolds'
      <3>1. ASSUME NEW q \in Procs, loop'[q].op \in Claiming
            PROVE  status'[loop'[q].job] = "QUEUED"
        BY <2>1, <2>2, <3>1, LoopShape DEF ClaimInv, LockHolds, Claiming
      <3>2. QED
        BY <2>2, <3>1 DEF ClaimInv, LockHolds, Claiming
    <2>7. ASSUME NEW w \in Workers, Executes(w)
          PROVE  /\ run[w].job \in JobIds
                 /\ status'[run[w].job] = "QUEUED" => recovered'[run[w].job]
                 /\ recovered[run[w].job] => recovered'[run[w].job]
      <3>1. run[w].job \in JobIds
        BY <2>7, WorkerShape DEF ClaimInv, Executes
      <3>2. QED
        BY <2>1, <2>7, <3>1 DEF ClaimInv, QueuedAgainOnlyIfRecovered
    <2>8. QueuedAgainOnlyIfRecovered'
      BY <2>1, <2>7 DEF QueuedAgainOnlyIfRecovered, Executes
    <2>9. SameJobOnlyAfterRecovery'
      BY <2>1, <2>7 DEF ClaimInv, SameJobOnlyAfterRecovery, Executes
    <2>10. QED
      BY <2>4, <2>5, <2>6, <2>8, <2>9 DEF ClaimInv
  <1>3. QED
    BY <1>1, <1>2

(* Sections that end with a final status, a deletion or an exit. *)
LEMMA EndClaim ==
  ASSUME ClaimInv, TypeOK', NEW p \in Procs,
         CancelWrite(p) \/ DeleteCommit(p) \/ FinishWrite(p) \/ FailWrite(p) \/ Crash(p)
  PROVE  ClaimInv'
  <1> USE DEF ClaimInv, TypeOK
  <1>1. loop'[p] \in {Free, Down} /\ \A q \in Procs : q # p => loop'[q] = loop[q]
    BY DEF CancelWrite, DeleteCommit, FinishWrite, FailWrite, Crash, Becomes
  <1>2. UNCHANGED <<created, recovered>>
    BY DEF CancelWrite, DeleteCommit, FinishWrite, FailWrite, Crash, jobRows
  <1>3. \A w \in Workers : run'[w] = run[w] \/ (Home[w] = p /\ ~Executes(w)')
    BY LoopShape DEF CancelWrite, DeleteCommit, FinishWrite, FailWrite, Crash, Leave,
       OwnSection, OfWorker, Executes
  <1>4. \A j \in JobIds :
          status'[j] = status[j] \/ (~RowLocked(j) /\ status'[j] \notin Active)
    <2>1. CASE DeleteCommit(p)
      BY <2>1 DEF DeleteCommit, JobsOf, Active
    <2>2. CASE CancelWrite(p) \/ FinishWrite(p) \/ FailWrite(p)
      BY <2>2, LoopShape DEF CancelWrite, FinishWrite, FailWrite, Write, Active
    <2>3. CASE Crash(p)
      BY <2>3 DEF Crash
    <2>4. QED
      BY <2>1, <2>2, <2>3
  <1>5. QED
    BY <1>1, <1>2, <1>3, <1>4, RetreatClaim

LEMMA ExecutorClaim ==
  ASSUME ClaimInv, TypeOK', NEW w \in Workers,
         \/ Discover(w) \/ StartFetching(w) \/ Heartbeat(w) \/ FinishRead(w)
         \/ FailRead(w) \/ Vanish(w) \/ FlushError(w)
  PROVE  ClaimInv'
  <1>1. Home[w] \in Procs
    BY HomeAssumption
  <1>2. CASE Discover(w) \/ StartFetching(w)
    BY <1>1, <1>2, ContinueClaim
       DEF Discover, StartFetching, jobRows, AtAwait, Executes, Free
  <1>3. CASE Heartbeat(w)
    BY <1>3 DEF Heartbeat, ClaimInv, Allocated, OwnSection, LockHolds,
       QueuedAgainOnlyIfRecovered, SameJobOnlyAfterRecovery, Executes
  <1>4. CASE FinishRead(w) \/ FailRead(w)
    <2>1. \A q \in Procs : q # Home[w] => loop'[q] = loop[q]
      BY <1>1, <1>4 DEF FinishRead, FailRead, Becomes, ClaimInv, TypeOK
    <2>2. loop'[Home[w]].op \in {"finish", "failed"} /\ loop'[Home[w]].worker = w
      <3>1. \E s \in Status :
              \/ loop'[Home[w]] = [op |-> "finish", worker |-> w, job |-> run[w].job, seen |-> s]
              \/ loop'[Home[w]] = [op |-> "failed", worker |-> w, job |-> run[w].job, seen |-> s]
        <4>1. loop \in [Procs -> Section] /\ Executes(w)
          BY <1>4 DEF FinishRead, FailRead, AtAwait, Executes, ClaimInv, TypeOK
        <4>2. status[run[w].job] \in Status /\ run[w].seen \in Status
          BY <4>1, WorkerShape DEF Executes, ClaimInv, TypeOK
        <4>3. QED
          BY <1>1, <1>4, <4>1, <4>2 DEF FinishRead, FailRead, Becomes
      <3>2. QED
        BY <3>1
    <2>3. UNCHANGED <<created, recovered, status, run>>
      BY <1>4 DEF FinishRead, FailRead, jobRows
    <2>4. QED
      BY <1>1, <2>1, <2>2, <2>3, OpenClaim DEF Claiming
  <1>5. CASE Vanish(w) \/ FlushError(w)
    <2>1. /\ loop[Home[w]] = Free
          /\ UNCHANGED <<loop, status, created, recovered>>
          /\ Leave(w)
      BY <1>5 DEF Vanish, FlushError, AtAwait, jobRows
    <2>2. \A v \in Workers : run'[v] = run[v] \/ (Home[v] = Home[w] /\ ~Executes(v)')
      BY <2>1 DEF Leave, Executes, ClaimInv, TypeOK
    <2>3. QED
      BY <1>1, <2>1, <2>2, RetreatClaim
  <1>6. QED
    BY <1>2, <1>3, <1>4, <1>5

LEMMA StepClaim == ClaimInv /\ [Next]_vars => ClaimInv'
  <1> SUFFICES ASSUME ClaimInv, [Next]_vars PROVE ClaimInv'
    OBVIOUS
  <1>1. TypeOK'
    BY StepType DEF ClaimInv
  <1>2. ASSUME NEW p \in Procs, NEW d \in Domains, EnqueueCheck(p, d) \/ DeleteCheck(p, d)
        PROVE  ClaimInv'
    BY <1>1, <1>2, OpenClaim
       DEF EnqueueCheck, DeleteCheck, Becomes, jobRows, ClaimInv, TypeOK, Claiming, OfWorker
  <1>3. ASSUME NEW p \in Procs, NEW j \in JobIds, CancelCheck(p, j)
        PROVE  ClaimInv'
    BY <1>1, <1>3, OpenClaim
       DEF CancelCheck, Becomes, jobRows, ClaimInv, TypeOK, Claiming, OfWorker
  <1>4. ASSUME NEW p \in Procs, ResetRead(p)
        PROVE  ClaimInv'
    BY <1>1, <1>4, OpenClaim
       DEF ResetRead, Becomes, jobRows, ClaimInv, TypeOK, Claiming, OfWorker, Active
  <1>5. ASSUME NEW p \in Procs, Continue(p) \/ Crash(p)
        PROVE  ClaimInv'
    BY <1>1, <1>4, <1>5, InsertClaim, CheckClaim, CommitClaim, BeginClaim, ResetClaim, EndClaim
       DEF Continue
  <1>6. ASSUME NEW w \in Workers, PollIdle(w) \/ \E j \in JobIds : PollLock(w, j)
        PROVE  ClaimInv'
    <2>1. CASE PollIdle(w)
      BY <2>1 DEF PollIdle, vars, ClaimInv, TypeOK, Allocated, OwnSection, LockHolds,
         QueuedAgainOnlyIfRecovered, SameJobOnlyAfterRecovery, Executes
    <2>2. QED
      BY <1>1, <1>6, <2>1, LockClaim
  <1>7. ASSUME NEW j \in JobIds, HeartbeatAges(j) PROVE ClaimInv'
    BY <1>1, <1>7 DEF HeartbeatAges, ClaimInv, Allocated, OwnSection, LockHolds,
       QueuedAgainOnlyIfRecovered, SameJobOnlyAfterRecovery, Executes
  <1>8. CASE UNCHANGED vars
    BY <1>8 DEF vars, ClaimInv, TypeOK, Allocated, OwnSection, LockHolds,
       QueuedAgainOnlyIfRecovered, SameJobOnlyAfterRecovery, Executes
  <1>9. QED
    BY <1>1, <1>2, <1>3, <1>5, <1>6, <1>7, <1>8, ExecutorClaim DEF Next

(* The claim protocol is an invariant of every behaviour, with any faults.  *)
THEOREM ClaimCorrect == Spec => []ClaimInv
  BY InitClaim, StepClaim, PTL DEF Spec

(* SKIP LOCKED keeps polls apart: two workers execute one job only if a     *)
(* recovery put it back into the queue while it was being executed.         *)
THEOREM NoDoubleExecution == Spec => []SameJobOnlyAfterRecovery
  <1>1. ClaimInv => SameJobOnlyAfterRecovery
    BY DEF ClaimInv
  <1>2. QED
    BY <1>1, ClaimCorrect, PTL

(* A claim never overwrites a cancellation or another outcome: the row is   *)
(* queued when the claim commits.                                           *)
THEOREM ClaimsAreFresh == Spec => ClaimNeverRevives
  <1>1. ClaimInv /\ [Next]_vars =>
          [\A j \in JobIds : status'[j] = "RUNNING" => status[j] \in {"QUEUED", "RUNNING"}]_vars
    <2> SUFFICES ASSUME ClaimInv, Next, NEW j \in JobIds,
                        status'[j] = "RUNNING", status[j] # "RUNNING"
                 PROVE  status[j] = "QUEUED"
      BY DEF vars
    <2>1. PICK p \in Procs : PollClaim(p)
      BY LoopShape
         DEF ClaimInv, TypeOK, Next, Continue, vars, jobRows, EnqueueCheck, DeleteCheck,
             CancelCheck, EnqueueInsert, CancelWrite, DeleteCommit, PollLock, PollIdle,
             PollCheck, Begin, Discover, StartFetching, Heartbeat, FinishRead, FinishWrite,
             FailRead, FailWrite, Vanish, FlushError, Crash, ResetRead, ResetWrite,
             HeartbeatAges, Write
    <2>2. j = loop[p].job
      BY <2>1, LoopShape DEF PollClaim, Write, ClaimInv, TypeOK
    <2>3. QED
      BY <2>1, <2>2 DEF PollClaim, ClaimInv, LockHolds, Claiming
  <1>2. QED
    BY <1>1, ClaimCorrect, PTL DEF Spec, ClaimNeverRevives
-----------------------------------------------------------------------------
(* Without crashes and failing flushes a running row is carried by a worker *)
(* whose session still believes it to be running, so that its final write   *)
(* closes the row.  Executors that saw an earlier outcome, because a        *)
(* recovery requeued the job under them, leave without a write and are not  *)
(* the ones to count on.                                                    *)
Ending == {"finish", "failed", "reject"}

Carries(w, j) ==
  /\ Executes(w)
  /\ run[w].job = j
  /\ run[w].seen = "RUNNING"
  /\ loop[Home[w]].op \in Ending /\ loop[Home[w]].worker = w => loop[Home[w]].seen = "RUNNING"

WorkerSection(p) ==
  /\ loop[p].op \in Claiming => run[loop[p].worker].at = "poll"
  /\ loop[p].op \in Ending =>
       Executes(loop[p].worker) /\ run[loop[p].worker].job = loop[p].job

CarryInv ==
  /\ \A p \in Procs : WorkerSection(p)
  /\ \A j \in JobIds : status[j] = "RUNNING" => \E w \in Workers : Carries(w, j)

LEMMA InitCarry == Init => CarryInv
  BY DEF Init, CarryInv, WorkerSection, Down, Claiming, Ending

(* A step of one process that starts no job: the workers of the other       *)
(* processes carry on, and it is enough to look at the workers of this one. *)
LEMMA OneProcessCarries ==
  ASSUME ClaimInv, CarryInv, NEW p \in Procs,
         \A q \in Procs : q # p => loop'[q] = loop[q],
         \A w \in Workers : Home[w] # p => run'[w] = run[w],
         \A j \in JobIds : status'[j] = "RUNNING" => status[j] = "RUNNING",
         \A w \in Workers, j \in JobIds :
           Home[w] = p /\ Carries(w, j) /\ status'[j] = "RUNNING" => Carries(w, j)',
         WorkerSection(p)'
  PROVE  CarryInv'
  <1>1. ASSUME NEW q \in Procs, q # p PROVE WorkerSection(q)'
    <2>1. loop'[q] = loop[q] /\ WorkerSection(q)
      BY <1>1 DEF CarryInv
    <2>2. CASE loop[q].op \in Claiming \union Ending
      <3>1. loop[q].worker \in Workers /\ Home[loop[q].worker] = q
        BY <2>2, LoopShape DEF ClaimInv, OwnSection, OfWorker, Claiming, Ending
      <3>2. run'[loop[q].worker] = run[loop[q].worker]
        BY <1>1, <3>1
      <3>3. QED
        BY <2>1, <3>2 DEF WorkerSection, Executes
    <2>3. CASE loop[q].op \notin Claiming \union Ending
      BY <2>1, <2>3 DEF WorkerSection
    <2>4. QED
      BY <2>2, <2>3
  <1>2. ASSUME NEW j \in JobIds, status'[j] = "RUNNING"
        PROVE  \E w \in Workers : Carries(w, j)'
    <2>1. PICK w \in Workers : Carries(w, j)
      BY <1>2 DEF CarryInv
    <2>2. CASE Home[w] = p
      BY <1>2, <2>1, <2>2
    <2>3. CASE Home[w] # p
      <3>1. run'[w] = run[w] /\ loop'[Home[w]] = loop[Home[w]]
        BY <2>3, HomeAssumption
      <3>2. QED
        BY <2>1, <3>1 DEF Carries, Executes
    <2>4. QED
      BY <2>2, <2>3
  <1>3. QED
    BY <1>1, <1>2 DEF CarryInv

(* Sections of requests, polls and recoveries leave the executors alone. *)
LEMMA AsideCarry ==
  ASSUME ClaimInv, CarryInv, NEW p \in Procs,
         \/ \E d \in Domains : EnqueueCheck(p, d) \/ DeleteCheck(p, d)
         \/ \E j \in JobIds : CancelCheck(p, j)
         \/ EnqueueInsert(p) \/ CancelWrite(p) \/ DeleteCommit(p)
         \/ PollCheck(p) \/ ResetRead(p) \/ ResetWrite(p)
         \/ \E w \in Workers, j \in JobIds : Home[w] = p /\ PollLock(w, j)
  PROVE  CarryInv'
  <1>1. run' = run /\ \A q \in Procs : q # p => loop'[q] = loop[q]
    BY DEF EnqueueCheck, DeleteCheck, CancelCheck, EnqueueInsert, CancelWrite, DeleteCommit,
       PollCheck, ResetRead, ResetWrite, PollLock, Becomes, ClaimInv, TypeOK
  <1>2. loop'[p].op \notin Ending
    <2>1. CASE PollCheck(p)
      BY <2>1, LoopShape DEF PollCheck, Becomes, Ending, Free, ClaimInv, TypeOK
    <2>2. CASE \E d \in Domains : EnqueueCheck(p, d) \/ DeleteCheck(p, d)
      BY <2>2 DEF EnqueueCheck, DeleteCheck, Becomes, Ending, ClaimInv, TypeOK
    <2>3. CASE (\E j \in JobIds : CancelCheck(p, j)) \/ ResetRead(p)
      BY <2>3 DEF CancelCheck, ResetRead, Becomes, Ending, ClaimInv, TypeOK
    <2>4. CASE EnqueueInsert(p) \/ CancelWrite(p) \/ DeleteCommit(p) \/ ResetWrite(p)
      <3>1. loop'[p] \in {Free, Down}
        BY <2>4 DEF EnqueueInsert, CancelWrite, DeleteCommit, ResetWrite, Becomes, ClaimInv, TypeOK
      <3>2. QED
        BY <3>1 DEF Ending, Free, Down
    <2>5. CASE \E w \in Workers, j \in JobIds : Home[w] = p /\ PollLock(w, j)
      BY <2>5 DEF PollLock, Becomes, Ending, ClaimInv, TypeOK
    <2>6. QED
      BY <2>1, <2>2, <2>3, <2>4, <2>5
  <1>3. \A j \in JobIds : status'[j] = "RUNNING" => status[j] = "RUNNING"
    BY DEF EnqueueCheck, DeleteCheck, CancelCheck, EnqueueInsert, CancelWrite, DeleteCommit,
       PollCheck, ResetRead, ResetWrite, PollLock, Write, ClaimInv, TypeOK
  <1>4. WorkerSection(p)'
    <2>1. CASE PollCheck(p)
      <3>1. WorkerSection(p) /\ loop[p].op = "locked"
        BY <2>1 DEF CarryInv, PollCheck
      <3>2. loop'[p] = Free \/ loop'[p].worker = loop[p].worker
        BY <2>1, LoopShape DEF PollCheck, Becomes, ClaimInv, TypeOK
      <3>3. QED
        BY <1>1, <1>2, <3>1, <3>2 DEF WorkerSection, Claiming, Free
    <2>2. CASE \E w \in Workers, j \in JobIds : Home[w] = p /\ PollLock(w, j)
      <3>1. PICK w \in Workers, j \in JobIds : Home[w] = p /\ PollLock(w, j)
        BY <2>2
      <3>2. loop'[p] = [op |-> "locked", worker |-> w, job |-> j]
        BY <3>1 DEF PollLock, Becomes, ClaimInv, TypeOK
      <3>3. run'[w].at = "poll"
        BY <1>1, <3>1 DEF PollLock, AtAwait
      <3>4. QED
        BY <1>2, <3>2, <3>3 DEF WorkerSection
    <2>3. CASE loop'[p].op \notin Claiming
      BY <1>2, <2>3 DEF WorkerSection
    <2>4. CASE \/ \E d \in Domains : EnqueueCheck(p, d) \/ DeleteCheck(p, d)
               \/ \E j \in JobIds : CancelCheck(p, j)
               \/ EnqueueInsert(p) \/ CancelWrite(p) \/ DeleteCommit(p)
               \/ ResetRead(p) \/ ResetWrite(p)
      BY <2>3, <2>4 DEF EnqueueCheck, DeleteCheck, CancelCheck, EnqueueInsert, CancelWrite,
         DeleteCommit, ResetRead, ResetWrite, Becomes, Claiming, Free, Down, ClaimInv, TypeOK
    <2>5. QED
      BY <2>1, <2>2, <2>4
  <1>5. ASSUME NEW w \in Workers, NEW j \in JobIds, Home[w] = p, Carries(w, j)
        PROVE  Carries(w, j)'
    BY <1>1, <1>2, <1>5 DEF Carries, Executes
  <1>6. QED
    BY <1>1, <1>3, <1>4, <1>5, OneProcessCarries

(* The claim: the worker was polling, so it gives up nothing it carried.    *)
LEMMA ClaimCarry ==
  ASSUME ClaimInv, CarryInv, NEW p \in Procs, PollClaim(p)
  PROVE  CarryInv'
  <1> PICK w : w = loop[p].worker
    OBVIOUS
  <1> PICK i : i = loop[p].job
    OBVIOUS
  <1>1. /\ w \in Workers /\ i \in JobIds /\ Home[w] = p /\ run[w].at = "poll"
        /\ status[i] = "QUEUED"
    BY LoopShape DEF PollClaim, ClaimInv, OwnSection, OfWorker, LockHolds, Claiming, CarryInv,
       WorkerSection
  <1>2. /\ status' = [status EXCEPT ![i] = "RUNNING"]
        /\ run' = [run EXCEPT ![w] = [at |-> "start", job |-> i, seen |-> "RUNNING"]]
        /\ loop' = [loop EXCEPT ![p] = [loop[p] EXCEPT !.op = "begin"]]
    BY <1>1 DEF PollClaim, Write, Becomes
  <1>3. /\ run'[w].at = "start" /\ run'[w].job = i /\ run'[w].seen = "RUNNING"
        /\ \A v \in Workers : v # w => run'[v] = run[v]
    BY <1>1, <1>2 DEF ClaimInv, TypeOK
  <1>4. loop'[p].op = "begin" /\ \A q \in Procs : q # p => loop'[q] = loop[q]
    <2>1. loop[p] \in [op : {"locked", "checked", "begin"}, worker : Workers, job : JobIds]
      BY LoopShape DEF PollClaim, Section, Down, Free, ClaimInv
    <2>2. [loop[p] EXCEPT !.op = "begin"].op = "begin"
      BY <2>1
    <2>3. QED
      BY <1>2, <2>2 DEF ClaimInv, TypeOK
  <1>5. ASSUME NEW q \in Procs PROVE WorkerSection(q)'
    <2>1. CASE q = p
      BY <1>4, <2>1 DEF WorkerSection, Claiming, Ending
    <2>2. CASE q # p
      <3>1. loop'[q] = loop[q] /\ WorkerSection(q)
        BY <1>4, <2>2 DEF CarryInv
      <3>2. loop[q].op \in Claiming \union Ending =>
              loop[q].worker \in Workers /\ loop[q].worker # w
        BY <1>1, <2>2, LoopShape DEF ClaimInv, OwnSection, OfWorker, Claiming, Ending
      <3>3. QED
        BY <1>3, <3>1, <3>2 DEF WorkerSection, Executes
    <2>3. QED
      BY <2>1, <2>2
  <1>6. ASSUME NEW j \in JobIds, status'[j] = "RUNNING"
        PROVE  \E v \in Workers : Carries(v, j)'
    <2>1. CASE j = i
      BY <1>1, <1>3, <1>4, <2>1 DEF Carries, Executes, Ending
    <2>2. CASE j # i
      <3>1. PICK v \in Workers : Carries(v, j)
        BY <1>2, <1>6, <2>2 DEF CarryInv, ClaimInv, TypeOK
      <3>2. v # w /\ run'[v] = run[v]
        BY <1>1, <1>3, <3>1 DEF Carries, Executes
      <3>3. loop'[Home[v]] = loop[Home[v]] \/ loop'[Home[v]].op = "begin"
        BY <1>4, HomeAssumption
      <3>4. Carries(v, j)'
        BY <3>1, <3>2, <3>3 DEF Carries, Executes, Ending
      <3>5. QED
        BY <3>4
    <2>3. QED
      BY <2>1, <2>2
  <1>7. QED
    BY <1>5, <1>6 DEF CarryInv

LEMMA BeginCarry ==
  ASSUME ClaimInv, CarryInv, NEW p \in Procs, Begin(p)
  PROVE  CarryInv'
  <1> PICK w : w = loop[p].worker
    OBVIOUS
  <1> PICK i : i = loop[p].job
    OBVIOUS
  <1>1. /\ w \in Workers /\ i \in JobIds /\ Home[w] = p /\ run[w].job = i /\ Executes(w)
        /\ status' = status /\ loop[p].op = "begin"
    BY LoopShape DEF Begin, ClaimInv, OwnSection, OfWorker, Executes
  <1>2. \/ status[i] = "gone" /\ Leave(w) /\ Becomes(p, Free)
        \/ status[i] # "gone" /\ Resume(w, "discover", i) /\ Becomes(p, Free)
        \/ /\ status[i] # "gone" /\ UNCHANGED run
           /\ Becomes(p, [op |-> "reject", worker |-> w, job |-> i, seen |-> status[i]])
    BY DEF Begin
  <1>3. /\ \A q \in Procs : q # p => loop'[q] = loop[q]
        /\ \A v \in Workers : v # w => run'[v] = run[v]
    BY <1>2 DEF Leave, Resume, Becomes, ClaimInv, TypeOK
  <1>4. CASE /\ status[i] # "gone" /\ UNCHANGED run
             /\ Becomes(p, [op |-> "reject", worker |-> w, job |-> i, seen |-> status[i]])
    <2>1. loop'[p] = [op |-> "reject", worker |-> w, job |-> i, seen |-> status[i]]
      BY <1>4 DEF Becomes, ClaimInv, TypeOK
    <2>2. WorkerSection(p)'
      BY <1>1, <1>4, <2>1 DEF WorkerSection, Executes, Claiming
    <2>3. ASSUME NEW v \in Workers, NEW j \in JobIds, Home[v] = p, Carries(v, j),
                 status'[j] = "RUNNING"
          PROVE  Carries(v, j)'
      BY <1>1, <1>4, <2>1, <2>3 DEF Carries, Executes
    <2>4. QED
      BY <1>1, <1>3, <2>2, <2>3, OneProcessCarries
  <1>5. CASE Becomes(p, Free) /\ (status[i] = "gone" \/ Resume(w, "discover", i))
    <2>1. loop'[p] = Free
      BY <1>5 DEF Becomes, ClaimInv, TypeOK
    <2>2. WorkerSection(p)'
      BY <2>1 DEF WorkerSection, Claiming, Ending, Free
    <2>3. ASSUME NEW v \in Workers, NEW j \in JobIds, Home[v] = p, Carries(v, j),
                 status'[j] = "RUNNING"
          PROVE  Carries(v, j)'
      <3>1. CASE v # w
        BY <1>3, <2>1, <2>3, <3>1 DEF Carries, Executes, Ending, Free
      <3>2. CASE v = w
        <4>1. j = i /\ status[i] = "RUNNING"
          BY <1>1, <2>3, <3>2 DEF Carries
        <4>2. run'[w] = [at |-> "discover", job |-> i, seen |-> "RUNNING"]
          BY <1>1, <1>5, <4>1 DEF Resume, ClaimInv, TypeOK
        <4>3. QED
          BY <2>1, <2>3, <3>2, <4>1, <4>2 DEF Carries, Executes, Ending, Free
      <3>3. QED
        BY <3>1, <3>2
    <2>4. QED
      BY <1>1, <1>3, <2>2, <2>3, OneProcessCarries
  <1>6. QED
    BY <1>2, <1>4, <1>5

LEMMA ExecutorCarry ==
  ASSUME ClaimInv, CarryInv, NEW w \in Workers,
         \/ Discover(w) \/ StartFetching(w) \/ Heartbeat(w) \/ FinishRead(w)
         \/ FailRead(w) \/ Vanish(w)
  PROVE  CarryInv'
  <1> PICK p \in Procs : p = Home[w]
    BY HomeAssumption
  <1> PICK i : i = run[w].job
    OBVIOUS
  <1>1. /\ Executes(w) /\ i \in JobIds /\ status' = status /\ loop[p] = Free
    BY WorkerShape DEF Discover, StartFetching, Heartbeat, FinishRead, FailRead, Vanish, AtAwait,
       Executes, ClaimInv
  <1>2. CASE loop' = loop /\ \A v \in Workers : v # w => run'[v] = run[v]
    <2>1. WorkerSection(p)'
      BY <1>1, <1>2 DEF WorkerSection, Claiming, Ending, Free
    <2>2. ASSUME NEW v \in Workers, NEW j \in JobIds, Home[v] = p, Carries(v, j),
                 status'[j] = "RUNNING"
          PROVE  Carries(v, j)'
      <3>1. CASE v # w
        BY <1>2, <2>2, <3>1 DEF Carries, Executes
      <3>2. CASE v = w
        <4>1. j = i /\ status[i] = "RUNNING"
          BY <1>1, <2>2, <3>2 DEF Carries
        <4>2. /\ run'[w].at # "poll" /\ run'[w].job = i /\ run'[w].seen = "RUNNING"
          <5>1. CASE Discover(w) \/ StartFetching(w)
            BY <4>1, <5>1 DEF Discover, StartFetching, Resume, ClaimInv, TypeOK
          <5>2. CASE Heartbeat(w) \/ FinishRead(w) \/ FailRead(w)
            BY <2>2, <3>2, <4>1, <5>2
               DEF Heartbeat, FinishRead, FailRead, Carries, Executes
          <5>3. ~Vanish(w)
            BY <4>1 DEF Vanish
          <5>4. QED
            BY <5>1, <5>2, <5>3
        <4>3. QED
          BY <1>1, <1>2, <3>2, <4>1, <4>2 DEF Carries, Executes, Ending, Free
      <3>3. QED
        BY <3>1, <3>2
    <2>3. QED
      BY <1>1, <1>2, <2>1, <2>2, OneProcessCarries
  <1>3. CASE FinishRead(w) \/ FailRead(w)
    <2>1. run' = run /\ \A q \in Procs : q # p => loop'[q] = loop[q]
      BY <1>3 DEF FinishRead, FailRead, Becomes, ClaimInv, TypeOK
    <2>2. \E s \in {status[i], run[w].seen}, op \in {"finish", "failed"} :
            /\ loop'[p] = [op |-> op, worker |-> w, job |-> i, seen |-> s]
      <3>1. CASE FinishRead(w)
        BY <3>1 DEF FinishRead, Becomes, ClaimInv, TypeOK
      <3>2. CASE FailRead(w)
        BY <3>2 DEF FailRead, Becomes, ClaimInv, TypeOK
      <3>3. QED
        BY <1>3, <3>1, <3>2
    <2>3. WorkerSection(p)'
      BY <1>1, <2>1, <2>2 DEF WorkerSection, Executes, Claiming
    <2>4. ASSUME NEW v \in Workers, NEW j \in JobIds, Home[v] = p, Carries(v, j),
                 status'[j] = "RUNNING"
          PROVE  Carries(v, j)'
      BY <1>1, <2>1, <2>2, <2>4 DEF Carries, Executes
    <2>5. QED
      BY <1>1, <2>1, <2>3, <2>4, OneProcessCarries
  <1>4. QED
    BY <1>2, <1>3
       DEF Discover, StartFetching, Heartbeat, Vanish, Resume, Leave, ClaimInv, TypeOK

(* The final write: a worker that carries the row closes it. *)
LEMMA EndCarry ==
  ASSUME ClaimInv, CarryInv, NEW p \in Procs, FinishWrite(p) \/ FailWrite(p)
  PROVE  CarryInv'
  <1> PICK w : w = loop[p].worker
    OBVIOUS
  <1> PICK i : i = loop[p].job
    OBVIOUS
  <1>1. /\ w \in Workers /\ i \in JobIds /\ Home[w] = p /\ run[w].job = i /\ Executes(w)
        /\ loop[p].op \in Ending
    BY LoopShape DEF FinishWrite, FailWrite, ClaimInv, OwnSection, OfWorker, CarryInv,
       WorkerSection, Ending
  <1>2. /\ loop'[p] = Free /\ \A q \in Procs : q # p => loop'[q] = loop[q]
        /\ \A v \in Workers : v # w => run'[v] = run[v]
    BY DEF FinishWrite, FailWrite, Leave, Becomes, ClaimInv, TypeOK
  <1>3. /\ \A j \in JobIds : status'[j] = "RUNNING" => status[j] = "RUNNING"
        /\ loop[p].seen = "RUNNING" => status'[i] # "RUNNING"
    <2>1. CASE FinishWrite(p)
      BY <1>1, <2>1 DEF FinishWrite, Write, ClaimInv, TypeOK
    <2>2. CASE FailWrite(p)
      BY <1>1, <2>2 DEF FailWrite, Write, Terminal, ClaimInv, TypeOK
    <2>3. QED
      BY <2>1, <2>2
  <1>4. WorkerSection(p)'
    BY <1>2 DEF WorkerSection, Claiming, Ending, Free
  <1>5. ASSUME NEW v \in Workers, NEW j \in JobIds, Home[v] = p, Carries(v, j),
               status'[j] = "RUNNING"
        PROVE  Carries(v, j)'
    <2>1. v # w
      BY <1>1, <1>3, <1>5 DEF Carries
    <2>2. QED
      BY <1>2, <1>5, <2>1 DEF Carries, Executes, Ending, Free
  <1>6. QED
    BY <1>1, <1>2, <1>3, <1>4, <1>5, OneProcessCarries

LEMMA StepCarry ==
  ASSUME Faults = {}, ClaimInv, CarryInv, [Next]_vars
  PROVE  CarryInv'
  <1>1. CASE UNCHANGED <<status, run, loop>>
    BY <1>1 DEF CarryInv, WorkerSection, Carries, Executes
  <1>2. ASSUME NEW p \in Procs, Continue(p) PROVE CarryInv'
    BY <1>2, AsideCarry, ClaimCarry, BeginCarry, EndCarry DEF Continue
  <1>3. ASSUME NEW p \in Procs,
               \/ \E d \in Domains : EnqueueCheck(p, d) \/ DeleteCheck(p, d)
               \/ \E j \in JobIds : CancelCheck(p, j)
        PROVE  CarryInv'
    BY <1>3, AsideCarry
  <1>4. ASSUME NEW w \in Workers, NEW j \in JobIds, PollLock(w, j) PROVE CarryInv'
    <2>1. Home[w] \in Procs
      BY HomeAssumption
    <2>2. QED
      BY <1>4, <2>1, AsideCarry
  <1>5. (\A p \in Procs : ~Crash(p)) /\ (\A w \in Workers : ~FlushError(w))
    BY DEF Crash, FlushError
  <1>6. ASSUME (\E w \in Workers : PollIdle(w)) \/ (\E j \in JobIds : HeartbeatAges(j))
        PROVE  CarryInv'
    BY <1>1, <1>6 DEF PollIdle, HeartbeatAges, vars
  <1>7. QED
    BY <1>1, <1>2, <1>3, <1>4, <1>5, <1>6, ExecutorCarry DEF Next, vars

(* While no process dies and no flush fails, no running row is left behind  *)
(* without an executor, for any number of processes that overlap, recover   *)
(* and cancel.                                                              *)
THEOREM RunningIsExecuted ==
  ASSUME Faults = {}
  PROVE  Spec => []RunningHasExecutor
  <1>1. CarryInv => RunningHasExecutor
    BY DEF CarryInv, Carries, RunningHasExecutor, Executes
  <1>2. CarryInv /\ ClaimInv /\ [Next]_vars => CarryInv'
    BY StepCarry
  <1>3. QED
    BY <1>1, <1>2, InitCarry, ClaimCorrect, PTL DEF Spec

-----------------------------------------------------------------------------
(* Progress: a queued job is never stuck behind sections that wait for each *)
(* other, behind executors that are gone, or behind the head of the queue.  *)

(* The section of process p can take its next step: it waits for nothing,   *)
(* or for row locks nobody holds.                                           *)
MayContinue(p) ==
  \/ loop[p] = Down
  \/ loop[p].op \in {"enqueue", "locked", "checked", "begin"}
  \/ loop[p].op \in {"cancel", "finish", "failed", "reject"} /\ ~RowLocked(loop[p].job)
  \/ loop[p].op = "delete" /\ \A j \in JobsOf(loop[p].domain) : ~RowLocked(j)
  \/ loop[p].op = "reset" /\ \A j \in loop[p].stuck : ~RowLocked(j)

(* Worker w executes a job and its process is free to resume it. *)
MayResume(w) == AtAwait(w, {"discover", "fetch"})

(* The next poll of worker w ends in a claim: no older job and no running   *)
(* job of the domain is in the way.                                         *)
MayClaim(w) ==
  /\ AtAwait(w, {"poll"})
  /\ \E j \in JobIds :
       /\ Claimable(j)
       /\ \A k \in JobIds : Claimable(k) => j <= k
       /\ ~HasRunningJob(domainOf[j])

QueueMoves ==
  (\E j \in JobIds : status[j] = "QUEUED") =>
    \/ \E p \in Procs : MayContinue(p)
    \/ \E w \in Workers : MayResume(w) \/ MayClaim(w)

(* A worker that has claimed a job and not loaded its row yet has its       *)
(* process in its hands.                                                    *)
StartsAtOnce ==
  \A w \in Workers :
    run[w].at = "start" =>
      loop[Home[w]].op \in {"begin", "reject"} /\ loop[Home[w]].worker = w

LEMMA InitStarts == Init => StartsAtOnce
  BY DEF Init, StartsAtOnce

(* A step of one process p that leaves the other processes' loops alone and *)
(* starts no worker: it is enough that p does not leave a start unattended. *)
LEMMA ElsewhereStarts ==
  ASSUME StartsAtOnce, NEW p \in Procs,
         \A q \in Procs : q # p => loop'[q] = loop[q],
         \A w \in Workers : run'[w].at = "start" => run[w].at = "start",
         \A w \in Workers : Home[w] = p => run'[w].at # "start"
  PROVE  StartsAtOnce'
  BY HomeAssumption DEF StartsAtOnce

LEMMA StepStarts ==
  ASSUME ClaimInv, StartsAtOnce, [Next]_vars
  PROVE  StartsAtOnce'
  <1> USE HomeAssumption
  <1>1. TypeOK
    BY DEF ClaimInv
  <1>2. CASE UNCHANGED <<run, loop>>
    BY <1>2 DEF StartsAtOnce
  <1>3. ASSUME NEW p \in Procs,
               \/ \E d \in Domains : EnqueueCheck(p, d) \/ DeleteCheck(p, d)
               \/ \E j \in JobIds : CancelCheck(p, j)
               \/ EnqueueInsert(p) \/ CancelWrite(p) \/ DeleteCommit(p)
               \/ PollCheck(p) \/ ResetRead(p) \/ ResetWrite(p)
        PROVE  StartsAtOnce'
    <2>1. \/ loop[p] = Free \/ loop[p] = Down
          \/ loop[p].op = "enqueue" \/ loop[p].op = "cancel" \/ loop[p].op = "delete"
          \/ loop[p].op = "locked" \/ loop[p].op = "reset"
      BY <1>3, Zenon DEF EnqueueCheck, DeleteCheck, CancelCheck, EnqueueInsert, CancelWrite,
         DeleteCommit, PollCheck, ResetRead, ResetWrite
    <2>2. UNCHANGED run
      BY <1>3, Zenon DEF EnqueueCheck, DeleteCheck, CancelCheck, EnqueueInsert, CancelWrite,
         DeleteCommit, PollCheck, ResetRead, ResetWrite
    <2>3. \A q \in Procs : q # p => loop'[q] = loop[q]
      BY <1>1, <1>3 DEF EnqueueCheck, DeleteCheck, CancelCheck, EnqueueInsert, CancelWrite,
         DeleteCommit, PollCheck, ResetRead, ResetWrite, Becomes, TypeOK
    <2>4. loop[p].op \notin {"begin", "reject"}
      BY <2>1 DEF Free, Down
    <2>5. \A w \in Workers : Home[w] = p => run[w].at # "start"
      BY <2>4 DEF StartsAtOnce
    <2>6. QED
      BY <2>2, <2>3, <2>5, ElsewhereStarts
  <1>4. ASSUME NEW p \in Procs, Crash(p) PROVE StartsAtOnce'
    <2>1. \A q \in Procs : q # p => loop'[q] = loop[q]
      BY <1>1, <1>4 DEF Crash, Becomes, TypeOK
    <2>2. \A w \in Workers : IF Home[w] = p THEN run'[w].at = "poll" ELSE run'[w] = run[w]
      BY <1>4 DEF Crash
    <2>3. QED
      BY <2>1, <2>2, ElsewhereStarts
  <1>5. ASSUME NEW p \in Procs, FinishWrite(p) \/ FailWrite(p) PROVE StartsAtOnce'
    <2>1. \A q \in Procs : q # p => loop'[q] = loop[q]
      BY <1>1, <1>5 DEF FinishWrite, FailWrite, Becomes, TypeOK
    <2>2. \A w \in Workers :
            IF w = loop[p].worker THEN run'[w].at = "poll" ELSE run'[w] = run[w]
      BY <1>1, <1>5 DEF FinishWrite, FailWrite, Leave, TypeOK
    <2>3. \A w \in Workers : Home[w] = p /\ w # loop[p].worker => run[w].at # "start"
      BY DEF StartsAtOnce
    <2>4. QED
      BY <2>1, <2>2, <2>3, ElsewhereStarts
  <1>6. ASSUME NEW p \in Procs, PollClaim(p) PROVE StartsAtOnce'
    <2>1. /\ loop[p].op = "checked" /\ loop[p].worker \in Workers
          /\ Home[loop[p].worker] = p
      BY <1>6, LoopShape DEF PollClaim, ClaimInv, OwnSection, OfWorker
    <2>2. \A q \in Procs : q # p => loop'[q] = loop[q]
      BY <1>1, <1>6 DEF PollClaim, Becomes, TypeOK
    <2>3. loop'[p].op = "begin" /\ loop'[p].worker = loop[p].worker
      BY <1>1, <1>6, <2>1, LoopShape DEF PollClaim, Becomes, TypeOK, Section, Down, Free
    <2>4. \A w \in Workers : w # loop[p].worker => run'[w] = run[w]
      BY <1>1, <1>6 DEF PollClaim, TypeOK
    <2>5. \A w \in Workers : Home[w] = p => run[w].at # "start"
      BY <2>1 DEF StartsAtOnce
    <2>6. QED
      BY <2>1, <2>2, <2>3, <2>4, <2>5 DEF StartsAtOnce
  <1>7. ASSUME NEW p \in Procs, Begin(p) PROVE StartsAtOnce'
    <2>1. \A q \in Procs : q # p => loop'[q] = loop[q]
      BY <1>1, <1>7 DEF Begin, Becomes, TypeOK
    <2>2. loop[p].op = "begin" /\ loop[p].worker \in Workers
      BY <1>7, LoopShape, <1>1 DEF Begin
    <2>3. \A w \in Workers : Home[w] = p /\ w # loop[p].worker => run[w].at # "start"
      BY DEF StartsAtOnce
    <2>4. CASE UNCHANGED run
      <3>1. loop'[p].op = "reject" /\ loop'[p].worker = loop[p].worker
        BY <1>1, <1>7, <2>4, <2>2 DEF Begin, Becomes, TypeOK, Leave, Resume, Polling, Executing, ClaimInv, OwnSection
      <3>2. QED
        BY <2>1, <2>2, <2>3, <2>4, <3>1 DEF StartsAtOnce
    <2>5. CASE Leave(loop[p].worker) \/ Resume(loop[p].worker, "discover", loop[p].job)
      <3>1. \A w \in Workers :
              IF w = loop[p].worker THEN run'[w].at # "start" ELSE run'[w] = run[w]
        BY <1>1, <2>5 DEF Leave, Resume, TypeOK
      <3>2. QED
        BY <2>1, <2>3, <3>1, ElsewhereStarts
    <2>6. QED
      BY <1>7, <2>4, <2>5 DEF Begin
  <1>8. ASSUME NEW w \in Workers,
               \/ \E j \in JobIds : PollLock(w, j)
               \/ Discover(w) \/ StartFetching(w) \/ FinishRead(w) \/ FailRead(w)
               \/ Vanish(w) \/ FlushError(w)
        PROVE  StartsAtOnce'
    <2>1. loop[Home[w]] = Free /\ Home[w] \in Procs /\ run[w].at # "start"
      BY <1>8 DEF PollLock, Discover, StartFetching, FinishRead, FailRead, Vanish, FlushError,
         AtAwait
    <2>2. \A q \in Procs : q # Home[w] => loop'[q] = loop[q]
      BY <1>1, <1>8, <2>1 DEF PollLock, Discover, StartFetching, FinishRead, FailRead, Vanish,
         FlushError, Becomes, TypeOK
    <2>3. \/ UNCHANGED run
          \/ Leave(w)
          \/ Resume(w, "discover", run[w].job) \/ Resume(w, "fetch", run[w].job)
      BY <1>8 DEF PollLock, Discover, StartFetching, FinishRead, FailRead, Vanish, FlushError
    <2>4. \A v \in Workers : run'[v] = run[v] \/ run'[v].at # "start"
      BY <1>1, <2>3 DEF Leave, Resume, TypeOK
    <2>5. \A v \in Workers : Home[v] = Home[w] => run[v].at # "start"
      BY <2>1 DEF StartsAtOnce, Free
    <2>6. QED
      BY <2>1, <2>2, <2>4, <2>5, ElsewhereStarts
  <1>9. ASSUME \/ \E w \in Workers : PollIdle(w) \/ Heartbeat(w)
               \/ \E j \in JobIds : HeartbeatAges(j)
               \/ UNCHANGED vars
        PROVE  StartsAtOnce'
    BY <1>2, <1>9 DEF PollIdle, Heartbeat, HeartbeatAges, vars
  <1>10. QED
    BY <1>3, <1>4, <1>5, <1>6, <1>7, <1>8, <1>9 DEF Next, Continue

(* A section that cannot go on waits for a poll, and a poll always goes on. *)
LEMMA SomeSectionGoesOn ==
  ASSUME TypeOK, NEW p \in Procs, loop[p] # Free
  PROVE  \E q \in Procs : MayContinue(q)
  <1>1. CASE \E j \in JobIds : RowLocked(j)
    BY <1>1 DEF RowLocked, MayContinue
  <1>2. CASE \A j \in JobIds : ~RowLocked(j)
    <2>1. loop[p] = Down \/ loop[p].op \in {"enqueue", "delete", "cancel", "locked", "checked",
                                           "begin", "finish", "failed", "reject", "reset"}
      BY DEF TypeOK, Section
    <2>2. QED
      BY <1>2, <2>1, LoopShape DEF MayContinue, JobsOf
  <1>3. QED
    BY <1>1, <1>2

(* The queue has a head. *)
LEMMA OldestQueued ==
  ASSUME NEW j \in JobIds, Claimable(j)
  PROVE  \E i \in JobIds : Claimable(i) /\ \A k \in JobIds : Claimable(k) => i <= k
  <1> DEFINE Queue == {k \in JobIds : Claimable(k)}
  <1>1. Queue \subseteq Nat /\ Queue # {}
    BY DEF JobIds
  <1>2. PICK R : R = {ss \in Nat \X Nat : ss[1] < ss[2]}
    OBVIOUS
  <1>3. IsWellFoundedOn(R, Nat)
    BY <1>2, NatLessThanWellFounded, Zenon DEF OpToRel
  <1>4. PICK i \in Queue : \A k \in Queue : <<k, i>> \notin R
    BY <1>1, <1>3, WFMin, Zenon
  <1>5. ASSUME NEW k \in Queue PROVE i <= k
    <2>1. i \in Nat /\ k \in Nat /\ <<k, i>> \notin R
      BY <1>1, <1>4
    <2> HIDE DEF Queue
    <2>2. QED
      BY <1>2, <2>1
  <1>6. QED
    BY <1>5

(* With every loop free no row is locked, and if every worker polls, no job *)
(* is running: the next poll claims the head of the queue.                  *)
LEMMA QueueKeepsMoving ==
  ASSUME Workers # {}, ClaimInv, StartsAtOnce, CarryInv
  PROVE  QueueMoves
  <1> SUFFICES ASSUME NEW j \in JobIds, status[j] = "QUEUED",
                      \A p \in Procs : ~MayContinue(p),
                      \A w \in Workers : ~MayResume(w)
               PROVE  \E w \in Workers : MayClaim(w)
    BY DEF QueueMoves
  <1>1. \A p \in Procs : loop[p] = Free
    BY SomeSectionGoesOn DEF ClaimInv
  <1>2. \A w \in Workers : Home[w] \in Procs /\ AtAwait(w, {"poll"})
    <2> SUFFICES ASSUME NEW w \in Workers PROVE Home[w] \in Procs /\ AtAwait(w, {"poll"})
      OBVIOUS
    <2>1. Home[w] \in Procs /\ loop[Home[w]] = Free
      BY <1>1, HomeAssumption
    <2>2. run[w].at # "start"
      BY <2>1 DEF StartsAtOnce, Free
    <2>3. QED
      BY <2>1, <2>2, WorkerShape DEF MayResume, AtAwait, ClaimInv
  <1>3. \A k \in JobIds : status[k] # "RUNNING"
    BY <1>2 DEF CarryInv, Carries, Executes, AtAwait
  <1>4. \A k \in JobIds : ~RowLocked(k)
    BY <1>1 DEF RowLocked, Free
  <1>5. PICK i \in JobIds : Claimable(i) /\ \A k \in JobIds : Claimable(k) => i <= k
    BY <1>4, OldestQueued DEF Claimable
  <1>6. ~HasRunningJob(domainOf[i])
    BY <1>3 DEF HasRunningJob, JobsOf
  <1>7. QED
    BY <1>2, <1>5, <1>6 DEF MayClaim

(* While no process dies and no flush fails, a queued job always has a way  *)
(* forward, however many processes serve the queue: some section can end    *)
(* although others wait for its row, some executor can be resumed, or the   *)
(* next poll claims the head of the queue.  No queue of waiting writers, no *)
(* executor that is gone and no busy domain at the head stops it for good.  *)
THEOREM QueueNeverStuck ==
  ASSUME Faults = {}, Workers # {}
  PROVE  Spec => []QueueMoves
  <1>1. CarryInv /\ ClaimInv /\ [Next]_vars => CarryInv'
    BY StepCarry
  <1>2. StartsAtOnce /\ ClaimInv /\ [Next]_vars => StartsAtOnce'
    BY StepStarts
  <1>3. ClaimInv /\ StartsAtOnce /\ CarryInv => QueueMoves
    BY QueueKeepsMoving
  <1>4. QED
    BY <1>1, <1>2, <1>3, InitCarry, InitStarts, ClaimCorrect, PTL DEF Spec

================================================================================
