--------------------------- MODULE CrawlSoloProofs ---------------------------
(* The crawl queue of a backend that runs as one process, with any number   *)
(* of workers, domains and jobs, crashes and failing flushes: it implements *)
(* one slot for each domain.  The check of enqueue and its insert are then  *)
(* two steps of the only event loop, so nothing else comes between them.    *)
EXTENDS CrawlJobsProofs

(* What the section in progress relies on is still true when it commits. *)
SoloSection(p) ==
  /\ loop[p].op = "enqueue" => ~HasActiveJob(loop[p].domain)
  /\ loop[p].op = "delete" => ~HasActiveJob(loop[p].domain) /\ loop[p].domain \in live
  /\ loop[p].op = "reset" => \A j \in loop[p].stuck : status[j] = "RUNNING"

SoloInv ==
  /\ OneActivePerDomain
  /\ \A j \in JobIds : status[j] \in Active => domainOf[j] \in live
  /\ \A p \in Procs : SoloSection(p)
-----------------------------------------------------------------------------
LEMMA InitSolo == Init => SoloInv
  BY DEF Init, SoloInv, SoloSection, OneActivePerDomain, Active, Down

(* Active jobs determine the slot of a domain, and there is at most one.    *)
LEMMA SlotOfActive ==
  ASSUME TypeOK, SoloInv, NEW j \in JobIds, status[j] \in Active
  PROVE  /\ domainOf[j] \in live /\ domainOf[j] \in Domains
         /\ SlotOf(domainOf[j]) = IF status[j] = "RUNNING" THEN "running" ELSE "queued"
         /\ \A k \in JobIds : k # j /\ domainOf[k] = domainOf[j] => status[k] \notin Active
  BY DEF TypeOK, SoloInv, OneActivePerDomain, SlotOf, HasRunningJob, HasActiveJob, JobsOf, Active

(* A step that leaves the rows and the live domains alone, or changes only  *)
(* rows that are not active before and after, leaves every slot alone.      *)
LEMMA SameSlots ==
  ASSUME UNCHANGED <<domainOf, live>>,
         \A j \in JobIds : status'[j] = status[j]
                           \/ (status[j] \notin Active /\ status'[j] \notin Active)
  PROVE  UNCHANGED slotMap
  <1>1. ASSUME NEW d \in Domains PROVE SlotOf(d)' = SlotOf(d)
    BY DEF SlotOf, HasRunningJob, HasActiveJob, JobsOf, Active
  <1>2. QED
    BY <1>1 DEF slotMap

(* One row j leaves the active states, or changes from one to the other.    *)
LEMMA OneRowMoves ==
  ASSUME TypeOK, SoloInv, UNCHANGED <<domainOf, live>>,
         NEW j \in JobIds, status[j] \in Active, NEW s,
         status' = [status EXCEPT ![j] = s]
  PROVE  slotMap' = [slotMap EXCEPT ![domainOf[j]] =
                       IF s = "RUNNING" THEN "running"
                       ELSE IF s = "QUEUED" THEN "queued" ELSE "free"]
  <1>1. ASSUME NEW d \in Domains, d # domainOf[j] PROVE SlotOf(d)' = SlotOf(d)
    BY <1>1 DEF SlotOf, HasRunningJob, HasActiveJob, JobsOf, TypeOK
  <1>2. SlotOf(domainOf[j])' = IF s = "RUNNING" THEN "running"
                               ELSE IF s = "QUEUED" THEN "queued" ELSE "free"
    BY SlotOfActive DEF SlotOf, HasRunningJob, HasActiveJob, JobsOf, Active, TypeOK
  <1>3. domainOf[j] \in Domains
    BY SlotOfActive
  <1>4. QED
    BY <1>1, <1>2, <1>3 DEF slotMap

-----------------------------------------------------------------------------
(* Steps that write no row: checks, polls that find nothing to claim, the   *)
(* executor's progress, exits, crashes and time.                            *)
Quiet(p) ==
  \/ \E d \in Domains : EnqueueCheck(p, d) \/ DeleteCheck(p, d)
  \/ \E j \in JobIds : CancelCheck(p, j) \/ HeartbeatAges(j)
  \/ PollCheck(p) \/ Begin(p) \/ Crash(p) \/ ResetRead(p)
  \/ \E w \in Workers :
       \/ \E j \in JobIds : PollLock(w, j)
       \/ PollIdle(w) \/ Discover(w) \/ StartFetching(w) \/ Heartbeat(w)
       \/ FinishRead(w) \/ FailRead(w) \/ Vanish(w) \/ FlushError(w)

LEMMA QuietSolo ==
  ASSUME NEW p, Procs = {p}, ClaimInv, SoloInv, Quiet(p)
  PROVE  SoloInv' /\ UNCHANGED slotMap
  <1>1. UNCHANGED <<status, domainOf, live>>
    BY DEF Quiet, EnqueueCheck, DeleteCheck, CancelCheck, HeartbeatAges, PollCheck, Begin, Crash,
       ResetRead, PollLock, PollIdle, Discover, StartFetching, Heartbeat, FinishRead, FailRead,
       Vanish, FlushError, jobRows, vars
  <1>2. UNCHANGED slotMap
    BY <1>1, SameSlots
  <1>3. \/ loop'[p] = loop[p]
        \/ loop'[p].op \notin {"enqueue", "delete", "reset"}
        \/ \E d \in Domains : EnqueueCheck(p, d) \/ DeleteCheck(p, d)
        \/ ResetRead(p)
    <2>1. \A w \in Workers : Home[w] = p
      BY HomeAssumption
    <2>2. loop \in [Procs -> Section]
      BY DEF ClaimInv, TypeOK
    <2>3. CASE \E j \in JobIds : CancelCheck(p, j) \/ HeartbeatAges(j)
      BY <2>2, <2>3 DEF CancelCheck, HeartbeatAges, Becomes
    <2>4. CASE PollCheck(p) \/ Begin(p) \/ Crash(p)
      <3>1. CASE PollCheck(p)
        <4>1. loop[p] \in [op : {"locked", "checked", "begin"}, worker : Workers, job : JobIds]
          BY <3>1, LoopShape DEF PollCheck, Section, Down, Free, ClaimInv
        <4>2. loop'[p] \in {Free, [loop[p] EXCEPT !.op = "checked"]}
          BY <2>2, <3>1 DEF PollCheck, Becomes
        <4>3. [loop[p] EXCEPT !.op = "checked"].op = "checked"
          BY <4>1
        <4>4. CASE loop'[p] = Free
          BY <4>4 DEF Free
        <4>5. CASE loop'[p] = [loop[p] EXCEPT !.op = "checked"]
          <5>1. loop'[p].op = "checked"
            BY <4>3, <4>5
          <5>2. QED
            BY <5>1
        <4>6. QED
          BY <4>2, <4>4, <4>5
      <3>2. CASE Begin(p) \/ Crash(p)
        BY <2>2, <3>2 DEF Begin, Crash, Becomes, Free, Down
      <3>3. QED
        BY <2>4, <3>1, <3>2
    <2>5. ASSUME NEW w \in Workers,
                 \/ \E j \in JobIds : PollLock(w, j)
                 \/ PollIdle(w) \/ Discover(w) \/ StartFetching(w) \/ Heartbeat(w)
                 \/ FinishRead(w) \/ FailRead(w) \/ Vanish(w) \/ FlushError(w)
          PROVE  loop'[p] = loop[p] \/ loop'[p].op \notin {"enqueue", "delete", "reset"}
      <3>1. CASE \E j \in JobIds : PollLock(w, j)
        BY <2>1, <2>2, <3>1 DEF PollLock, Becomes
      <3>2. CASE FinishRead(w)
        BY <2>1, <2>2, <3>2 DEF FinishRead, Becomes
      <3>3. CASE FailRead(w)
        BY <2>1, <2>2, <3>3 DEF FailRead, Becomes
      <3>4. CASE \/ PollIdle(w) \/ Discover(w) \/ StartFetching(w) \/ Heartbeat(w)
                 \/ Vanish(w) \/ FlushError(w)
        BY <3>4 DEF PollIdle, Discover, StartFetching, Heartbeat, Vanish, FlushError, vars
      <3>5. QED
        BY <2>5, <3>1, <3>2, <3>3, <3>4
    <2>6. QED
      BY <2>3, <2>4, <2>5 DEF Quiet
  <1>4. SoloSection(p)'
    <2>1. CASE loop'[p] = loop[p]
      BY <1>1, <2>1 DEF SoloInv, SoloSection, HasActiveJob, JobsOf
    <2>2. CASE loop'[p].op \notin {"enqueue", "delete", "reset"}
      BY <2>2 DEF SoloSection
    <2>3. CASE \E d \in Domains : EnqueueCheck(p, d) \/ DeleteCheck(p, d)
      BY <1>1, <2>3 DEF EnqueueCheck, DeleteCheck, Becomes, SoloSection, HasActiveJob, JobsOf,
         ClaimInv, TypeOK
    <2>4. CASE ResetRead(p)
      BY <1>1, <2>4 DEF ResetRead, Becomes, SoloSection, ClaimInv, TypeOK
    <2>5. QED
      BY <1>3, <2>1, <2>2, <2>3, <2>4
  <1>5. QED
    BY <1>1, <1>2, <1>4 DEF SoloInv, OneActivePerDomain

-----------------------------------------------------------------------------
(* Steps that write the row of one job, once: the claim, the cancellation   *)
(* and the two final writes of the executor.  The section gives way.        *)
LEMMA RowWriteSolo ==
  ASSUME NEW p, Procs = {p}, TypeOK, SoloInv,
         UNCHANGED <<domainOf, live>>,
         loop'[p].op \notin {"enqueue", "delete", "reset"},
         NEW j \in JobIds, NEW s,
         status' = status \/ status' = [status EXCEPT ![j] = s],
         s \in Active => s = "RUNNING" /\ status[j] = "QUEUED"
  PROVE  SoloInv' /\ [Slots!Next]_slotMap
  <1>1. \A k \in JobIds : status'[k] \in Active => status[k] \in Active
    BY DEF TypeOK, Active
  <1>2. SoloInv'
    BY <1>1 DEF SoloInv, SoloSection, OneActivePerDomain
  <1>3. CASE UNCHANGED status \/ status[j] \notin Active
    <2>1. \A k \in JobIds :
            status'[k] = status[k] \/ (status[k] \notin Active /\ status'[k] \notin Active)
      BY <1>3 DEF TypeOK, Active
    <2>2. QED
      BY <1>2, <2>1, SameSlots
  <1>4. CASE status[j] \in Active /\ status' = [status EXCEPT ![j] = s]
    <2> DEFINE d == domainOf[j]
    <2>1. /\ d \in Domains /\ d \in live
          /\ slotMap[d] = IF status[j] = "RUNNING" THEN "running" ELSE "queued"
      BY <1>4, SlotOfActive DEF slotMap
    <2>2. slotMap' = [slotMap EXCEPT ![d] = IF s = "RUNNING" THEN "running"
                                            ELSE IF s = "QUEUED" THEN "queued" ELSE "free"]
      BY <1>4, OneRowMoves
    <2>3. CASE s = "RUNNING"
      <3>1. slotMap[d] = "queued" /\ slotMap' = [slotMap EXCEPT ![d] = "running"]
        BY <2>1, <2>2, <2>3 DEF Active
      <3>2. Slots!Start(d)
        BY <3>1 DEF Slots!Start, Slots!Move
      <3>3. QED
        BY <1>2, <2>1, <3>2 DEF Slots!Next
    <2>4. CASE s # "RUNNING"
      <3>1. slotMap[d] \in {"queued", "running"} /\ slotMap' = [slotMap EXCEPT ![d] = "free"]
        BY <2>1, <2>2, <2>4 DEF Active
      <3>2. Slots!Close(d)
        BY <3>1 DEF Slots!Close, Slots!Move
      <3>3. QED
        BY <1>2, <2>1, <3>2 DEF Slots!Next
    <2>5. QED
      BY <2>3, <2>4
  <1>5. QED
    BY <1>3, <1>4

LEMMA JobWriteSolo ==
  ASSUME NEW p, Procs = {p}, ClaimInv, SoloInv,
         PollClaim(p) \/ CancelWrite(p) \/ FinishWrite(p) \/ FailWrite(p)
  PROVE  SoloInv' /\ [Slots!Next]_slotMap
  <1>1. UNCHANGED <<domainOf, live>>
    BY DEF PollClaim, CancelWrite, FinishWrite, FailWrite, jobRows
  <1>2. loop[p].job \in JobIds
    BY LoopShape DEF ClaimInv, PollClaim, CancelWrite, FinishWrite, FailWrite
  <1>3. loop'[p].op \notin {"enqueue", "delete", "reset"}
    <2>1. CASE PollClaim(p)
      <3>1. loop[p] \in [op : {"locked", "checked", "begin"}, worker : Workers, job : JobIds]
        BY <2>1, LoopShape DEF PollClaim, Section, Down, Free, ClaimInv
      <3>2. [loop[p] EXCEPT !.op = "begin"].op = "begin"
        BY <3>1
      <3>3. loop'[p] = [loop[p] EXCEPT !.op = "begin"]
        BY <2>1 DEF PollClaim, Becomes, ClaimInv, TypeOK
      <3>4. loop'[p].op = "begin"
        BY <3>2, <3>3
      <3>5. QED
        BY <3>4
    <2>2. CASE CancelWrite(p) \/ FinishWrite(p) \/ FailWrite(p)
      BY <2>2 DEF CancelWrite, FinishWrite, FailWrite, Becomes, Free, ClaimInv, TypeOK
    <2>3. QED
      BY <2>1, <2>2
  <1>4. CASE PollClaim(p)
    <2>1. status[loop[p].job] = "QUEUED"
      BY <1>4 DEF PollClaim, ClaimInv, LockHolds, Claiming
    <2>2. status' = [status EXCEPT ![loop[p].job] = "RUNNING"]
      BY <1>4, <2>1 DEF PollClaim, Write
    <2>3. QED
      BY <1>1, <1>2, <1>3, <2>1, <2>2, RowWriteSolo DEF ClaimInv
  <1>5. CASE CancelWrite(p) \/ FinishWrite(p) \/ FailWrite(p)
    <2>1. \E s \in {"CANCELLED", "COMPLETED", "FAILED"} :
            status' = status \/ status' = [status EXCEPT ![loop[p].job] = s]
      BY <1>5 DEF CancelWrite, FinishWrite, FailWrite, Write
    <2>2. QED
      BY <1>1, <1>2, <1>3, <2>1, RowWriteSolo DEF ClaimInv, Active
  <1>6. QED
    BY <1>4, <1>5

-----------------------------------------------------------------------------
(* The insert fills a free slot: the check of its section still holds, and  *)
(* the new id is not in use.                                                *)
LEMMA InsertSolo ==
  ASSUME NEW p, Procs = {p}, ClaimInv, SoloInv, EnqueueInsert(p)
  PROVE  SoloInv' /\ [Slots!Next]_slotMap
  <1> PICK d : d = loop[p].domain
    OBVIOUS
  <1> PICK n : n = created + 1
    OBVIOUS
  <1>1. loop'[p].op = "free" /\ live' = live
    BY DEF EnqueueInsert, Becomes, Free, ClaimInv, TypeOK
  <1>2. CASE ~(d \in live /\ created < MaxJobs)
    <2>1. UNCHANGED <<status, domainOf>>
      BY <1>2 DEF EnqueueInsert
    <2>2. SoloInv'
      BY <1>1, <2>1 DEF SoloInv, SoloSection, OneActivePerDomain
    <2>3. QED
      BY <1>1, <2>1, <2>2, SameSlots
  <1>3. CASE d \in live /\ created < MaxJobs
    <2>1. /\ status' = [status EXCEPT ![n] = "QUEUED"]
          /\ domainOf' = [domainOf EXCEPT ![n] = d]
      BY <1>3 DEF EnqueueInsert
    <2>2. n \in JobIds /\ status[n] \notin Active
      BY <1>3, MaxJobsAssumption DEF JobIds, ClaimInv, TypeOK, Allocated
    <2>3. d \in Domains /\ ~HasActiveJob(d)
      BY <1>3 DEF EnqueueInsert, SoloInv, SoloSection, ClaimInv, TypeOK
    <2>4. SoloInv'
      BY <1>1, <1>3, <2>1, <2>2, <2>3
         DEF SoloInv, SoloSection, OneActivePerDomain, HasActiveJob, JobsOf, ClaimInv, TypeOK
    <2>5. ASSUME NEW e \in Domains, e # d PROVE SlotOf(e)' = SlotOf(e)
      BY <1>1, <2>1, <2>2, <2>5
         DEF SlotOf, HasActiveJob, HasRunningJob, JobsOf, Active, ClaimInv, TypeOK
    <2>6. SlotOf(d) = "free"
      BY <1>3, <2>3 DEF SlotOf, HasActiveJob, HasRunningJob, Active
    <2>7. SlotOf(d)' = "queued"
      <3>1. ~HasRunningJob(d)'
        BY <2>1, <2>2, <2>3 DEF HasActiveJob, HasRunningJob, JobsOf, Active, ClaimInv, TypeOK
      <3>2. HasActiveJob(d)'
        BY <2>1, <2>2 DEF HasActiveJob, JobsOf, Active, ClaimInv, TypeOK
      <3>3. QED
        BY <1>1, <1>3, <3>1, <3>2 DEF SlotOf
    <2>8. slotMap[d] = "free" /\ slotMap' = [slotMap EXCEPT ![d] = "queued"]
      BY <2>3, <2>5, <2>6, <2>7 DEF slotMap
    <2>9. Slots!Submit(d)
      BY <2>8 DEF Slots!Submit, Slots!Move
    <2>10. QED
      BY <2>3, <2>4, <2>9 DEF Slots!Next
  <1>4. QED
    BY <1>2, <1>3

LEMMA DeleteSolo ==
  ASSUME NEW p, Procs = {p}, ClaimInv, SoloInv, DeleteCommit(p)
  PROVE  SoloInv' /\ [Slots!Next]_slotMap
  <1> PICK d : d = loop[p].domain
    OBVIOUS
  <1>1. loop'[p].op = "free" /\ live' = live \ {d} /\ domainOf' = domainOf
    BY DEF DeleteCommit, Becomes, Free, ClaimInv, TypeOK
  <1>2. status' = [j \in JobIds |-> IF domainOf[j] = d THEN "gone" ELSE status[j]]
    BY DEF DeleteCommit
  <1>3. d \in live /\ d \in Domains /\ ~HasActiveJob(d)
    BY DEF DeleteCommit, SoloInv, SoloSection, ClaimInv, TypeOK
  <1>4. SoloInv'
    BY <1>1, <1>2, <1>3 DEF SoloInv, SoloSection, OneActivePerDomain, Active
  <1>5. ASSUME NEW e \in Domains, e # d PROVE SlotOf(e)' = SlotOf(e)
    BY <1>1, <1>2, <1>5 DEF SlotOf, HasActiveJob, HasRunningJob, JobsOf
  <1>6. SlotOf(d) = "free" /\ SlotOf(d)' = "deleted"
    BY <1>1, <1>3 DEF SlotOf, HasActiveJob, HasRunningJob, Active
  <1>7. slotMap[d] = "free" /\ slotMap' = [slotMap EXCEPT ![d] = "deleted"]
    BY <1>3, <1>5, <1>6 DEF slotMap
  <1>8. Slots!Remove(d)
    BY <1>7 DEF Slots!Remove, Slots!Move
  <1>9. QED
    BY <1>3, <1>4, <1>8 DEF Slots!Next

(* The recovery moves the slots of all stuck jobs back at once. *)
LEMMA ResetSolo ==
  ASSUME NEW p, Procs = {p}, ClaimInv, SoloInv, ResetWrite(p)
  PROVE  SoloInv' /\ [Slots!Next]_slotMap
  <1>1. /\ loop'[p].op \in {"free", "down"}
        /\ UNCHANGED <<domainOf, live>>
    BY DEF ResetWrite, Becomes, Free, Down, ClaimInv, TypeOK
  <1>2. CASE UNCHANGED status
    <2>1. SoloInv'
      BY <1>1, <1>2 DEF SoloInv, SoloSection, OneActivePerDomain
    <2>2. QED
      BY <1>1, <1>2, <2>1, SameSlots
  <1>3. CASE status' = [j \in JobIds |-> IF j \in loop[p].stuck THEN "QUEUED" ELSE status[j]]
    <2> DEFINE S == {d \in Domains : \E j \in loop[p].stuck : domainOf[j] = d}
    <2>1. \A j \in loop[p].stuck : j \in JobIds /\ status[j] = "RUNNING"
      BY LoopShape DEF ResetWrite, SoloInv, SoloSection, ClaimInv
    <2>2. SoloInv'
      BY <1>1, <1>3, <2>1 DEF SoloInv, SoloSection, OneActivePerDomain, Active
    <2>3. ASSUME NEW d \in S PROVE SlotOf(d) = "running" /\ SlotOf(d)' = "queued"
      <3>1. PICK j \in loop[p].stuck : domainOf[j] = d
        OBVIOUS
      <3>2. j \in JobIds /\ status[j] = "RUNNING" /\ d \in live
        BY <2>1, <3>1 DEF SoloInv, Active
      <3>3. HasRunningJob(d)
        BY <3>1, <3>2 DEF HasRunningJob, JobsOf
      <3>4. ~HasRunningJob(d)'
        BY <1>1, <1>3, <2>1, <3>1, <3>2
           DEF HasRunningJob, JobsOf, SoloInv, OneActivePerDomain, Active
      <3>5. HasActiveJob(d)'
        BY <1>1, <1>3, <3>1, <3>2 DEF HasActiveJob, JobsOf, Active
      <3>6. QED
        BY <1>1, <3>2, <3>3, <3>4, <3>5 DEF SlotOf
    <2>4. ASSUME NEW d \in Domains, d \notin S PROVE SlotOf(d)' = SlotOf(d)
      <3>1. \A j \in JobIds : domainOf[j] = d => status'[j] = status[j]
        BY <1>3, <2>4
      <3>2. QED
        BY <1>1, <3>1 DEF SlotOf, HasActiveJob, HasRunningJob, JobsOf
    <2>5. Slots!Recover(S)
      BY <2>3, <2>4 DEF Slots!Recover, slotMap
    <2>6. QED
      BY <2>2, <2>5 DEF Slots!Next
  <1>4. QED
    BY <1>2, <1>3 DEF ResetWrite

LEMMA StepSolo ==
  ASSUME NEW p, Procs = {p}, ClaimInv, SoloInv, [Next]_vars
  PROVE  SoloInv' /\ [Slots!Next]_slotMap
  <1>1. CASE UNCHANGED vars
    <2>1. SoloInv'
      BY <1>1 DEF vars, SoloInv, SoloSection, OneActivePerDomain, HasActiveJob, JobsOf
    <2>2. QED
      BY <1>1, <2>1, SameSlots DEF vars
  <1>2. CASE Next
    <2>1. \/ Quiet(p) \/ EnqueueInsert(p) \/ DeleteCommit(p) \/ ResetWrite(p)
          \/ PollClaim(p) \/ CancelWrite(p) \/ FinishWrite(p) \/ FailWrite(p)
      BY <1>2 DEF Next, Continue, Quiet
    <2>2. QED
      BY <2>1, QuietSolo, InsertSolo, DeleteSolo, ResetSolo, JobWriteSolo
  <1>3. QED
    BY <1>1, <1>2
-----------------------------------------------------------------------------
(* One process: a domain never has two open jobs, whatever crashes, fails   *)
(* or is cancelled, for any number of workers, domains and jobs.            *)
THEOREM OneActiveJob ==
  ASSUME NEW p, Procs = {p}
  PROVE  Spec => []OneActivePerDomain
  <1>1. SoloInv => OneActivePerDomain
    BY DEF SoloInv
  <1>2. SoloInv /\ ClaimInv /\ [Next]_vars => SoloInv'
    BY StepSolo
  <1>3. QED
    BY <1>1, <1>2, InitSolo, ClaimCorrect, PTL DEF Spec

(* One process: the crawl queue implements one slot for each domain.        *)
THEOREM OneProcessImplementsSlots ==
  ASSUME NEW p, Procs = {p}
  PROVE  Spec => OneSlotPerDomain
  <1>1. Init => Slots!Init
    BY MaxJobsAssumption
       DEF Init, Slots!Init, slotMap, SlotOf, HasRunningJob, HasActiveJob, JobsOf, Active
  <1>2. SoloInv /\ ClaimInv /\ [Next]_vars => SoloInv' /\ [Slots!Next]_slotMap
    BY StepSolo
  <1>3. QED
    BY <1>1, <1>2, InitSolo, ClaimCorrect, PTL DEF Spec, OneSlotPerDomain, Slots!Spec
-----------------------------------------------------------------------------
(* Who may finish a job.  An executor's session has loaded a job that is    *)
(* running or cancelled, nobody else executes the job, and the process that *)
(* recovers has no executors; what the final write relies on was read in    *)
(* the same turn of the loop.                                               *)
Loaded == {"RUNNING", "CANCELLED"}

ExecutesOpen ==
  \A w \in Workers :
    Executes(w) => status[run[w].job] \in Loaded \union {"gone"} /\ run[w].seen \in Loaded

OneExecutor ==
  \A v, w \in Workers : v # w /\ Executes(v) /\ Executes(w) => run[v].job # run[w].job

Unused ==
  \A j \in JobIds : j > created => status[j] = "absent" /\ domainOf[j] = NoDomain

OpenSection(p) ==
  /\ loop[p].op \in {"down", "reset"} => \A w \in Workers : ~Executes(w)
  /\ loop[p].op = "cancel" => status[loop[p].job] \in Active
  /\ loop[p].op \in {"finish", "failed", "reject"} =>
       /\ Executes(loop[p].worker)
       /\ run[loop[p].worker].job = loop[p].job
       /\ status[loop[p].job] \in Loaded
       /\ loop[p].seen \in Loaded
       /\ loop[p].op = "finish" => loop[p].seen = status[loop[p].job]

OpenInv ==
  /\ ExecutesOpen
  /\ OneExecutor
  /\ Unused
  /\ \A p \in Procs : OpenSection(p)

(* What ClosedStaysClosed says of a step. *)
StaysClosed ==
  \A j \in JobIds :
    /\ status[j] \in {"COMPLETED", "FAILED"} => status'[j] \in {status[j], "gone"}
    /\ status[j] = "CANCELLED" => status'[j] \in {"CANCELLED", "FAILED", "gone"}

LEMMA InitOpen == Init => OpenInv
  BY DEF Init, OpenInv, ExecutesOpen, OneExecutor, Unused, OpenSection, Executes, Down

(* The executors do not change, and their jobs keep their rows: it remains  *)
(* to show what the section relies on.                                      *)
LEMMA SameRunOpen ==
  ASSUME NEW p, Procs = {p}, TypeOK, OpenInv,
         UNCHANGED <<run, created, domainOf>>,
         \A w \in Workers : Executes(w) => status'[run[w].job] \in Loaded \union {"gone"},
         \A j \in JobIds : status[j] = "absent" => status'[j] = "absent",
         OpenSection(p)'
  PROVE  OpenInv'
  BY DEF OpenInv, ExecutesOpen, OneExecutor, Unused, Executes

(* Requests, polls and the start of a recovery write no row. *)
LEMMA RequestOpen ==
  ASSUME NEW p, Procs = {p}, ClaimInv, OpenInv,
         \/ \E d \in Domains : EnqueueCheck(p, d) \/ DeleteCheck(p, d)
         \/ \E j \in JobIds : CancelCheck(p, j) \/ HeartbeatAges(j)
         \/ PollCheck(p) \/ ResetRead(p)
         \/ \E w \in Workers : PollIdle(w) \/ \E j \in JobIds : PollLock(w, j)
  PROVE  OpenInv' /\ UNCHANGED status
  <1>1. UNCHANGED <<run, created, domainOf, status>>
    BY DEF EnqueueCheck, DeleteCheck, CancelCheck, HeartbeatAges, PollCheck, ResetRead, PollLock,
       PollIdle, jobRows, vars
  <1>2. TypeOK /\ loop \in [Procs -> Section] /\ OpenSection(p)
    BY DEF ClaimInv, TypeOK, OpenInv
  <1>3. \A w \in Workers : Home[w] = p
    BY HomeAssumption
  <1>4. OpenSection(p)'
    <2>1. CASE loop'[p] = loop[p]
      BY <1>1, <1>2, <2>1 DEF OpenSection, Executes
    <2>2. CASE loop'[p].op \in {"enqueue", "delete", "locked", "checked", "free"}
      BY <2>2 DEF OpenSection
    <2>3. CASE \E j \in JobIds : CancelCheck(p, j)
      BY <1>1, <1>2, <2>3 DEF CancelCheck, Becomes, OpenSection
    <2>4. CASE ResetRead(p)
      BY <1>1, <1>2, <2>4 DEF ResetRead, Becomes, OpenSection, Down, Executes
    <2>5. CASE PollCheck(p)
      <3>1. loop[p] \in [op : {"locked", "checked", "begin"}, worker : Workers, job : JobIds]
        BY <1>2, <2>5, LoopShape DEF PollCheck, Section, Down, Free
      <3>2. loop'[p] \in {Free, [loop[p] EXCEPT !.op = "checked"]}
        BY <1>2, <2>5 DEF PollCheck, Becomes
      <3>3. [loop[p] EXCEPT !.op = "checked"].op = "checked" /\ Free.op = "free"
        BY <3>1 DEF Free
      <3>4. loop'[p].op \in {"checked", "free"}
        BY <3>2, <3>3
      <3>5. QED
        BY <2>2, <3>4
    <2>6. CASE \E d \in Domains : EnqueueCheck(p, d) \/ DeleteCheck(p, d)
      BY <1>2, <2>2, <2>6 DEF EnqueueCheck, DeleteCheck, Becomes
    <2>7. CASE \E w \in Workers, j \in JobIds : PollLock(w, j)
      BY <1>2, <1>3, <2>2, <2>7 DEF PollLock, Becomes
    <2>8. CASE \/ \E j \in JobIds : HeartbeatAges(j)
               \/ \E w \in Workers : PollIdle(w)
      BY <2>1, <2>8 DEF HeartbeatAges, PollIdle, vars
    <2>9. QED
      BY <2>3, <2>4, <2>5, <2>6, <2>7, <2>8
  <1>5. QED
    BY <1>1, <1>2, <1>4, SameRunOpen DEF OpenInv, ExecutesOpen

(* An executor loads its job again, or opens the section of its final write. *)
LEMMA ProgressOpen ==
  ASSUME NEW p, Procs = {p}, ClaimInv, OpenInv, NEW w \in Workers,
         Discover(w) \/ StartFetching(w) \/ Heartbeat(w) \/ FinishRead(w) \/ FailRead(w)
  PROVE  OpenInv' /\ UNCHANGED status
  <1>1. /\ Executes(w) /\ status[run[w].job] \in Loaded /\ run[w].seen \in Loaded
        /\ run[w].job \in JobIds /\ loop[p] = Free
        /\ UNCHANGED <<status, created, domainOf>>
    <2>1. /\ run[w].at \in {"discover", "fetch"} /\ status[run[w].job] # "gone"
          /\ loop[Home[w]] = Free /\ UNCHANGED <<status, created, domainOf>>
      BY DEF Discover, StartFetching, Heartbeat, FinishRead, FailRead, AtAwait, jobRows
    <2>2. Home[w] = p
      BY HomeAssumption
    <2>3. QED
      BY <2>1, <2>2, WorkerShape DEF OpenInv, ExecutesOpen, Executes, ClaimInv
  <1>2. CASE Discover(w) \/ StartFetching(w)
    <2>1. PICK at \in {"discover", "fetch"} :
            run' = [run EXCEPT ![w] = [at |-> at, job |-> run[w].job,
                                       seen |-> status[run[w].job]]]
      BY <1>2 DEF Discover, StartFetching, Resume
    <2>2. /\ run'[w].job = run[w].job /\ run'[w].seen \in Loaded /\ run'[w].at # "poll"
          /\ \A v \in Workers : v # w => run'[v] = run[v]
      BY <1>1, <2>1 DEF ClaimInv, TypeOK
    <2>3. loop' = loop
      BY <1>2 DEF Discover, StartFetching
    <2>4. OpenSection(p)'
      BY <1>1, <2>3 DEF OpenSection, Free
    <2>5. ExecutesOpen' /\ OneExecutor' /\ Unused'
      BY <1>1, <2>2 DEF OpenInv, ExecutesOpen, OneExecutor, Unused, Executes
    <2>6. QED
      BY <1>1, <2>4, <2>5 DEF OpenInv
  <1>3. CASE Heartbeat(w)
    <2>1. OpenSection(p)'
      BY <1>1, <1>3 DEF Heartbeat, OpenSection, Free
    <2>2. QED
      BY <1>1, <1>3, <2>1, SameRunOpen DEF Heartbeat, OpenInv, ExecutesOpen, ClaimInv
  <1>4. CASE FinishRead(w) \/ FailRead(w)
    <2>1. \E s \in Loaded :
            \/ loop'[p] = [op |-> "failed", worker |-> w, job |-> run[w].job, seen |-> s]
            \/ /\ loop'[p] = [op |-> "finish", worker |-> w, job |-> run[w].job, seen |-> s]
               /\ s = status[run[w].job]
      <3>1. Home[w] = p
        BY HomeAssumption
      <3>2. CASE FinishRead(w)
        BY <1>1, <3>1, <3>2 DEF FinishRead, Becomes, ClaimInv, TypeOK
      <3>3. CASE FailRead(w)
        BY <1>1, <3>1, <3>3 DEF FailRead, Becomes, ClaimInv, TypeOK
      <3>4. QED
        BY <1>4, <3>2, <3>3
    <2>2. run' = run
      BY <1>4 DEF FinishRead, FailRead
    <2>3. OpenSection(p)'
      BY <1>1, <2>1, <2>2 DEF OpenSection, Executes
    <2>4. QED
      BY <1>1, <2>2, <2>3, SameRunOpen DEF OpenInv, ExecutesOpen, ClaimInv
  <1>5. QED
    BY <1>1, <1>2, <1>3, <1>4

(* Executors stop and the loop ends its section; each row keeps its status  *)
(* or is no longer executed by anybody.                                     *)
LEMMA StopOpen ==
  ASSUME NEW p, Procs = {p}, TypeOK, OpenInv,
         UNCHANGED <<created, domainOf>>,
         \A w \in Workers : run'[w] = run[w] \/ ~Executes(w)',
         \A w \in Workers : Executes(w)' => status'[run[w].job] = status[run[w].job],
         \A j \in JobIds : status[j] = "absent" => status'[j] = "absent",
         \/ loop'[p] = Free
         \/ loop'[p] = Down /\ \A w \in Workers : ~Executes(w)'
  PROVE  OpenInv'
  <1>1. OpenSection(p)'
    BY DEF OpenSection, Free, Down
  <1>2. \A w \in Workers : Executes(w)' => run'[w] = run[w] /\ Executes(w)
    BY DEF Executes
  <1>3. ExecutesOpen' /\ OneExecutor' /\ Unused'
    BY <1>2 DEF OpenInv, ExecutesOpen, OneExecutor, Unused, Executes
  <1>4. QED
    BY <1>1, <1>3 DEF OpenInv

LEMMA ExitOpen ==
  ASSUME NEW p, Procs = {p}, ClaimInv, OpenInv,
         Crash(p) \/ \E w \in Workers : Vanish(w) \/ FlushError(w)
  PROVE  OpenInv' /\ UNCHANGED status
  <1>1. \A w \in Workers : Home[w] = p
    BY HomeAssumption
  <1>2. CASE Crash(p)
    <2>1. \A w \in Workers : ~Executes(w)'
      BY <1>1, <1>2 DEF Crash, Executes
    <2>2. loop'[p] = Down
      BY <1>2 DEF Crash, Becomes, ClaimInv, TypeOK
    <2>3. QED
      BY <1>2, <2>1, <2>2, StopOpen DEF Crash, jobRows, ClaimInv
  <1>3. ASSUME NEW w \in Workers, Vanish(w) \/ FlushError(w)
        PROVE  OpenInv' /\ UNCHANGED status
    <2>1. /\ UNCHANGED <<status, created, domainOf>>
          /\ loop' = loop /\ loop[Home[w]] = Free
          /\ run' = [run EXCEPT ![w] = [at |-> "poll"]]
      BY <1>3 DEF Vanish, FlushError, Leave, AtAwait, jobRows
    <2>2. loop'[p] = Free
      BY <1>1, <2>1
    <2>3. \A v \in Workers : run'[v] = run[v] \/ ~Executes(v)'
      BY <2>1 DEF Executes, ClaimInv, TypeOK
    <2>4. \A v \in Workers : Executes(v)' => status'[run[v].job] = status[run[v].job]
      BY <2>1
    <2>5. QED
      BY <2>1, <2>2, <2>3, <2>4, StopOpen DEF ClaimInv
  <1>4. QED
    BY <1>2, <1>3

(* The claim: nobody executes a queued job. *)
LEMMA PollClaimOpen ==
  ASSUME NEW p, Procs = {p}, ClaimInv, OpenInv, PollClaim(p)
  PROVE  OpenInv' /\ StaysClosed
  <1> DEFINE j == loop[p].job
             w == loop[p].worker
  <1>1. j \in JobIds /\ w \in Workers /\ status[j] = "QUEUED"
    BY LoopShape DEF PollClaim, ClaimInv, LockHolds, Claiming
  <1>2. /\ status' = [status EXCEPT ![j] = "RUNNING"]
        /\ run' = [run EXCEPT ![w] = [at |-> "start", job |-> j, seen |-> "RUNNING"]]
        /\ UNCHANGED <<created, domainOf>>
    BY <1>1 DEF PollClaim, Write, jobRows
  <1>3. \A v \in Workers : Executes(v) => run[v].job # j
    BY <1>1 DEF OpenInv, ExecutesOpen, Loaded
  <1>4. /\ run'[w].at = "start" /\ run'[w].job = j /\ run'[w].seen = "RUNNING"
        /\ \A v \in Workers : v # w => run'[v] = run[v]
    BY <1>1, <1>2 DEF ClaimInv, TypeOK
  <1>5. /\ status'[j] = "RUNNING"
        /\ \A k \in JobIds : k # j => status'[k] = status[k]
    BY <1>1, <1>2 DEF ClaimInv, TypeOK
  <1>6. ExecutesOpen'
    <2>1. ASSUME NEW v \in Workers, Executes(v)'
          PROVE  status'[run'[v].job] \in Loaded \union {"gone"} /\ run'[v].seen \in Loaded
      <3>1. CASE v = w
        BY <1>4, <1>5, <3>1 DEF Loaded
      <3>2. CASE v # w
        <4>1. run'[v] = run[v] /\ Executes(v) /\ run[v].job # j /\ run[v].job \in JobIds
          BY <1>3, <1>4, <2>1, <3>2, WorkerShape DEF Executes, ClaimInv
        <4>2. QED
          BY <1>5, <4>1 DEF OpenInv, ExecutesOpen
      <3>3. QED
        BY <3>1, <3>2
    <2>2. QED
      BY <2>1 DEF ExecutesOpen, Executes
  <1>7. OneExecutor'
    BY <1>3, <1>4 DEF OpenInv, OneExecutor, Executes
  <1>8. Unused'
    BY <1>1, <1>2, <1>5 DEF OpenInv, Unused
  <1>9. OpenSection(p)'
    <2>1. loop[p] \in [op : {"locked", "checked", "begin"}, worker : Workers, job : JobIds]
      BY LoopShape DEF PollClaim, Section, Down, Free, ClaimInv
    <2>2. loop'[p] = [loop[p] EXCEPT !.op = "begin"]
      BY DEF PollClaim, Becomes, ClaimInv, TypeOK
    <2>3. loop'[p].op = "begin"
      BY <2>1, <2>2
    <2>4. QED
      BY <2>3 DEF OpenSection
  <1>10. StaysClosed
    BY <1>1, <1>5 DEF StaysClosed
  <1>11. QED
    BY <1>6, <1>7, <1>8, <1>9, <1>10 DEF OpenInv

LEMMA BeginOpen ==
  ASSUME NEW p, Procs = {p}, ClaimInv, OpenInv, Begin(p)
  PROVE  OpenInv' /\ UNCHANGED status
  <1> DEFINE j == loop[p].job
             w == loop[p].worker
  <1>1. /\ j \in JobIds /\ w \in Workers /\ Executes(w) /\ run[w].job = j
        /\ UNCHANGED <<status, created, domainOf>>
    BY LoopShape DEF Begin, ClaimInv, OwnSection, Executes, jobRows
  <1>2. status[j] \in Loaded \union {"gone"}
    BY <1>1 DEF OpenInv, ExecutesOpen
  <1>3. CASE Leave(w) /\ Becomes(p, Free)
    <2>1. loop'[p] = Free
      BY <1>3 DEF Becomes, ClaimInv, TypeOK
    <2>2. \A v \in Workers : run'[v] = run[v] \/ ~Executes(v)'
      BY <1>1, <1>3 DEF Leave, Executes, ClaimInv, TypeOK
    <2>3. QED
      BY <1>1, <2>1, <2>2, StopOpen DEF ClaimInv
  <1>4. CASE status[j] # "gone" /\ Resume(w, "discover", j) /\ Becomes(p, Free)
    <2>1. /\ run'[w].job = run[w].job /\ run'[w].seen = status[j] /\ run'[w].at # "poll"
          /\ \A v \in Workers : v # w => run'[v] = run[v]
      BY <1>1, <1>4 DEF Resume, ClaimInv, TypeOK
    <2>2. OpenSection(p)'
      BY <1>4 DEF Becomes, OpenSection, Free, ClaimInv, TypeOK
    <2>3. status[j] \in Loaded
      BY <1>2, <1>4
    <2>4. ExecutesOpen'
      BY <1>1, <2>1, <2>3 DEF OpenInv, ExecutesOpen, Executes
    <2>5. OneExecutor' /\ Unused'
      BY <1>1, <2>1 DEF OpenInv, OneExecutor, Unused, Executes
    <2>6. QED
      BY <1>1, <2>2, <2>4, <2>5 DEF OpenInv
  <1>5. CASE /\ status[j] # "gone" /\ UNCHANGED run
             /\ Becomes(p, [op |-> "reject", worker |-> w, job |-> j, seen |-> status[j]])
    <2>1. loop'[p] = [op |-> "reject", worker |-> w, job |-> j, seen |-> status[j]]
      BY <1>5 DEF Becomes, ClaimInv, TypeOK
    <2>2. OpenSection(p)'
      BY <1>1, <1>2, <1>5, <2>1 DEF OpenSection, Executes
    <2>3. QED
      BY <1>1, <1>5, <2>2, SameRunOpen DEF OpenInv, ExecutesOpen, ClaimInv
  <1>6. QED
    BY <1>1, <1>3, <1>4, <1>5 DEF Begin

(* A cancellation of an open job keeps its executor's job open. *)
LEMMA CancelOpen ==
  ASSUME NEW p, Procs = {p}, ClaimInv, OpenInv, CancelWrite(p)
  PROVE  OpenInv' /\ StaysClosed
  <1> DEFINE j == loop[p].job
  <1>1. j \in JobIds /\ status[j] \in Active
    BY LoopShape DEF CancelWrite, ClaimInv, OpenInv, OpenSection
  <1>2. /\ status' = [status EXCEPT ![j] = "CANCELLED"]
        /\ UNCHANGED <<run, created, domainOf>>
    BY <1>1 DEF CancelWrite, Write, jobRows, Active
  <1>3. status'[j] = "CANCELLED" /\ \A k \in JobIds : k # j => status'[k] = status[k]
    BY <1>1, <1>2 DEF ClaimInv, TypeOK
  <1>4. OpenSection(p)'
    BY DEF CancelWrite, Becomes, OpenSection, Free, ClaimInv, TypeOK
  <1>5. \A w \in Workers : Executes(w) => status'[run[w].job] \in Loaded \union {"gone"}
    BY <1>3, WorkerShape DEF OpenInv, ExecutesOpen, Loaded, Executes, ClaimInv
  <1>6. OpenInv'
    BY <1>1, <1>2, <1>3, <1>4, <1>5, SameRunOpen DEF ClaimInv, Active
  <1>7. QED
    BY <1>1, <1>3, <1>6 DEF StaysClosed, Active

(* The final write, by the only executor of the job. *)
LEMMA EndOpen ==
  ASSUME NEW p, Procs = {p}, ClaimInv, OpenInv, FinishWrite(p) \/ FailWrite(p)
  PROVE  OpenInv' /\ StaysClosed
  <1> DEFINE j == loop[p].job
             w == loop[p].worker
  <1>1. /\ j \in JobIds /\ w \in Workers /\ Executes(w) /\ run[w].job = j
        /\ status[j] \in Loaded
        /\ loop[p].op = "finish" => loop[p].seen = status[j]
    BY LoopShape DEF FinishWrite, FailWrite, ClaimInv, OpenInv, OpenSection
  <1>2. /\ run' = [run EXCEPT ![w] = [at |-> "poll"]]
        /\ loop'[p] = Free
        /\ UNCHANGED <<created, domainOf>>
    BY DEF FinishWrite, FailWrite, Leave, Becomes, jobRows, ClaimInv, TypeOK
  <1>3. \/ status' = status
        \/ status' = [status EXCEPT ![j] = "FAILED"]
        \/ status' = [status EXCEPT ![j] = "COMPLETED"] /\ status[j] = "RUNNING"
    <2>1. CASE FinishWrite(p)
      BY <1>1, <2>1 DEF FinishWrite, Write, Loaded
    <2>2. CASE FailWrite(p)
      BY <1>1, <2>2 DEF FailWrite, Write
    <2>3. QED
      BY <2>1, <2>2
  <1>4. \A k \in JobIds : k # j => status'[k] = status[k]
    BY <1>1, <1>3 DEF ClaimInv, TypeOK
  <1>5. run'[w].at = "poll" /\ \A v \in Workers : v # w => run'[v] = run[v]
    BY <1>1, <1>2 DEF ClaimInv, TypeOK
  <1>6. \A v \in Workers : Executes(v)' => status'[run[v].job] = status[run[v].job]
    <2>1. ASSUME NEW v \in Workers, Executes(v)'
          PROVE  status'[run[v].job] = status[run[v].job]
      <3>1. v # w /\ Executes(v)
        BY <1>5, <2>1 DEF Executes
      <3>2. run[v].job # j /\ run[v].job \in JobIds
        BY <1>1, <3>1, WorkerShape DEF OpenInv, OneExecutor, Executes, ClaimInv
      <3>3. QED
        BY <1>4, <3>2
    <2>2. QED
      BY <2>1
  <1>7. \A k \in JobIds : status[k] = "absent" => status'[k] = "absent"
    BY <1>1, <1>4 DEF Loaded
  <1>8. OpenInv'
    <2>1. \A v \in Workers : run'[v] = run[v] \/ ~Executes(v)'
      BY <1>5 DEF Executes
    <2>2. QED
      BY <1>2, <1>6, <1>7, <2>1, StopOpen DEF ClaimInv
  <1>9. StaysClosed
    BY <1>1, <1>3, <1>4 DEF StaysClosed, Loaded, ClaimInv, TypeOK
  <1>10. QED
    BY <1>8, <1>9

(* A new id was used by nobody. *)
LEMMA InsertOpen ==
  ASSUME NEW p, Procs = {p}, ClaimInv, OpenInv, EnqueueInsert(p)
  PROVE  OpenInv' /\ StaysClosed
  <1> DEFINE n == created + 1
  <1>1. loop'[p] = Free /\ run' = run
    BY DEF EnqueueInsert, Becomes, ClaimInv, TypeOK
  <1>2. CASE UNCHANGED <<created, status, domainOf>>
    BY <1>1, <1>2, StopOpen DEF StaysClosed, ClaimInv, TypeOK
  <1>3. CASE /\ created < MaxJobs /\ created' = n
             /\ status' = [status EXCEPT ![n] = "QUEUED"]
             /\ domainOf' = [domainOf EXCEPT ![n] = loop[p].domain]
    <2>1. n \in JobIds /\ created \in Nat /\ n > created
      BY <1>3, MaxJobsAssumption DEF JobIds, ClaimInv, TypeOK
    <2>2. status[n] = "absent"
      BY <2>1 DEF OpenInv, Unused
    <2>3. \A k \in JobIds : k # n => status'[k] = status[k] /\ domainOf'[k] = domainOf[k]
      BY <1>3, <2>1 DEF ClaimInv, TypeOK
    <2>4. \A w \in Workers : Executes(w) => run[w].job # n /\ run[w].job \in JobIds
      BY <2>2, WorkerShape DEF OpenInv, ExecutesOpen, Loaded, Executes, ClaimInv
    <2>5. ExecutesOpen' /\ OneExecutor'
      BY <1>1, <2>3, <2>4 DEF OpenInv, ExecutesOpen, OneExecutor, Executes
    <2>6. Unused'
      <3>1. ASSUME NEW k \in JobIds, k > n PROVE k # n /\ k > created
        BY <2>1, <3>1 DEF JobIds
      <3>2. QED
        BY <1>3, <2>3, <3>1 DEF OpenInv, Unused
    <2>7. OpenSection(p)'
      BY <1>1 DEF OpenSection, Free
    <2>8. StaysClosed
      BY <2>2, <2>3 DEF StaysClosed
    <2>9. QED
      BY <2>5, <2>6, <2>7, <2>8 DEF OpenInv
  <1>4. QED
    BY <1>2, <1>3 DEF EnqueueInsert

LEMMA DeleteOpen ==
  ASSUME NEW p, Procs = {p}, ClaimInv, OpenInv, DeleteCommit(p)
  PROVE  OpenInv' /\ StaysClosed
  <1>1. /\ loop'[p] = Free /\ run' = run /\ UNCHANGED <<created, domainOf>>
        /\ status' = [j \in JobIds |-> IF domainOf[j] = loop[p].domain THEN "gone" ELSE status[j]]
        /\ loop[p].domain \in Domains
    BY LoopShape DEF DeleteCommit, Becomes, ClaimInv, TypeOK
  <1>2. \A j \in JobIds : status'[j] \in {status[j], "gone"}
    BY <1>1
  <1>3. ExecutesOpen' /\ OneExecutor'
    BY <1>1, <1>2, WorkerShape DEF OpenInv, ExecutesOpen, OneExecutor, Executes, ClaimInv
  <1>4. Unused'
    BY <1>1, NoDomainAssumption DEF OpenInv, Unused
  <1>5. OpenSection(p)'
    BY <1>1 DEF OpenSection, Free
  <1>6. StaysClosed
    BY <1>2 DEF StaysClosed
  <1>7. QED
    BY <1>3, <1>4, <1>5, <1>6 DEF OpenInv

(* Nobody executes while the process recovers. *)
LEMMA ResetOpen ==
  ASSUME NEW p, Procs = {p}, ClaimInv, SoloInv, OpenInv, ResetWrite(p)
  PROVE  OpenInv' /\ StaysClosed
  <1>1. /\ run' = run /\ UNCHANGED <<created, domainOf>>
        /\ loop'[p] \in {Free, Down}
    BY DEF ResetWrite, Becomes, ClaimInv, TypeOK
  <1>2. \A w \in Workers : ~Executes(w)
    BY DEF ResetWrite, OpenInv, OpenSection
  <1>3. \A j \in JobIds : status'[j] = status[j] \/ status[j] = "RUNNING"
    <2>1. \A j \in loop[p].stuck : status[j] = "RUNNING"
      BY DEF ResetWrite, SoloInv, SoloSection
    <2>2. QED
      BY <2>1 DEF ResetWrite
  <1>4. OpenInv'
    BY <1>1, <1>2, <1>3, StopOpen DEF Executes, ClaimInv
  <1>5. QED
    BY <1>3, <1>4 DEF StaysClosed

LEMMA StepOpen ==
  ASSUME NEW p, Procs = {p}, ClaimInv, SoloInv, OpenInv, [Next]_vars
  PROVE  OpenInv' /\ (StaysClosed \/ UNCHANGED vars)
  <1>1. CASE UNCHANGED vars
    BY <1>1 DEF vars, OpenInv, ExecutesOpen, OneExecutor, Unused, OpenSection, Executes
  <1>2. CASE OpenInv' /\ UNCHANGED status
    BY <1>2 DEF StaysClosed
  <1>3. CASE Next
    <2>1. CASE \/ \E d \in Domains : EnqueueCheck(p, d) \/ DeleteCheck(p, d)
               \/ \E j \in JobIds : CancelCheck(p, j) \/ HeartbeatAges(j)
               \/ PollCheck(p) \/ ResetRead(p)
               \/ \E w \in Workers : PollIdle(w) \/ \E j \in JobIds : PollLock(w, j)
      BY <1>2, <2>1, RequestOpen
    <2>2. CASE \E w \in Workers :
                 \/ Discover(w) \/ StartFetching(w) \/ Heartbeat(w)
                 \/ FinishRead(w) \/ FailRead(w)
      BY <1>2, <2>2, ProgressOpen
    <2>3. CASE Crash(p) \/ \E w \in Workers : Vanish(w) \/ FlushError(w)
      BY <1>2, <2>3, ExitOpen
    <2>4. CASE Begin(p)
      BY <1>2, <2>4, BeginOpen
    <2>5. CASE \/ PollClaim(p) \/ CancelWrite(p) \/ FinishWrite(p) \/ FailWrite(p)
               \/ EnqueueInsert(p) \/ DeleteCommit(p) \/ ResetWrite(p)
      BY <2>5, PollClaimOpen, CancelOpen, EndOpen, InsertOpen, DeleteOpen, ResetOpen
    <2>6. QED
      BY <1>3, <2>1, <2>2, <2>3, <2>4, <2>5 DEF Next, Continue
  <1>4. QED
    BY <1>1, <1>3

(* One process: the job a worker executes was not finished or put back into *)
(* the queue by anybody else, whatever crashes, fails or is cancelled.      *)
THEOREM ExecutedStaysOpen ==
  ASSUME NEW p, Procs = {p}
  PROVE  Spec => []ExecutedJobIsOpen
  <1>1. OpenInv => ExecutedJobIsOpen
    BY DEF OpenInv, ExecutesOpen, ExecutedJobIsOpen, Executes, Loaded
  <1>2. SoloInv /\ ClaimInv /\ [Next]_vars => SoloInv'
    BY StepSolo
  <1>3. OpenInv /\ SoloInv /\ ClaimInv /\ [Next]_vars => OpenInv'
    BY StepOpen
  <1>4. QED
    BY <1>1, <1>2, <1>3, InitSolo, InitOpen, ClaimCorrect, PTL DEF Spec

(* One process: a finished job keeps its outcome; no late cancellation,     *)
(* recovery, claim or second executor writes over it.                       *)
THEOREM ClosedForGood ==
  ASSUME NEW p, Procs = {p}
  PROVE  Spec => ClosedStaysClosed
  <1>1. SoloInv /\ ClaimInv /\ [Next]_vars => SoloInv'
    BY StepSolo
  <1>2. OpenInv /\ SoloInv /\ ClaimInv /\ [Next]_vars => OpenInv' /\ [StaysClosed]_vars
    BY StepOpen
  <1>3. QED
    BY <1>1, <1>2, InitSolo, InitOpen, ClaimCorrect, PTL
       DEF Spec, ClosedStaysClosed, StaysClosed
==============================================================================
