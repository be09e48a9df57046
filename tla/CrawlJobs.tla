------------------------------ MODULE CrawlJobs ------------------------------
(***************************************************************************)
(* The crawl job queue of the backend: the crawl_job table, the requests   *)
(* and the scheduler that enqueue, cancel and delete, the worker coroutines *)
(* that claim a job and execute it, and the recovery that a process runs   *)
(* when it starts.                                                         *)
(*                                                                         *)
(* The backend runs as several uvicorn processes on one PostgreSQL         *)
(* database (READ COMMITTED).  Each process has one asyncio event loop:    *)
(* code between two awaits is atomic for the coroutines of its own process *)
(* but not for the other processes, which run between any two of its       *)
(* database statements.  loop[p] is the synchronous section process p is   *)
(* in the middle of; run[w] is worker coroutine w, parked at an await.     *)
(***************************************************************************)
EXTENDS Naturals

CONSTANTS Procs,      \* uvicorn processes (and replicas)
          Workers,    \* crawl worker coroutines, CRAWL_WORKER_CONCURRENCY a process
          Home,       \* Home[w] is the process that runs worker w
          Domains,    \* domains that exist when the system starts
          NoDomain,   \* domain_id of a row that was never inserted
          MaxJobs,    \* bound: rows the crawl_job table may ever hold
          Faults      \* which of "crash" and "flush" may happen

ASSUME HomeAssumption == Home \in [Workers -> Procs]
ASSUME NoDomainAssumption == NoDomain \notin Domains
ASSUME MaxJobsAssumption == MaxJobs \in Nat
ASSUME FaultsAssumption == Faults \subseteq {"crash", "flush"}

VARIABLES created,    \* number of rows inserted so far; ids follow created_at
          status,     \* crawl_job.status, "absent" before the insert, "gone" after a delete
          domainOf,   \* crawl_job.domain_id
          heartbeat,  \* crawl_job.heartbeat_at: NULL, recent, or older than the timeout
          recovered,  \* error_log carries the note of a recovery
          live,       \* rows of the Domain table
          run,        \* worker coroutines
          loop        \* synchronous section in progress in each process

vars == <<created, status, domainOf, heartbeat, recovered, live, run, loop>>

JobIds == 1 .. MaxJobs
Active == {"QUEUED", "RUNNING"}
Terminal == {"COMPLETED", "FAILED", "CANCELLED"}
Status == Active \union Terminal \union {"absent", "gone"}

(* A worker coroutine: polling, or executing a job.  seen is the status its *)
(* session last loaded: autoflush is off and a row already in the identity  *)
(* map is not reloaded by a query.                                          *)
Polling == [at : {"poll"}]
Executing == [at : {"start", "discover", "fetch"}, job : JobIds, seen : Status]

(* The synchronous sections of a process's event loop. *)
Down == [op |-> "down"]
Free == [op |-> "free"]
Section ==
  {Down, Free}
    \union [op : {"enqueue", "delete"}, domain : Domains]
    \union [op : {"cancel"}, job : JobIds]
    \union [op : {"locked", "checked", "begin"}, worker : Workers, job : JobIds]
    \union [op : {"finish", "failed", "reject"}, worker : Workers, job : JobIds, seen : Status]
    \union [op : {"reset"}, stuck : SUBSET JobIds]

TypeOK ==
  /\ created \in 0 .. MaxJobs
  /\ status \in [JobIds -> Status]
  /\ domainOf \in [JobIds -> Domains \union {NoDomain}]
  /\ heartbeat \in [JobIds -> {"none", "fresh", "stale"}]
  /\ recovered \in [JobIds -> BOOLEAN]
  /\ live \subseteq Domains
  /\ run \in [Workers -> Polling \union Executing]
  /\ loop \in [Procs -> Section]

Init ==
  /\ created = 0
  /\ status = [j \in JobIds |-> "absent"]
  /\ domainOf = [j \in JobIds |-> NoDomain]
  /\ heartbeat = [j \in JobIds |-> "none"]
  /\ recovered = [j \in JobIds |-> FALSE]
  /\ live = Domains
  /\ run = [w \in Workers |-> [at |-> "poll"]]
  /\ loop = [p \in Procs |-> Down]

-----------------------------------------------------------------------------
(* Queries and row locks. *)

JobsOf(d) == {j \in JobIds : domainOf[j] = d}

(* Variant: a check that forgets the jobs still in the queue. *)
HasActiveJob_RunningOnly(d) == \E j \in JobsOf(d) : status[j] = "RUNNING"

HasActiveJob(d) == \E j \in JobsOf(d) : status[j] \in Active

HasRunningJob(d) == \E j \in JobsOf(d) : status[j] = "RUNNING"

(* SELECT ... FOR UPDATE holds the row from the poll's select to its commit. *)
RowLocked(j) ==
  \E p \in Procs : loop[p].op \in {"locked", "checked"} /\ loop[p].job = j

(* Variant: a poll without SKIP LOCKED. *)
Claimable_Unlocked(j) == status[j] = "QUEUED"

Claimable(j) == status[j] = "QUEUED" /\ ~RowLocked(j)

(* The session's loaded status, which decides whether an assignment to the  *)
(* attribute is a change that the flush writes.                             *)
Write(j, seen, new) ==
  status' = IF status[j] = "gone" \/ seen = new
            THEN status
            ELSE [status EXCEPT ![j] = new]

AtAwait(w, phases) ==
  /\ loop[Home[w]] = Free
  /\ run[w].at \in phases

Becomes(p, section) == loop' = [loop EXCEPT ![p] = section]

Resume(w, phase, j) ==
  run' = [run EXCEPT ![w] = [at |-> phase, job |-> j, seen |-> status[j]]]

(* Variant: the worker goes back to polling and keeps the job. *)
Leave_KeepsJob(w) == run' = [run EXCEPT ![w].at = "poll"]

Leave(w) == run' = [run EXCEPT ![w] = [at |-> "poll"]]

jobRows == <<created, domainOf, heartbeat, recovered, live>>

-----------------------------------------------------------------------------
(* Requests and the scheduler. *)

(* A manual trigger or one policy of the scheduler's scan: the check that   *)
(* no job of the domain is active.                                          *)
EnqueueCheck(p, d) ==
  /\ loop[p] = Free
  /\ d \in live
  /\ created < MaxJobs
  /\ ~HasActiveJob(d)
  /\ Becomes(p, [op |-> "enqueue", domain |-> d])
  /\ UNCHANGED <<status, run, jobRows>>

(* The insert.  It fails on the foreign key if the domain is gone; the      *)
(* bound MaxJobs cuts the table off the same way.                           *)
EnqueueInsert(p) ==
  /\ loop[p].op = "enqueue"
  /\ IF loop[p].domain \in live /\ created < MaxJobs
     THEN /\ created' = created + 1
          /\ status' = [status EXCEPT ![created + 1] = "QUEUED"]
          /\ domainOf' = [domainOf EXCEPT ![created + 1] = loop[p].domain]
     ELSE UNCHANGED <<created, status, domainOf>>
  /\ Becomes(p, Free)
  /\ UNCHANGED <<heartbeat, recovered, live, run>>

CancelCheck(p, j) ==
  /\ loop[p] = Free
  /\ status[j] \in Active
  /\ Becomes(p, [op |-> "cancel", job |-> j])
  /\ UNCHANGED <<status, run, jobRows>>

(* Variant: a cancellation that does not wait for the poll's row lock. *)
CancelWrite_NoWait(p) ==
  /\ loop[p].op = "cancel"
  /\ Write(loop[p].job, "RUNNING", "CANCELLED")
  /\ Becomes(p, Free)
  /\ UNCHANGED <<run, jobRows>>

CancelWrite(p) ==
  /\ loop[p].op = "cancel"
  /\ ~RowLocked(loop[p].job)
  /\ Write(loop[p].job, "RUNNING", "CANCELLED")
  /\ Becomes(p, Free)
  /\ UNCHANGED <<run, jobRows>>

(* Variant: a delete that does not look for active jobs. *)
DeleteCheck_Unguarded(p, d) ==
  /\ loop[p] = Free
  /\ d \in live
  /\ Becomes(p, [op |-> "delete", domain |-> d])
  /\ UNCHANGED <<status, run, jobRows>>

DeleteCheck(p, d) ==
  /\ loop[p] = Free
  /\ d \in live
  /\ ~HasActiveJob(d)
  /\ Becomes(p, [op |-> "delete", domain |-> d])
  /\ UNCHANGED <<status, run, jobRows>>

(* The cascade removes every job row the domain has at the commit. *)
DeleteCommit(p) ==
  /\ loop[p].op = "delete"
  /\ \A j \in JobsOf(loop[p].domain) : ~RowLocked(j)
  /\ live' = live \ {loop[p].domain}
  /\ status' = [j \in JobIds |-> IF domainOf[j] = loop[p].domain THEN "gone" ELSE status[j]]
  /\ Becomes(p, Free)
  /\ UNCHANGED <<created, domainOf, heartbeat, recovered, run>>

-----------------------------------------------------------------------------
(* A worker's poll: one transaction of three statements. *)

PollLock(w, j) ==
  /\ AtAwait(w, {"poll"})
  /\ Claimable(j)
  /\ \A k \in JobIds : Claimable(k) => j <= k
  /\ Becomes(Home[w], [op |-> "locked", worker |-> w, job |-> j])
  /\ UNCHANGED <<status, run, jobRows>>

(* Nothing to claim: the worker sleeps and polls again. *)
PollIdle(w) ==
  /\ AtAwait(w, {"poll"})
  /\ \A j \in JobIds : ~Claimable(j)
  /\ UNCHANGED vars

(* Variant: the check for a running job also counts queued ones. *)
PollCheck_CountsQueued(p) ==
  /\ loop[p].op = "locked"
  /\ Becomes(p, IF HasActiveJob(domainOf[loop[p].job])
                THEN Free
                ELSE [loop[p] EXCEPT !.op = "checked"])
  /\ UNCHANGED <<status, run, jobRows>>

(* The second statement: roll back, releasing the row, if a job of the      *)
(* domain is running.                                                       *)
PollCheck(p) ==
  /\ loop[p].op = "locked"
  /\ Becomes(p, IF HasRunningJob(domainOf[loop[p].job])
                THEN Free
                ELSE [loop[p] EXCEPT !.op = "checked"])
  /\ UNCHANGED <<status, run, jobRows>>

(* The commit, after which run_job starts without giving up the loop. *)
PollClaim(p) ==
  /\ loop[p].op = "checked"
  /\ Write(loop[p].job, "QUEUED", "RUNNING")
  /\ run' = [run EXCEPT ![loop[p].worker] =
               [at |-> "start", job |-> loop[p].job, seen |-> "RUNNING"]]
  /\ Becomes(p, [loop[p] EXCEPT !.op = "begin"])
  /\ UNCHANGED jobRows

-----------------------------------------------------------------------------
(* The executor. *)

(* Variant: without a policy the executor returns and leaves the job running. *)
Begin_SilentReturn(p) ==
  /\ loop[p].op = "begin"
  /\ \/ Leave(loop[p].worker)
     \/ /\ status[loop[p].job] # "gone"
        /\ Resume(loop[p].worker, "discover", loop[p].job)
  /\ Becomes(p, Free)
  /\ UNCHANGED <<status, jobRows>>

(* The job row is loaded; without a policy the job is rejected at once, and *)
(* that write does not look at the status.                                  *)
Begin(p) ==
  /\ loop[p].op = "begin"
  /\ LET j == loop[p].job
         w == loop[p].worker
     IN \/ /\ status[j] = "gone"
           /\ Leave(w)
           /\ Becomes(p, Free)
        \/ /\ status[j] # "gone"
           /\ Resume(w, "discover", j)
           /\ Becomes(p, Free)
        \/ /\ status[j] # "gone"
           /\ Becomes(p, [op |-> "reject", worker |-> w, job |-> j, seen |-> status[j]])
           /\ UNCHANGED run
  /\ UNCHANGED <<status, jobRows>>

(* One discovered URL is committed; reading a counter afterwards reloads    *)
(* the expired job row.                                                     *)
Discover(w) ==
  /\ AtAwait(w, {"discover"})
  /\ status[run[w].job] # "gone"
  /\ Resume(w, "discover", run[w].job)
  /\ UNCHANGED <<status, loop, jobRows>>

StartFetching(w) ==
  /\ AtAwait(w, {"discover"})
  /\ status[run[w].job] # "gone"
  /\ Resume(w, "fetch", run[w].job)
  /\ UNCHANGED <<status, loop, jobRows>>

Heartbeat(w) ==
  /\ AtAwait(w, {"fetch"})
  /\ status[run[w].job] # "gone"
  /\ heartbeat' = [heartbeat EXCEPT ![run[w].job] = "fresh"]
  /\ UNCHANGED <<created, status, domainOf, recovered, live, run, loop>>

(* The loop ends, by cancellation or for want of pages: the final refresh. *)
FinishRead(w) ==
  /\ AtAwait(w, {"fetch"})
  /\ status[run[w].job] # "gone"
  /\ Becomes(Home[w], [op |-> "finish", worker |-> w, job |-> run[w].job,
                       seen |-> status[run[w].job]])
  /\ UNCHANGED <<status, run, jobRows>>

(* Variant: the final write without the test for a cancellation. *)
FinishWrite_Always(p) ==
  /\ loop[p].op = "finish"
  /\ ~RowLocked(loop[p].job)
  /\ Write(loop[p].job, loop[p].seen, "COMPLETED")
  /\ Leave(loop[p].worker)
  /\ Becomes(p, Free)
  /\ UNCHANGED jobRows

FinishWrite(p) ==
  /\ loop[p].op = "finish"
  /\ ~RowLocked(loop[p].job)
  /\ IF loop[p].seen = "CANCELLED"
     THEN UNCHANGED status
     ELSE Write(loop[p].job, loop[p].seen, "COMPLETED")
  /\ Leave(loop[p].worker)
  /\ Becomes(p, Free)
  /\ UNCHANGED jobRows

(* An exception reaches run_job.  During discovery the session may still    *)
(* hold the status it loaded before the await.                              *)
FailRead(w) ==
  /\ AtAwait(w, {"discover", "fetch"})
  /\ status[run[w].job] # "gone"
  /\ \E s \in {status[run[w].job]} \union
              (IF run[w].at = "discover" THEN {run[w].seen} ELSE {}) :
       Becomes(Home[w], [op |-> "failed", worker |-> w, job |-> run[w].job, seen |-> s])
  /\ UNCHANGED <<status, run, jobRows>>

FailWrite(p) ==
  /\ loop[p].op \in {"failed", "reject"}
  /\ ~RowLocked(loop[p].job)
  /\ IF loop[p].op = "failed" /\ loop[p].seen \in Terminal
     THEN UNCHANGED status
     ELSE Write(loop[p].job, loop[p].seen, "FAILED")
  /\ Leave(loop[p].worker)
  /\ Becomes(p, Free)
  /\ UNCHANGED jobRows

(* The row was deleted: the refresh raises, and the handler finds no job. *)
Vanish(w) ==
  /\ AtAwait(w, {"discover", "fetch"})
  /\ status[run[w].job] = "gone"
  /\ Leave(w)
  /\ UNCHANGED <<status, loop, jobRows>>

(* A flush failed (a URL row inserted or deleted by somebody else): the     *)
(* session refuses the handler's query, and the handler ignores that.       *)
FlushError(w) ==
  /\ "flush" \in Faults
  /\ AtAwait(w, {"discover", "fetch"})
  /\ Leave(w)
  /\ UNCHANGED <<status, loop, jobRows>>

-----------------------------------------------------------------------------
(* Process life cycle and time. *)

(* Killed, or shut down by cancelling the worker tasks: CancelledError is   *)
(* not caught by run_job, so the rows stay as they are either way.          *)
Crash(p) ==
  /\ "crash" \in Faults
  /\ loop[p] # Down
  /\ Becomes(p, Down)
  /\ run' = [w \in Workers |-> IF Home[w] = p THEN [at |-> "poll"] ELSE run[w]]
  /\ UNCHANGED <<status, jobRows>>

(* Variant: the recovery also runs while the process is serving. *)
ResetRead_Periodic(p) ==
  /\ loop[p] \in {Down, Free}
  /\ Becomes(p, [op |-> "reset",
                 stuck |-> {j \in JobIds : status[j] = "RUNNING" /\ heartbeat[j] = "stale"}])
  /\ UNCHANGED <<status, run, jobRows>>

ResetRead(p) ==
  /\ loop[p] = Down
  /\ Becomes(p, [op |-> "reset",
                 stuck |-> {j \in JobIds : status[j] = "RUNNING" /\ heartbeat[j] = "stale"}])
  /\ UNCHANGED <<status, run, jobRows>>

(* One commit for all stuck rows.  A row deleted meanwhile makes the flush  *)
(* fail and the start-up abort; otherwise workers and requests start.       *)
ResetWrite(p) ==
  /\ loop[p].op = "reset"
  /\ \A j \in loop[p].stuck : ~RowLocked(j)
  /\ IF \E j \in loop[p].stuck : status[j] = "gone"
     THEN /\ Becomes(p, Down)
          /\ UNCHANGED <<status, recovered>>
     ELSE /\ Becomes(p, Free)
          /\ status' = [j \in JobIds |-> IF j \in loop[p].stuck THEN "QUEUED" ELSE status[j]]
          /\ recovered' = [j \in JobIds |-> j \in loop[p].stuck \/ recovered[j]]
  /\ UNCHANGED <<created, domainOf, heartbeat, live, run>>

(* Five minutes pass: a fetch, an embedding call or a rate-limit pause can  *)
(* take that long, and a second execution starts with the old value.        *)
HeartbeatAges(j) ==
  /\ heartbeat[j] = "fresh"
  /\ heartbeat' = [heartbeat EXCEPT ![j] = "stale"]
  /\ UNCHANGED <<created, status, domainOf, recovered, live, run, loop>>

-----------------------------------------------------------------------------
(* The steps a process takes on its own once it has started a section. *)
Continue(p) ==
  \/ EnqueueInsert(p)
  \/ CancelWrite(p)
  \/ DeleteCommit(p)
  \/ PollCheck(p)
  \/ PollClaim(p)
  \/ Begin(p)
  \/ FinishWrite(p)
  \/ FailWrite(p)
  \/ ResetRead(p)
  \/ ResetWrite(p)

Next ==
  \/ \E p \in Procs :
       \/ \E d \in Domains : EnqueueCheck(p, d) \/ DeleteCheck(p, d)
       \/ \E j \in JobIds : CancelCheck(p, j)
       \/ Continue(p)
       \/ Crash(p)
  \/ \E w \in Workers :
       \/ \E j \in JobIds : PollLock(w, j)
       \/ PollIdle(w)
       \/ Discover(w)
       \/ StartFetching(w)
       \/ Heartbeat(w)
       \/ FinishRead(w)
       \/ FailRead(w)
       \/ Vanish(w)
       \/ FlushError(w)
  \/ \E j \in JobIds : HeartbeatAges(j)

Spec == Init /\ [][Next]_vars

(* A process finishes the synchronous section it is in: PostgreSQL queues    *)
(* the writers that wait for a row, so a wait that ends again and again ends *)
(* for this writer too.  The poll repeats.  asyncio resumes ready coroutines *)
(* in FIFO order, so one that is ready again and again is resumed; discovery *)
(* and the list of pages are finite.                                        *)
Fairness ==
  /\ \A p \in Procs : SF_vars(Continue(p))
  /\ \A w \in Workers :
       /\ WF_vars(\E j \in JobIds : PollLock(w, j))
       /\ SF_vars(StartFetching(w))
       /\ SF_vars(FinishRead(w))

FairSpec == Spec /\ Fairness
-----------------------------------------------------------------------------
(* Properties. *)

(* A domain never has two jobs that are queued or running: what enqueue     *)
(* promises with its ConflictError.  It holds when one process serves       *)
(* everything, because check and insert share one turn of the event loop.   *)
OneActivePerDomain ==
  \A j, k \in JobIds :
    domainOf[j] = domainOf[k] /\ status[j] \in Active /\ status[k] \in Active => j = k

(* With one process the queue is one slot for each domain: submit, start,   *)
(* close, recover and remove happen one after the other (CrawlSlots).       *)
SlotOf(d) ==
  IF d \notin live THEN "deleted"
  ELSE IF HasRunningJob(d) THEN "running"
  ELSE IF HasActiveJob(d) THEN "queued"
  ELSE "free"

slotMap == [d \in Domains |-> SlotOf(d)]

Slots == INSTANCE CrawlSlots WITH slot <- slotMap

OneSlotPerDomain == Slots!Spec

(* With one process, the job a worker executes is running, was cancelled    *)
(* under it, or was deleted after a cancellation: nobody else finishes it   *)
(* or puts it back into the queue.                                          *)
ExecutedJobIsOpen ==
  \A w \in Workers :
    run[w].at \in {"discover", "fetch"}
      => status[run[w].job] \in {"RUNNING", "CANCELLED", "gone"}

(* With one process, a finished job stays finished and keeps its outcome;   *)
(* only a cancelled job may still be recorded as failed, by an executor     *)
(* that raised during discovery before it looked at the row again.          *)
ClosedStaysClosed ==
  [][\A j \in JobIds :
       /\ status[j] \in {"COMPLETED", "FAILED"} => status'[j] \in {status[j], "gone"}
       /\ status[j] = "CANCELLED" => status'[j] \in {"CANCELLED", "FAILED", "gone"}]_vars

(* Two workers execute the same job only if a recovery put it back into the *)
(* queue: SKIP LOCKED keeps two polls apart, whatever the processes do.     *)
SameJobOnlyAfterRecovery ==
  \A v, w \in Workers :
    v # w /\ run[v].at # "poll" /\ run[w].at # "poll" /\ run[v].job = run[w].job
      => recovered[run[v].job]

(* A worker starts only a job that is queued at the moment it commits: a    *)
(* cancellation that overlaps the poll is never overwritten by the claim.   *)
ClaimNeverRevives ==
  [][\A j \in JobIds :
       status'[j] = "RUNNING" => status[j] \in {"QUEUED", "RUNNING"}]_vars

(* While no process dies and no flush fails, a running job has a worker     *)
(* that executes it, so it will be finished: no interleaving of executors,  *)
(* recoveries, cancellations and claims leaves a running row behind.        *)
RunningHasExecutor ==
  \A j \in JobIds :
    status[j] = "RUNNING" => \E w \in Workers : run[w].at # "poll" /\ run[w].job = j

(* A queued job eventually leaves the queue, even when an older job of a    *)
(* busy domain is in front of it.                                           *)
QueuedEventuallyLeaves ==
  \A j \in JobIds : (status[j] = "QUEUED") ~> (status[j] # "QUEUED")

==============================================================================
