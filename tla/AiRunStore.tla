------------------------------ MODULE AiRunStore ------------------------------
(***************************************************************************)
(* The AI service: instances that execute runs, and the Redis store they   *)
(* share.  Each call of the store is one script, hence one step.  A run is *)
(* owned by the instance that created it, which renews the lease of the    *)
(* run as long as it holds a controller for it; whoever reads a run whose  *)
(* lease ran out fails it as owner_instance_lost.  Cancelling marks the    *)
(* run and publishes a notification to its owner, which may be lost: the   *)
(* owner polls for the mark as well.                                       *)
(***************************************************************************)
EXTENDS Naturals

CONSTANTS
  Instances,
  RunIds,
  MaxCrashes,      \* bound on instances that stop, in order or not
  MaxStoreFaults   \* bound on store calls whose reply does not arrive

ASSUME StoreBoundsAssumption == {MaxCrashes, MaxStoreFaults} \subseteq Nat

VARIABLES
  run,       \* the stored record of each run, see Records
  work,      \* work[i][r]: what instance i does for run r, see Jobs
  notices,   \* the cancel notifications on their way, as pairs of instance and run
  up,        \* the instances that run
  faults     \* how much of each bound is used up

storeVars == <<run, work, notices, up, faults>>

-------------------------------------------------------------------------------
(* Values *)

EndStatuses == {"succeeded", "failed", "cancelled"}
Live(r)     == run[r].status \in {"queued", "running"}
Ended(r)    == run[r].status \in EndStatuses

\* receipt: the status the stored receipt carries.
Records ==
  [status : {"absent", "queued", "running"} \union EndStatuses, owner : Instances \union {"nobody"},
   cancel : BOOLEAN, lease : {"live", "expired"}, receipt : EndStatuses \union {"none"}]

Absent == [status |-> "absent", owner |-> "nobody", cancel |-> FALSE, lease |-> "expired",
           receipt |-> "none"]

\* The asynchronous function behind POST: about to mark the run, in the workflow, about
\* to store its outcome, about to store the outcome of a second try.
Jobs == [pc : {"none", "mark", "work", "complete", "again"}, aborted : BOOLEAN,
         outcome : EndStatuses \union {"none"}]

NoJob == [pc |-> "none", aborted |-> FALSE, outcome |-> "none"]

\* Instance i holds a controller for r.
Holds(i, r) == i \in up /\ work[i][r].pc # "none"

-------------------------------------------------------------------------------
(* The scripts, as functions of the record *)

\* Fault: the run fails without a receipt.
OwnerLostSilently(rec) == [rec EXCEPT !.status = "failed"]

OwnerLost(rec) == [rec EXCEPT !.status = "failed", !.receipt = "failed"]

\* EXPIRE_OWNER_SCRIPT, part of every read.
Expired(rec) ==
  IF rec.status \in {"queued", "running"} /\ rec.lease = "expired" THEN OwnerLost(rec) ELSE rec

\* MARK_RUNNING_SCRIPT: whoever calls it, the owner is not compared.
Marked(rec) ==
  IF rec.status \notin {"queued", "running"} \/ rec.lease = "expired"
  THEN Expired(rec)
  ELSE [rec EXCEPT !.status = "running"]

\* HEARTBEAT_SCRIPT of an instance: it comes in time, or it comes too late.
Renewed(rec, i) == IF rec.owner = i THEN Expired(rec) ELSE rec

\* Fault: the mark of the cancellation is not read.
FinalRegardless(rec, outcome) == outcome

Final(rec, outcome) == IF rec.cancel /\ outcome = "succeeded" THEN "cancelled" ELSE outcome

\* COMPLETE_SCRIPT: an ended run keeps its end, a lost one fails, and a run whose
\* cancellation was accepted does not succeed.
Completed(rec, i, outcome) ==
  IF rec.status \notin {"queued", "running"} \/ rec.owner # i THEN rec
  ELSE IF rec.lease = "expired" THEN OwnerLost(rec)
  ELSE [rec EXCEPT !.status = Final(rec, outcome), !.receipt = Final(rec, outcome)]

Store(r, rec)  == run' = [run EXCEPT ![r] = rec]
Job(i, r, job) == work' = [work EXCEPT ![i][r] = job]
Fault(what, limit) ==
  /\ faults[what] < limit
  /\ faults' = [faults EXCEPT ![what] = @ + 1]

-------------------------------------------------------------------------------
(* Requests *)

\* Fault: every POST starts the execution.
CreateAndRun(i, r) ==
  /\ i \in up
  /\ work[i][r].pc = "none"
  /\ Store(r, IF run[r].status # "absent" THEN Expired(run[r])
              ELSE [Absent EXCEPT !.status = "queued", !.owner = i, !.lease = "live"])
  /\ Job(i, r, [NoJob EXCEPT !.pc = "mark"])
  /\ UNCHANGED <<notices, up, faults>>

\* POST /runs on an instance: createOrGet creates the run and its controller, or reads
\* the run that is there.
CreateOrGet(i, r) ==
  /\ i \in up
  /\ IF run[r].status = "absent"
     THEN /\ Store(r, [Absent EXCEPT !.status = "queued", !.owner = i, !.lease = "live"])
          /\ Job(i, r, [NoJob EXCEPT !.pc = "mark"])
     ELSE Store(r, Expired(run[r])) /\ UNCHANGED work
  /\ UNCHANGED <<notices, up, faults>>

\* The run is created but reading it back fails: POST answers 503 and nobody works on it.
CreateFails(i, r) ==
  /\ i \in up
  /\ run[r].status = "absent"
  /\ Fault("store", MaxStoreFaults)
  /\ Store(r, [Absent EXCEPT !.status = "queued", !.owner = i, !.lease = "live"])
  /\ UNCHANGED <<work, notices, up>>

\* GET /runs/{id}
Get(r) ==
  /\ Live(r)
  /\ Store(r, Expired(run[r]))
  /\ UNCHANGED <<work, notices, up, faults>>

\* POST /runs/{id}/cancel: the mark, and a notification for the owner.
RequestCancel(r) ==
  /\ Live(r)
  /\ Store(r, [run[r] EXCEPT !.cancel = TRUE])
  /\ notices' = notices \union {<<run[r].owner, r>>}
  /\ UNCHANGED <<work, up, faults>>

-------------------------------------------------------------------------------
(* The function that executes a run *)

\* markRunning; a run that ended meanwhile is dropped, a cancelled one starts aborted.
MarkRunning(i, r) ==
  /\ Holds(i, r)
  /\ work[i][r].pc = "mark"
  /\ Store(r, Marked(run[r]))
  /\ Job(i, r, IF Ended(r)' THEN NoJob
               ELSE [work[i][r] EXCEPT !.pc = "work", !.aborted = @ \/ run[r].cancel])
  /\ UNCHANGED <<notices, up, faults>>

\* The workflow returns its receipt or throws.  An aborted one does not succeed, and one
\* that nobody cancelled may still end cancelled, when its own deadline stops it.
WorkflowEnds(i, r) ==
  /\ Holds(i, r)
  /\ work[i][r].pc = "work"
  /\ \E outcome \in EndStatuses :
       /\ work[i][r].aborted => outcome # "succeeded"
       /\ Job(i, r, [work[i][r] EXCEPT !.pc = "complete", !.outcome = outcome])
  /\ UNCHANGED <<run, notices, up, faults>>

Complete(i, r) ==
  /\ Holds(i, r)
  /\ work[i][r].pc \in {"complete", "again"}
  /\ Store(r, Completed(run[r], i, work[i][r].outcome))
  /\ Job(i, r, NoJob)
  /\ UNCHANGED <<notices, up, faults>>

\* A store call of the function throws, whether the script ran or not: the catch clause
\* stores an end of its own, and if that fails too the run is left to its lease.
StoreThrows(i, r) ==
  /\ Holds(i, r)
  /\ work[i][r].pc \in {"mark", "complete", "again"}
  /\ Fault("store", MaxStoreFaults)
  /\ \/ UNCHANGED run
     \/ Store(r, IF work[i][r].pc = "mark" THEN Marked(run[r])
                 ELSE Completed(run[r], i, work[i][r].outcome))
  /\ Job(i, r, IF work[i][r].pc = "again" THEN NoJob
               ELSE [work[i][r] EXCEPT !.pc = "again",
                       !.outcome = IF work[i][r].aborted THEN "cancelled" ELSE "failed"])
  /\ UNCHANGED <<notices, up>>

-------------------------------------------------------------------------------
(* What an instance does for the runs it holds a controller for *)

Heartbeat(i, r) ==
  /\ Holds(i, r)
  /\ Store(r, Renewed(run[r], i))
  /\ UNCHANGED <<work, notices, up, faults>>

Abort(i, r) == Job(i, r, [work[i][r] EXCEPT !.aborted = (work[i][r].pc # "none")])

\* A notification arrives; without a controller there is nothing to abort.
Notified(i, r) ==
  /\ <<i, r>> \in notices
  /\ i \in up
  /\ notices' = notices \ {<<i, r>>}
  /\ Abort(i, r)
  /\ UNCHANGED <<run, up, faults>>

NoticeLost(i, r) ==
  /\ <<i, r>> \in notices
  /\ notices' = notices \ {<<i, r>>}
  /\ UNCHANGED <<run, work, up, faults>>

\* Fault: the poll looks for runs that ended, not for the mark.
MustAbortEnded(r) == Ended(r)'

MustAbort(r) == run[r].cancel \/ Ended(r)'

\* checkCancellationRequests reads the run and aborts it if it is cancelled or ended.
PollCancel(i, r) ==
  /\ Holds(i, r)
  /\ Store(r, Expired(run[r]))
  /\ IF MustAbort(r) THEN Abort(i, r) ELSE UNCHANGED work
  /\ UNCHANGED <<notices, up, faults>>

-------------------------------------------------------------------------------
(* Time and failures *)

RunOut(r) ==
  /\ Live(r)
  /\ run[r].lease = "live"
  /\ Store(r, [run[r] EXCEPT !.lease = "expired"])
  /\ UNCHANGED <<work, notices, up>>

\* The lease is three heartbeats long: it runs out when nobody renews it.
LeaseRunsOut(r) ==
  /\ ~Holds(run[r].owner, r)
  /\ RunOut(r)
  /\ UNCHANGED faults

\* The owner stalls, or its heartbeats are lost, for as long as that.
OwnerStalls(r) ==
  /\ Holds(run[r].owner, r)
  /\ Fault("store", MaxStoreFaults)
  /\ RunOut(r)

\* The process is gone, with its controllers; started again it has none.
Crash(i) ==
  /\ i \in up
  /\ Fault("crashes", MaxCrashes)
  /\ up' = up \ {i}
  /\ work' = [work EXCEPT ![i] = [r \in RunIds |-> NoJob]]
  /\ UNCHANGED <<run, notices>>

Restart(i) ==
  /\ i \notin up
  /\ up' = up \union {i}
  /\ UNCHANGED <<run, work, notices, faults>>

\* onClose aborts every run before the process ends.
Shutdown(i) ==
  /\ i \in up
  /\ Fault("crashes", MaxCrashes)
  /\ work' = [work EXCEPT ![i] = [r \in RunIds |->
                [work[i][r] EXCEPT !.aborted = (work[i][r].pc # "none")]]]
  /\ UNCHANGED <<run, notices, up>>

-------------------------------------------------------------------------------

StoreInit ==
  /\ run = [r \in RunIds |-> Absent]
  /\ work = [i \in Instances |-> [r \in RunIds |-> NoJob]]
  /\ notices = {}
  /\ up = Instances
  /\ faults = [f \in {"crashes", "store"} |-> 0]

StoreNext ==
  \/ \E r \in RunIds : Get(r) \/ RequestCancel(r) \/ LeaseRunsOut(r) \/ OwnerStalls(r)
  \/ \E i \in Instances, r \in RunIds :
       \/ CreateOrGet(i, r) \/ CreateFails(i, r)
       \/ MarkRunning(i, r) \/ WorkflowEnds(i, r) \/ Complete(i, r) \/ StoreThrows(i, r)
       \/ Heartbeat(i, r) \/ PollCancel(i, r)
       \/ Notified(i, r) \/ NoticeLost(i, r)
  \/ \E i \in Instances : Crash(i) \/ Restart(i) \/ Shutdown(i)

StoreSpec == StoreInit /\ [][StoreNext]_storeVars

-------------------------------------------------------------------------------
(* Correctness *)

StoreTypeOK ==
  /\ run \in [RunIds -> Records]
  /\ work \in [Instances -> [RunIds -> Jobs]]
  /\ notices \subseteq Instances \X RunIds
  /\ up \subseteq Instances
  /\ faults \in [{"crashes", "store"} -> Nat]

\* A reader that finds a run ended finds its receipt, and the receipt says the same;
\* nobody finds a receipt before.
ReceiptWhenEnded ==
  \A r \in RunIds : run[r].receipt = IF Ended(r) THEN run[r].status ELSE "none"

\* The record, the jobs and the receipts of a run agree.
StoreConsistent == StoreTypeOK /\ ReceiptWhenEnded

\* However often a run is posted, and to however many instances, one executes it: the
\* one that owns it.
OneExecution ==
  \A r \in RunIds, i \in Instances : work[i][r].pc # "none" => run[r].owner = i /\ i \in up

\* The service behind the client's calls is the one the client counts on: a run exists
\* once, ends once, and does not succeed after its cancellation was accepted.
Client == INSTANCE AiService WITH
  aiRun    <- [r \in RunIds |-> IF Live(r) THEN "running" ELSE run[r].status],
  aiCancel <- {r \in RunIds : run[r].cancel}

ServesClient == Client!AiSpec

-------------------------------------------------------------------------------
(* Progress: the function behind POST goes on, an aborted workflow returns, the poll of *)
(* the cancellations repeats, and time passes for the lease of a run without its owner. *)

Steps(i, r) == MarkRunning(i, r) \/ Complete(i, r) \/ (work[i][r].aborted /\ WorkflowEnds(i, r))

Fairness ==
  /\ \A i \in Instances, r \in RunIds : WF_storeVars(Steps(i, r)) /\ WF_storeVars(PollCancel(i, r))
  /\ \A r \in RunIds : WF_storeVars(LeaseRunsOut(r))

FairStoreSpec == StoreSpec /\ Fairness

\* Nobody goes on working on a run that was cancelled or that ended without him, even if
\* the notification is lost.
WorkStops ==
  \A i \in Instances, r \in RunIds :
    (run[r].cancel \/ Ended(r)) /\ Holds(i, r) ~> ~Holds(i, r)

\* Every workflow has a deadline, and the client keeps polling for the receipt.
DeadlinesAndReaders ==
  /\ \A i \in Instances, r \in RunIds : WF_storeVars(WorkflowEnds(i, r))
  /\ \A r \in RunIds : WF_storeVars(Get(r))

\* A run that was created ends, also when the instance that owned it is gone, provided
\* that workflows have deadlines and somebody still asks for the run.
RunsEnd == DeadlinesAndReaders => \A r \in RunIds : Live(r) ~> Ended(r)

\* A run comes to its end, and so does all work on it.
RunsStop == WorkStops /\ RunsEnd

===============================================================================
