------------------------------- MODULE Leases --------------------------------
(* A scheduled job that must not run twice at once: several processes are     *)
(* triggered, each takes the job's lease, runs the handler with retries and   *)
(* releases the lease.  Nothing renews a lease, so a long run outlives it.    *)
(* The JobRun rows are a log of this and are left out.                        *)
EXTENDS Naturals, FiniteSets

CONSTANTS
  Runner,       \* processes that run the job; each run has an owner id
  NoRunner,     \* the owner of no lease
  JobAttempts   \* maxAttempts of a run

ASSUME LeasesAssumption == NoRunner \notin Runner /\ JobAttempts \in Nat \ {0}

VARIABLES
  lease,        \* the JobLease row
  jobStep,      \* [Runner -> JobStep]
  attempt,      \* [Runner -> 0..JobAttempts], attempt of the run
  tooEarly,     \* runners that read the clock before the lease expired
  outlived,     \* history: runners whose lease expired while they ran
  scheduled     \* the scheduler is up

leaseVars == <<lease, jobStep, attempt, tooEarly, outlived, scheduled>>

JobStep == {"idle", "creating", "taking", "starting", "running", "releasing"}
Holding == {"starting", "running", "releasing"}
NoLease == [owner |-> NoRunner, expired |-> FALSE]

LeasesTypeOK ==
  /\ lease \in [owner : Runner \cup {NoRunner}, expired : BOOLEAN]
  /\ jobStep \in [Runner -> JobStep]
  /\ attempt \in [Runner -> 0..JobAttempts]
  /\ tooEarly \subseteq Runner
  /\ outlived \subseteq {r \in Runner : jobStep[r] \in Holding}
  /\ scheduled \in BOOLEAN

LeasesInit ==
  /\ lease = NoLease
  /\ jobStep = [r \in Runner |-> "idle"]
  /\ attempt = [r \in Runner |-> 0]
  /\ tooEarly = {}
  /\ outlived = {}
  /\ scheduled = FALSE

-----------------------------------------------------------------------------
Schedule ==
  /\ ~scheduled
  /\ scheduled' = TRUE
  /\ UNCHANGED <<lease, jobStep, attempt, tooEarly, outlived>>

(* runOperationalJob reads the clock as it asks for the lease. *)
Trigger(r) ==
  /\ scheduled
  /\ jobStep[r] = "idle"
  /\ jobStep' = [jobStep EXCEPT ![r] = "creating"]
  /\ tooEarly' = tooEarly \ {r}
  /\ UNCHANGED <<lease, attempt, outlived, scheduled>>

Own(r) ==
  /\ lease' = [owner |-> r, expired |-> FALSE]
  /\ jobStep' = [jobStep EXCEPT ![r] = "starting"]

(* acquire: the row is created, or there is one. *)
CreateLease(r) ==
  /\ jobStep[r] = "creating"
  /\ \/ lease = NoLease /\ Own(r)
     \/ /\ lease # NoLease
        /\ jobStep' = [jobStep EXCEPT ![r] = "taking"]
        /\ UNCHANGED lease
  /\ UNCHANGED <<attempt, tooEarly, outlived, scheduled>>

(* Mutant: a lease is only ever created. *)
TakeableNever(r) == FALSE

(* updateMany where expiresAt < now *)
Takeable(r) == lease # NoLease /\ lease.expired /\ r \notin tooEarly

(* A lease that is held, or that was released meanwhile, skips the run. *)
TakeLease(r) ==
  /\ jobStep[r] = "taking"
  /\ \/ Takeable(r) /\ Own(r)
     \/ /\ ~Takeable(r)
        /\ jobStep' = [jobStep EXCEPT ![r] = "idle"]
        /\ UNCHANGED lease
  /\ UNCHANGED <<attempt, tooEarly, outlived, scheduled>>

BeginRun(r) ==
  /\ jobStep[r] = "starting"
  /\ jobStep' = [jobStep EXCEPT ![r] = "running"]
  /\ attempt' = [attempt EXCEPT ![r] = 1]
  /\ UNCHANGED <<lease, tooEarly, outlived, scheduled>>

(* Mutant: one attempt too many. *)
OneMoreAttempt(r) == attempt[r] <= JobAttempts

AttemptLeft(r) == attempt[r] < JobAttempts

(* The handler and the record of its success; either may fail, and the        *)
(* handler is then run again.                                                 *)
AttemptSucceeds(r) ==
  /\ jobStep[r] = "running"
  /\ jobStep' = [jobStep EXCEPT ![r] = "releasing"]
  /\ UNCHANGED <<lease, attempt, tooEarly, outlived, scheduled>>

AttemptFails(r) ==
  /\ jobStep[r] = "running"
  /\ IF AttemptLeft(r)
       THEN attempt' = [attempt EXCEPT ![r] = @ + 1] /\ UNCHANGED jobStep
       ELSE jobStep' = [jobStep EXCEPT ![r] = "releasing"] /\ UNCHANGED attempt
  /\ UNCHANGED <<lease, tooEarly, outlived, scheduled>>

Leave(r) ==
  /\ jobStep' = [jobStep EXCEPT ![r] = "idle"]
  /\ attempt' = [attempt EXCEPT ![r] = 0]
  /\ outlived' = outlived \ {r}

(* Mutant: the lease is deleted by the name of the job. *)
ReleaseByName(r) ==
  /\ jobStep[r] = "releasing"
  /\ lease' = NoLease
  /\ Leave(r)
  /\ UNCHANGED <<tooEarly, scheduled>>

(* deleteMany where name and ownerId: a lease taken over stays *)
Release(r) ==
  /\ jobStep[r] = "releasing"
  /\ lease' = IF lease.owner = r THEN NoLease ELSE lease
  /\ Leave(r)
  /\ UNCHANGED <<tooEarly, scheduled>>

(* The process stops, or the database refuses a step outside the retries (the *)
(* start of the run, its release): a lease that is held stays behind.         *)
RunStops(r) ==
  /\ jobStep[r] # "idle"
  /\ Leave(r)
  /\ UNCHANGED <<lease, tooEarly, scheduled>>

LeaseExpires ==
  /\ lease # NoLease /\ ~lease.expired
  /\ lease' = [lease EXCEPT !.expired = TRUE]
  /\ tooEarly' = {r \in Runner : jobStep[r] \in {"creating", "taking"}}
  /\ outlived' = outlived \cup {r \in Runner : r = lease.owner /\ jobStep[r] \in Holding}
  /\ UNCHANGED <<jobStep, attempt, scheduled>>

LeaseAction(r) ==
  \/ Trigger(r) \/ CreateLease(r) \/ TakeLease(r) \/ BeginRun(r)
  \/ AttemptSucceeds(r) \/ AttemptFails(r) \/ Release(r) \/ RunStops(r)

LeasesNext == Schedule \/ LeaseExpires \/ \E r \in Runner : LeaseAction(r)

(* The scheduler triggers the job again and again, time passes, a release     *)
(* ends, and not every call for the lease and start of a run is cut short.    *)
LeasesFairness ==
  /\ WF_leaseVars(LeaseExpires)
  /\ WF_leaseVars(\E r \in Runner : Trigger(r))
  /\ WF_leaseVars(\E r \in Runner : Release(r))
  /\ SF_leaseVars(\E r \in Runner : CreateLease(r))
  /\ SF_leaseVars(\E r \in Runner : TakeLease(r))
  /\ SF_leaseVars(\E r \in Runner : BeginRun(r))

LeasesSpec == LeasesInit /\ [][LeasesNext]_leaseVars /\ LeasesFairness

-----------------------------------------------------------------------------
(* A run whose lease has not expired since it started owns the lease, so two  *)
(* runs overlap only if one has outlived its lease: a run that ends late does *)
(* not release the lease of the run that took it over (release's ownerId).    *)
RunsUnderLease ==
  \A r \in Runner :
    jobStep[r] \in Holding /\ r \notin outlived => lease = [owner |-> r, expired |-> FALSE]

(* Once the scheduler is up the job is run again and again, whatever lease a  *)
(* stopped process has left behind (acquire's take-over).                     *)
JobIsRun == scheduled ~> \E r \in Runner : jobStep[r] = "running"
==============================================================================
