-------------------------------- MODULE Cron --------------------------------
(* The persistent cron service: several processes share one jobs.json, claim *)
(* due jobs under a file lock and run them outside it.  Source:              *)
(* pico/proactive_engine/schedulers/cron/service.py.                         *)
(*                                                                           *)
(* A block under _locked() that starts by dropping the cache is one step on  *)
(* `disk`; start() takes no lock, so its load and its save are two steps.    *)
EXTENDS Integers, FiniteSets

CONSTANTS
  Daemon,      \* processes that start() their service (gateway, TUI, REPL)
  Cli,         \* processes of the `cron` command: they never start it
  Job,         \* job ids (uuid4 prefixes)
  Request,     \* arguments of add_job: [sched, del, to, tag, msg]
  Initial,     \* [SUBSET Job -> Request]: jobs an earlier process added
  Up,          \* daemons whose service is already running at first
  Routes,      \* [Daemon -> set of recipients]: allowed_channels
  TTL,         \* _CLAIM_TTL_MS
  Window,      \* the 15 minutes of the time-window dedup
  SilentLimit, \* silent_fire_limit
  LockWait,    \* bound: how long run_job may wait for the lock
  MaxTime,     \* bound on the clock
  MaxCalls,    \* bound on API calls, stops and crashes
  None

Service == Daemon \cup Cli

(* "done" stands for "ok" and "error", which nothing here tells apart         *)
Status == {"new", "done", "cancelled", "expired"}

(* CronJob with its CronJobState, what jobs.json holds, and what a start()   *)
(* has between its load and its save                                         *)
JobRecord ==
  [sched : { r.sched : r \in Request }, del : BOOLEAN, to : { r.to : r \in Request },
   tag : { r.tag : r \in Request }, msg : { r.msg : r \in Request }, enabled : BOOLEAN,
   next : Nat \cup {None}, status : Status, claim : (Service \X Nat) \cup {None},
   silent : Nat]
Store == [Job -> JobRecord \cup {None}]
Loaded == [base : Store, at : Nat]

(* A run_due or run_job call that is executing jobs of a set S               *)
BatchRecord(S) ==
  [svc : Service, at : Nat, snap : [S -> JobRecord], left : SUBSET S, cur : S,
   how : {"timer", "cancelled", "manual"}]

(* Schedules.  A "cron" expression is a calendar grid of the given period    *)
(* that ends with a last instant: the end of its year range, or of what      *)
(* croniter and the time zone database can tell.                             *)

NextFire(sched, t) == (t \div sched.ms + 1) * sched.ms

NextRun(sched, t) ==
  CASE sched.kind = "at"    -> IF sched.ms > t THEN sched.ms ELSE None
    [] sched.kind = "every" -> t + sched.ms
    [] sched.kind = "cron"  -> IF NextFire(sched, t) <= sched.until THEN NextFire(sched, t) ELSE None

ASSUME CronAssumption ==
  /\ Daemon \cap Cli = {} /\ Up \subseteq Daemon
  /\ \A r \in Request : /\ r.sched \in [kind : {"at", "every", "cron"}, ms : Nat \ {0}, until : Nat]
                          /\ r.del \in BOOLEAN
  /\ DOMAIN Initial \subseteq Job /\ \A j \in DOMAIN Initial : Initial[j] \in Request
  /\ \A j \in DOMAIN Initial : NextRun(Initial[j].sched, 1) # None
  /\ TTL \in Nat \ {0} /\ Window \in Nat /\ SilentLimit \in Nat \ {0}
  /\ LockWait \in Nat /\ MaxTime \in Nat \ {0} /\ MaxCalls \in Nat
  /\ None \notin Int \cup (Service \X Nat) \cup JobRecord \cup Loaded

VARIABLES
  disk,      \* jobs.json: id -> record, None when there is no such job
  unused,    \* ids not handed out yet
  running,   \* _running
  pending,   \* start() between load and save: what it read and when, else None
  timer,     \* a sleeping tick task exists
  batch,     \* run_due and run_job calls that are executing jobs
  now,       \* the clock
  calls,     \* calls made so far
  orphan,    \* history: claims whose process died
  overtaken, \* history: services whose load is older than the last write
  clobbered, \* history: a start() has overwritten a write made after its load
  rescheduled \* history: jobs whose schedule add_job replaced while a call had them

storeVars == <<disk, overtaken>>
history == <<orphan, clobbered, rescheduled>>
vars == <<storeVars, unused, running, pending, timer, batch, now, calls, history>>

-----------------------------------------------------------------------------
Exists(j) == disk[j] # None
Fresh(claim, t) == claim # None /\ t - claim[2] < TTL
Due(j) == Exists(j) /\ disk[j].enabled /\ disk[j].next # None /\ disk[j].next <= now

\* Mutant: a live peer's claim is not looked at
ClaimableHeld(s, j) == Due(j) /\ disk[j].to \in Routes[s]

\* Mutant: a claim never expires
ClaimableOnce(s, j) == Due(j) /\ disk[j].to \in Routes[s] /\ disk[j].claim = None

(* What run_due claims: due, routed to this process, not held by a live peer *)
Claimable(s, j) == Due(j) /\ disk[j].to \in Routes[s] /\ ~Fresh(disk[j].claim, now)

NewJob(r, t) ==
  [sched |-> r.sched, del |-> r.del, to |-> r.to, tag |-> r.tag, msg |-> r.msg,
   enabled |-> TRUE, next |-> NextRun(r.sched, t), status |-> "new",
   claim |-> None, silent |-> 0]

(* _recompute_next_runs on one record *)
Recompute(r, t) ==
  IF ~r.enabled THEN r
  ELSE IF r.sched.kind = "at"
       THEN IF r.status \in {"done", "expired"}
            THEN [r EXCEPT !.enabled = FALSE, !.next = None]
            ELSE [r EXCEPT !.next = r.sched.ms]
       ELSE IF NextRun(r.sched, t) = None
            THEN [r EXCEPT !.enabled = FALSE, !.next = None, !.status = "expired"]
            ELSE IF r.next = None THEN [r EXCEPT !.next = NextRun(r.sched, t)] ELSE r

(* The in-memory job after _execute_job, when the callback was not cancelled *)
AfterRun(r, t) ==
  IF r.sched.kind = "at"
  THEN [r EXCEPT !.status = "done", !.next = None, !.enabled = r.del /\ @]
  ELSE [r EXCEPT !.status = "done",
                 !.next = IF r.enabled THEN NextRun(r.sched, t) ELSE None]

Claim(b) == <<b.svc, b.at>>
Held(b) == b.left \cup {b.cur}
Executing(j) == \E b \in batch : j \in Held(b)

\* Mutant: the result is written whoever holds the claim now
OwnsAny(d, b, j) == d[j] # None

OwnsClaim(d, b, j) == d[j] # None /\ d[j].claim = Claim(b)

\* Mutant: the next run is left to the record on disk
PersistHalf(d, b, j, r) ==
  IF ~OwnsClaim(d, b, j) THEN d
  ELSE IF r.sched.kind = "at" /\ r.del /\ r.status # "cancelled"
       THEN [d EXCEPT ![j] = None]
       ELSE [d EXCEPT ![j] = [d[j] EXCEPT !.claim = None, !.status = r.status,
                                          !.enabled = r.enabled]]

(* _persist_job_result: only while the claim is still this call's own        *)
PersistResult(d, b, j, r) ==
  IF ~OwnsClaim(d, b, j) THEN d
  ELSE IF r.sched.kind = "at" /\ r.del /\ r.status # "cancelled"
       THEN [d EXCEPT ![j] = None]
       ELSE [d EXCEPT ![j] = [d[j] EXCEPT !.claim = None, !.status = r.status,
                                          !.next = r.next, !.enabled = r.enabled]]

\* Mutant: jobs of a cancelled batch that never ran keep their claims
ReleaseNone(d, b) == d

ReleaseClaims(d, b) ==
  [j \in Job |-> IF j \in DOMAIN b.snap /\ OwnsClaim(d, b, j)
                 THEN [d[j] EXCEPT !.claim = None] ELSE d[j]]

(* _save_store: a start() that has loaded before does not know of the write  *)
Save(d) ==
  /\ disk' = d
  /\ overtaken' = IF d = disk THEN overtaken ELSE { s \in Service : pending[s] # None }

(* _arm_timer: cancels the task in _timer_task, which is the sleeping tick   *)
(* or the one whose run_due is executing, and sleeps again if running.  bs   *)
(* is the set of calls that remain.                                          *)
ArmTimer(s, bs) ==
  /\ batch' = { IF b.svc = s /\ b.how = "timer" THEN [b EXCEPT !.how = "cancelled"] ELSE b
                : b \in bs }
  /\ timer' = [timer EXCEPT ![s] = running[s]]
-----------------------------------------------------------------------------
Init ==
  /\ disk = [j \in Job |-> IF j \in DOMAIN Initial THEN NewJob(Initial[j], 1) ELSE None]
  /\ unused = Job \ DOMAIN Initial
  /\ running = [s \in Service |-> s \in Up]
  /\ pending = [s \in Service |-> None]
  /\ timer = [s \in Service |-> s \in Up]
  /\ batch = {}
  /\ now = 1
  /\ calls = 0
  /\ overtaken = {} /\ orphan = {} /\ clobbered = FALSE /\ rescheduled = {}

(* A process of the command runs one command                                 *)
Idle(s) == s \in Cli => \A b \in batch : b.svc # s

Call == calls < MaxCalls /\ calls' = calls + 1

(* Late starts and crashes would leave claims that the bounded clock never   *)
(* expires.                                                                  *)
InHorizon == now + TTL <= MaxTime

(* start, first half: _running, _load_store                                  *)
StartLoad(s) ==
  /\ s \in Daemon /\ ~running[s] /\ pending[s] = None /\ InHorizon
  /\ running' = [running EXCEPT ![s] = TRUE]
  /\ pending' = [pending EXCEPT ![s] = [base |-> disk, at |-> now]]
  /\ overtaken' = overtaken \ {s}
  /\ UNCHANGED <<disk, unused, timer, batch, now, calls, history>>

(* start, second half: the result of _recompute_next_runs at the time of the *)
(* load, _save_store and _arm_timer                                          *)
StartSave(s) ==
  LET base == pending[s].base IN
  /\ pending[s] # None
  /\ Save([j \in Job |-> IF base[j] = None THEN None ELSE Recompute(base[j], pending[s].at)])
  /\ clobbered' = (clobbered \/ s \in overtaken)
  /\ pending' = [pending EXCEPT ![s] = None]
  /\ ArmTimer(s, batch)
  /\ UNCHANGED <<unused, running, now, calls, orphan, rescheduled>>

Stop(s) ==
  /\ running[s] /\ pending[s] = None /\ Call
  /\ running' = [running EXCEPT ![s] = FALSE]
  /\ timer' = [timer EXCEPT ![s] = FALSE]
  /\ batch' = { IF b.svc = s /\ b.how = "timer" THEN [b EXCEPT !.how = "cancelled"] ELSE b
                : b \in batch }
  /\ UNCHANGED <<storeVars, unused, pending, now, history>>

(* The process dies: its tasks vanish, its claims stay on disk               *)
Crash(s) ==
  /\ InHorizon /\ Call
  /\ running[s] \/ \E b \in batch : b.svc = s
  /\ running' = [running EXCEPT ![s] = FALSE]
  /\ pending' = [pending EXCEPT ![s] = None]
  /\ timer' = [timer EXCEPT ![s] = FALSE]
  /\ batch' = { b \in batch : b.svc # s }
  /\ orphan' = orphan \cup { Claim(b) : b \in { b \in batch : b.svc = s } }
  /\ UNCHANGED <<storeVars, unused, now, clobbered, rescheduled>>

(* The sleep ends and run_due claims every job it may.  The cap on the sleep *)
(* makes it poll, so it may wake at any time; a run_due that finds nothing   *)
(* to claim only re-arms the timer and is a stuttering step.                 *)
RunDue(s) ==
  LET due == { j \in Job : Claimable(s, j) } IN
  /\ timer[s] /\ due # {}
  /\ Save([j \in Job |-> IF j \in due THEN [disk[j] EXCEPT !.claim = <<s, now>>]
                                       ELSE disk[j]])
  /\ timer' = [timer EXCEPT ![s] = FALSE]
  /\ \E c \in due :
       batch' = batch \cup {[svc |-> s, at |-> now, snap |-> [j \in due |-> disk'[j]],
                             left |-> due \ {c}, cur |-> c, how |-> "timer"]}
  /\ UNCHANGED <<unused, running, pending, now, calls, history>>

(* run_job reads the clock before it waits for the lock                      *)
RunJob(s, j, force) ==
  /\ s \in Cli /\ Idle(s)
  /\ Exists(j) /\ (force \/ disk[j].enabled) /\ disk[j].status # "expired" /\ Call
  /\ \E at \in { t \in 1..now : now - t <= LockWait } :
       /\ ~Fresh(disk[j].claim, at)
       /\ Save([disk EXCEPT ![j].claim = <<s, at>>])
       /\ batch' = batch \cup {[svc |-> s, at |-> at, snap |-> [k \in {j} |-> disk'[j]],
                                left |-> {}, cur |-> j, how |-> "manual"]}
  /\ UNCHANGED <<unused, running, pending, timer, now, history>>

(* The callback ends and other jobs of the batch remain                      *)
FinishJob(b) ==
  /\ b.how # "cancelled" /\ b.left # {}
  /\ Save(PersistResult(disk, b, b.cur, AfterRun(b.snap[b.cur], now)))
  /\ \E c \in b.left :
       batch' = (batch \ {b}) \cup {[b EXCEPT !.left = @ \ {c}, !.cur = c]}
  /\ UNCHANGED <<unused, running, pending, timer, now, calls, history>>

(* The last callback ends: persist, release what is left, re-arm             *)
FinishBatch(b) ==
  /\ b.how # "cancelled" /\ b.left = {}
  /\ Save(ReleaseClaims(PersistResult(disk, b, b.cur, AfterRun(b.snap[b.cur], now)), b))
  /\ ArmTimer(b.svc, batch \ {b})
  /\ UNCHANGED <<unused, running, pending, now, calls, history>>

(* CancelledError leaves the callback, the rest of the batch is not executed *)
CancelBatch(b) ==
  /\ b.how # "timer"
  /\ Save(ReleaseClaims(PersistResult(disk, b, b.cur,
                          [b.snap[b.cur] EXCEPT !.status = "cancelled"]), b))
  /\ ArmTimer(b.svc, batch \ {b})
  /\ UNCHANGED <<unused, running, pending, now, calls, history>>

(* The API.  add_job and remove_job are called by the agent's cron tool and  *)
(* by the `cron` command, enable_job by the command only.                    *)
SameSchedule(a, b) == a.kind = b.kind /\ a.ms = b.ms /\ a.until = b.until

Distance(a, b) == IF a < b THEN b - a ELSE a - b

AddJob(s, r) ==
  LET next == NextRun(r.sched, now)
      peers == { j \in Job : Exists(j) /\ disk[j].enabled /\ disk[j].to = r.to }
      tagged == { j \in peers : r.tag # None /\ disk[j].tag = r.tag }
      same == { j \in peers : disk[j].msg = r.msg /\ disk[j].next # None /\ disk[j].next > now }
      near == { j \in peers : disk[j].next # None /\ Distance(disk[j].next, next) <= Window }
      twin == { j \in peers : SameSchedule(disk[j].sched, r.sched) }
  IN
  /\ next # None /\ Idle(s) /\ Call
  /\ \/ /\ \E j \in tagged :
             /\ Save([disk EXCEPT ![j].msg = r.msg, ![j].sched = r.sched, ![j].next = next])
             /\ rescheduled' = IF Executing(j) THEN rescheduled \cup {j} ELSE rescheduled
        /\ UNCHANGED unused
     \/ /\ tagged = {} /\ same \cup near # {}
        /\ UNCHANGED <<storeVars, unused, rescheduled>>
     \/ /\ tagged = {} /\ same \cup near = {}
        /\ \E j \in twin :
             Save([disk EXCEPT ![j].msg = r.msg, ![j].next = IF @ = None THEN next ELSE @])
        /\ UNCHANGED <<unused, rescheduled>>
     \/ /\ tagged \cup same \cup near \cup twin = {}
        /\ \E j \in unused : /\ Save([disk EXCEPT ![j] = NewJob(r, now)])
                             /\ unused' = unused \ {j}
        /\ UNCHANGED rescheduled
  /\ ArmTimer(s, batch)
  /\ UNCHANGED <<running, pending, now, orphan, clobbered>>

RemoveJob(s, j) ==
  /\ Exists(j) /\ Idle(s) /\ Call
  /\ Save([disk EXCEPT ![j] = None])
  /\ ArmTimer(s, batch)
  /\ UNCHANGED <<unused, running, pending, now, history>>

EnableJob(s, j) ==
  LET next == NextRun(disk[j].sched, now) IN
  /\ s \in Cli /\ Idle(s) /\ Exists(j) /\ Call
  /\ Save([disk EXCEPT ![j].enabled = next # None, ![j].next = next,
                       ![j].status = IF next = None THEN "expired" ELSE @])
  /\ ArmTimer(s, batch)
  /\ UNCHANGED <<unused, running, pending, now, history>>

DisableJob(s, j) ==
  /\ s \in Cli /\ Idle(s) /\ Exists(j) /\ Call
  /\ Save([disk EXCEPT ![j].enabled = FALSE, ![j].next = None])
  /\ ArmTimer(s, batch)
  /\ UNCHANGED <<unused, running, pending, now, history>>

RecordSilentFire(j) ==
  LET off == disk[j].silent + 1 >= SilentLimit IN
  /\ Exists(j) /\ Call
  /\ Save([disk EXCEPT ![j].silent = @ + 1, ![j].enabled = @ /\ ~off,
                       ![j].next = IF off THEN None ELSE @])
  /\ UNCHANGED <<unused, running, pending, timer, batch, now, history>>

NotifyUserActive(to) ==
  /\ \E j \in Job : Exists(j) /\ disk[j].enabled /\ disk[j].to = to /\ disk[j].silent > 0
  /\ Call
  /\ Save([j \in Job |-> IF Exists(j) /\ disk[j].enabled /\ disk[j].to = to
                         THEN [disk[j] EXCEPT !.silent = 0] ELSE disk[j]])
  /\ UNCHANGED <<unused, running, pending, timer, batch, now, history>>

Tick ==
  /\ now < MaxTime
  /\ now' = now + 1
  /\ UNCHANGED <<storeVars, unused, running, pending, timer, batch, calls, history>>

Process(s) ==
  \/ StartLoad(s) \/ StartSave(s) \/ Stop(s) \/ Crash(s) \/ RunDue(s)
  \/ \E j \in Job, force \in BOOLEAN : RunJob(s, j, force)
  \/ \E j \in Job : RemoveJob(s, j) \/ EnableJob(s, j) \/ DisableJob(s, j)
  \/ \E r \in Request : AddJob(s, r)

Callback(b) == FinishJob(b) \/ FinishBatch(b) \/ CancelBatch(b)

Next ==
  \/ \E s \in Service : Process(s)
  \/ \E b \in batch : Callback(b)
  \/ \E j \in Job : RecordSilentFire(j)
  \/ \E to \in { r.to : r \in Request } : NotifyUserActive(to)
  \/ Tick

Spec == Init /\ [][Next]_vars

(* The event loop runs ready tasks, the clock advances and callbacks end.    *)
(* Nothing obliges a user to call the API, or a process to start or crash.   *)
FairSpec ==
  /\ Spec
  /\ WF_vars(Tick)
  /\ \A s \in Service : /\ WF_vars(StartSave(s))
                        /\ WF_vars(RunDue(s))
                        /\ WF_vars(\E b \in batch : b.svc = s /\ Callback(b))
-----------------------------------------------------------------------------
(* Every record of the store, in memory or on disk, is well formed: a claim  *)
(* is a process and a time together or nothing (CronJobState).               *)
TypeOK ==
  /\ disk \in Store
  /\ unused \subseteq Job
  /\ running \in [Service -> BOOLEAN] /\ timer \in [Service -> BOOLEAN]
  /\ pending \in [Service -> Loaded \cup {None}]
  /\ \A b \in batch : b.cur \notin b.left /\ \E S \in SUBSET Job : b \in BatchRecord(S)
  /\ now \in 1..MaxTime /\ calls \in 0..MaxCalls
  /\ orphan \subseteq Service \X Nat /\ clobbered \in BOOLEAN
  /\ overtaken \subseteq Service /\ rescheduled \subseteq Job

(* No job is executed, or queued for execution, by two calls whose claims    *)
(* are both within their time to live: a process runs a job beside another   *)
(* only when the other has outlived its claim.  A start() that wrote back    *)
(* what it had read before another process's claim is excepted.              *)
OneLiveOwner ==
  ~clobbered => \A b, c \in batch :
    b # c /\ Held(b) \cap Held(c) # {} => ~Fresh(Claim(b), now) \/ ~Fresh(Claim(c), now)

(* Every exit of run_due and run_job gives its claims back: a claim on disk  *)
(* belongs to a call that will still execute the job, or to a dead process.  *)
NoLeakedClaim ==
  ~clobbered => \A j \in Job : Exists(j) /\ disk[j].claim # None =>
    \/ disk[j].claim \in orphan
    \/ \E b \in batch : Claim(b) = disk[j].claim /\ j \in Held(b)

(* Whatever results, edits and restarts were merged into its record, a job   *)
(* is enabled without a next run, and so never fires again, only when its    *)
(* calendar has ended: _execute_job stores the None of _compute_next_run and *)
(* leaves the job enabled until the next start() expires it.  Excepted are a *)
(* start() that overwrote a write, and a job that add_job gave another       *)
(* schedule while a call had it: the result brings the next run of the old.  *)
OnlyEndedStall ==
  ~clobbered => \A j \in Job \ rescheduled :
    Exists(j) /\ disk[j].enabled /\ disk[j].next = None =>
      disk[j].sched.kind = "cron" /\ NextRun(disk[j].sched, now) = None

(* A claim changes hands or disappears only by its own call's result, by a   *)
(* takeover after the time to live, or with the job.  So the late result of  *)
(* an owner that lost its claim changes nothing (_persist_job_result).       *)
ForeignClaimsKept ==
  [][\A j \in Job :
       Exists(j) /\ disk[j].claim # None /\ disk'[j] # None /\ disk'[j].claim # disk[j].claim
       => \/ clobbered'
          \/ \E b \in batch \ batch' : Claim(b) = disk[j].claim
          \/ ~Fresh(disk[j].claim, now)]_vars

Serves(s, j) == running[s] /\ Exists(j) /\ disk[j].to \in Routes[s]

(* A due job does not stay due and unattended forever while a process that   *)
(* may claim it runs, even when the process that had claimed it has died.    *)
DueJobIsTaken ==
  \A j \in Job : []<>~(Due(j) /\ ~Executing(j) /\ \E s \in Daemon : Serves(s, j))

(* enable_job(enabled=False) "clears the next run" of a job: the result of a *)
(* run that was under way does not switch it on again.                       *)
ResultKeepsDisabled ==
  [][\A b \in batch : Callback(b) =>
       \A j \in Job : disk[j] # None /\ disk'[j] # None /\ disk'[j].enabled => disk[j].enabled]_vars
=============================================================================
