----------------------------- MODULE CronProofs -----------------------------
(***************************************************************************)
(* Cron for every set of processes, jobs and requests, every time to live  *)
(* and every length of the clock: the store keeps its shape, claims are    *)
(* given back, a live claim has one owner, and a job is enabled without a  *)
(* next run only when its calendar has ended.                              *)
(***************************************************************************)
EXTENDS Cron, TLAPS

Schedules == { r.sched : r \in Request }

-----------------------------------------------------------------------------
(* The operators on schedules and records. *)

\* A schedule has a known kind and a positive time.
LEMMA ScheduleShape ==
  \A s \in Schedules : s.kind \in {"at", "every", "cron"} /\ s.ms \in Nat \ {0} /\ s.until \in Nat
BY CronAssumption DEF Schedules

\* The grid of a cron expression goes beyond every instant.
LEMMA GridGoesOn ==
  ASSUME NEW t \in Nat, NEW m \in Nat \ {0}
  PROVE  (t \div m + 1) * m \in Nat /\ (t \div m + 1) * m > t
<1>1. t \div m \in Nat
  OBVIOUS
<1>2. t < (t \div m + 1) * m
  BY SMTT(20)
<1>3. (t \div m + 1) * m \in Int
  BY <1>1
<1> QED
  BY <1>2, <1>3

\* A product grows with its first factor.
LEMMA ProductGrows ==
  ASSUME NEW a \in Nat, NEW b \in Nat, NEW m \in Nat, a <= b
  PROVE  a * m <= b * m
<1>1. PICK c \in Nat : b = a + c
  <2>1. b - a \in Nat /\ b = a + (b - a)
    OBVIOUS
  <2> QED
    BY <2>1
<1>2. b * m = a * m + c * m
  BY <1>1
<1>3. c * m \in Nat /\ a * m \in Nat
  OBVIOUS
<1> QED
  BY <1>2, <1>3

\* The next instant of the grid does not come earlier as time goes on.
LEMMA GridGrows ==
  ASSUME NEW t \in Nat, NEW m \in Nat \ {0}
  PROVE  (t \div m + 1) * m <= ((t + 1) \div m + 1) * m
<1>1. PICK q \in Nat : q = t \div m
  <2>1. t \div m \in Nat
    OBVIOUS
  <2> QED
    BY <2>1
<1>2. PICK u \in Nat : u = (t + 1) \div m
  <2>1. (t + 1) \div m \in Nat
    OBVIOUS
  <2> QED
    BY <2>1
<1>3. q * m <= t
  BY <1>1, SMTT(20)
<1>4. t + 1 < (u + 1) * m
  <2>1. t + 1 \in Nat
    OBVIOUS
  <2> QED
    BY <1>2, <2>1, GridGoesOn
<1>5. q <= u
  <2>1. ASSUME u + 1 <= q  PROVE FALSE
    <3>1. (u + 1) * m <= q * m
      BY <2>1, ProductGrows
    <3>2. (u + 1) * m \in Nat /\ q * m \in Nat
      OBVIOUS
    <3> QED
      BY <1>3, <1>4, <3>1, <3>2
  <2> QED
    BY <2>1
<1>6. (q + 1) * m <= (u + 1) * m
  BY <1>5, ProductGrows
<1> QED
  BY <1>1, <1>2, <1>6

LEMMA FireFacts ==
  ASSUME NEW s \in Schedules, NEW t \in Nat
  PROVE  NextFire(s, t) \in Nat /\ NextFire(s, t) > t /\ NextFire(s, t) <= NextFire(s, t + 1)
<1>1. s.ms \in Nat \ {0}
  BY ScheduleShape
<1> QED
  BY <1>1, GridGoesOn, GridGrows DEF NextFire

\* The schedule is a calendar, and it has ended.
Ended(s, t) == s.kind = "cron" /\ NextRun(s, t) = None

\* A next run lies ahead; a recurring schedule without one is a calendar that
\* has ended, and stays so.
LEMMA NextRunFacts ==
  ASSUME NEW s \in Schedules, NEW t \in Nat
  PROVE  /\ NextRun(s, t) \in Nat \cup {None}
         /\ NextRun(s, t) # None => NextRun(s, t) > t /\ (s.kind = "at" => s.ms > t)
         /\ s.kind # "at" /\ NextRun(s, t) = None => Ended(s, t)
         /\ Ended(s, t) => Ended(s, t + 1)
<1>1. /\ s.kind \in {"at", "every", "cron"} /\ s.ms \in Nat \ {0} /\ s.until \in Nat
      /\ None \notin Nat
  BY ScheduleShape, CronAssumption
<1>2. CASE s.kind = "at"
  BY <1>1, <1>2 DEF NextRun, Ended
<1>3. CASE s.kind = "every"
  BY <1>1, <1>3 DEF NextRun, Ended
<1>4. CASE s.kind = "cron"
  <2>1. PICK f \in Nat : f = NextFire(s, t)
    BY FireFacts
  <2>2. PICK g \in Nat : g = NextFire(s, t + 1)
    <3>1. t + 1 \in Nat
      OBVIOUS
    <3> QED
      BY <3>1, FireFacts
  <2>3. f > t /\ f <= g
    BY <2>1, <2>2, FireFacts
  <2>4. NextRun(s, t) = IF f <= s.until THEN f ELSE None
    BY <1>4, <2>1 DEF NextRun
  <2>5. NextRun(s, t + 1) = IF g <= s.until THEN g ELSE None
    BY <1>4, <2>2 DEF NextRun
  <2> QED
    BY <1>1, <1>4, <2>3, <2>4, <2>5 DEF Ended
<1> QED
  BY <1>1, <1>2, <1>3, <1>4

\* A job without a next run that is enabled has a calendar that has ended.
Lasting(r, t) == r.enabled /\ r.next = None => Ended(r.sched, t)

\* A request makes a record.
LEMMA NewJobFacts ==
  ASSUME NEW r \in Request, NEW t \in Nat
  PROVE  /\ NewJob(r, t) \in JobRecord /\ NewJob(r, t).claim = None
         /\ NewJob(r, t).next = NextRun(r.sched, t)
<1>1. r.sched \in Schedules /\ r.del \in BOOLEAN
  BY CronAssumption DEF Schedules
<1>2. NextRun(r.sched, t) \in Nat \cup {None}
  BY <1>1, NextRunFacts
<1>3. NewJob(r, t) \in JobRecord
  BY <1>1, <1>2 DEF NewJob, JobRecord, Status, Schedules
<1> QED
  BY <1>3 DEF NewJob

\* _recompute_next_runs keeps claim and schedule, enables nothing and leaves an
\* enabled job with a next run: the one it had, or one that lies ahead.
LEMMA RecomputeFacts ==
  ASSUME NEW r \in JobRecord, NEW t \in Nat
  PROVE  LET n == Recompute(r, t)
         IN /\ n \in JobRecord /\ n.claim = r.claim /\ n.sched = r.sched
            /\ n.enabled => /\ r.enabled /\ n.next # None
                            /\ r.sched.kind = "at" => n.next = r.sched.ms
                            /\ r.sched.kind # "at" => n.next = r.next \/ n.next > t
<1>1. /\ r.sched \in Schedules /\ r.sched.ms \in Nat \ {0} /\ None \notin Nat
  BY CronAssumption, ScheduleShape DEF JobRecord, Schedules
<1>2. PICK next : next = NextRun(r.sched, t)
  OBVIOUS
<1>3. next \in Nat \cup {None} /\ (next # None => next > t)
  BY <1>1, <1>2, NextRunFacts
<1>4. CASE ~r.enabled
  BY <1>4 DEF Recompute
<1>5. CASE r.enabled /\ r.sched.kind = "at" /\ r.status \in {"done", "expired"}
  <2>1. Recompute(r, t) = [r EXCEPT !.enabled = FALSE, !.next = None]
    BY <1>5 DEF Recompute
  <2> QED
    BY <2>1 DEF JobRecord
<1>6. CASE r.enabled /\ r.sched.kind = "at" /\ r.status \notin {"done", "expired"}
  <2>1. Recompute(r, t) = [r EXCEPT !.next = r.sched.ms]
    BY <1>6 DEF Recompute
  <2> QED
    BY <1>1, <1>6, <2>1 DEF JobRecord
<1>7. CASE r.enabled /\ r.sched.kind # "at" /\ next = None
  <2>1. Recompute(r, t) = [r EXCEPT !.enabled = FALSE, !.next = None, !.status = "expired"]
    BY <1>2, <1>7 DEF Recompute
  <2> QED
    BY <2>1 DEF JobRecord, Status
<1>8. CASE r.enabled /\ r.sched.kind # "at" /\ next # None /\ r.next = None
  <2>1. Recompute(r, t) = [r EXCEPT !.next = next]
    BY <1>2, <1>8 DEF Recompute
  <2> QED
    BY <1>3, <1>8, <2>1 DEF JobRecord
<1>9. CASE r.enabled /\ r.sched.kind # "at" /\ next # None /\ r.next # None
  <2>1. Recompute(r, t) = r
    BY <1>2, <1>9 DEF Recompute
  <2> QED
    BY <1>9, <2>1
<1> QED
  BY <1>4, <1>5, <1>6, <1>7, <1>8, <1>9

\* The job object after its callback: a one-shot one has no next run, another
\* one that of its schedule if it is enabled.
LEMMA AfterRunFacts ==
  ASSUME NEW r \in JobRecord, NEW t \in Nat
  PROVE  LET n == AfterRun(r, t)
         IN /\ n \in JobRecord /\ n.sched = r.sched /\ n.del = r.del /\ n.status = "done"
            /\ n.enabled /\ r.sched.kind = "at" => r.del
            /\ n.enabled /\ r.sched.kind # "at" => /\ n.next # None => n.next > t
                                                   /\ n.next = None => Ended(r.sched, t)
<1>1. r.sched \in Schedules /\ None \notin Nat /\ r.del \in BOOLEAN /\ r.enabled \in BOOLEAN
  BY CronAssumption DEF JobRecord, Schedules
<1>2. PICK run : run = NextRun(r.sched, t)
  OBVIOUS
<1>3. /\ run \in Nat \cup {None} /\ (run # None => run > t)
      /\ r.sched.kind # "at" /\ run = None => Ended(r.sched, t)
  BY <1>1, <1>2, NextRunFacts
<1>4. CASE r.sched.kind = "at"
  <2>1. AfterRun(r, t) = [r EXCEPT !.status = "done", !.next = None, !.enabled = r.del /\ r.enabled]
    BY <1>4 DEF AfterRun
  <2>2. (r.del /\ r.enabled) \in BOOLEAN
    OBVIOUS
  <2> QED
    BY <1>4, <2>1, <2>2 DEF JobRecord, Status
<1>5. CASE r.sched.kind # "at"
  <2>1. PICK next : next = IF r.enabled THEN run ELSE None
    OBVIOUS
  <2>2. AfterRun(r, t) = [r EXCEPT !.status = "done", !.next = next]
    BY <1>2, <1>5, <2>1 DEF AfterRun
  <2>3. next \in Nat \cup {None} /\ (r.enabled => next = run)
    BY <1>3, <2>1
  <2>4. PICK n : n = AfterRun(r, t)
    OBVIOUS
  <2>5. /\ n \in JobRecord /\ n.sched = r.sched /\ n.del = r.del /\ n.status = "done"
        /\ n.next = next /\ n.enabled = r.enabled
    BY <2>2, <2>3, <2>4 DEF JobRecord, Status
  <2> QED
    BY <1>3, <1>5, <2>3, <2>4, <2>5
<1> QED
  BY <1>4, <1>5

-----------------------------------------------------------------------------
(* The calls that execute jobs. *)

IsCall(b) == b.cur \notin b.left /\ \E S \in SUBSET Job : b \in BatchRecord(S)

LEMMA CallShape ==
  ASSUME NEW b, IsCall(b)
  PROVE  /\ b.svc \in Service /\ b.at \in Nat /\ b.how \in {"timer", "cancelled", "manual"}
         /\ Claim(b) \in Service \X Nat /\ Claim(b) # None /\ Claim(b)[1] = b.svc /\ Claim(b)[2] = b.at
         /\ Held(b) \subseteq DOMAIN b.snap /\ DOMAIN b.snap \subseteq Job /\ b.cur \in Held(b)
         /\ b.cur \in Job /\ b.cur \notin b.left
         /\ \A j \in DOMAIN b.snap : b.snap[j] \in JobRecord
<1>1. PICK S \in SUBSET Job : b \in BatchRecord(S)
  BY DEF IsCall
<1>2. /\ b.svc \in Service /\ b.at \in Nat /\ b.how \in {"timer", "cancelled", "manual"}
      /\ b.snap \in [S -> JobRecord] /\ b.left \subseteq S /\ b.cur \in S
  BY <1>1 DEF BatchRecord
<1>3. Claim(b) \in Service \X Nat /\ Claim(b)[1] = b.svc /\ Claim(b)[2] = b.at
  BY <1>2 DEF Claim
<1>4. Claim(b) # None
  BY <1>3, CronAssumption
<1>5. b.cur \notin b.left
  BY DEF IsCall
<1> QED
  BY <1>2, <1>3, <1>4, <1>5 DEF Held

\* c is what has become of the call d: it may have been cancelled and has no
\* more jobs left to execute.
Continues(c, d) ==
  c.svc = d.svc /\ c.at = d.at /\ c.snap = d.snap /\ Held(c) \subseteq Held(d)

\* The same, with the same jobs left.
Same(c, d) == Continues(c, d) /\ Held(c) = Held(d)

\* The calls of the next state are those of bs.
Follows(bs) ==
  /\ \A c \in batch' : IsCall(c) /\ \E d \in bs : Same(c, d)
  /\ \A c, e \in batch' : c # e => \E d, f \in bs : d # f /\ Same(c, d) /\ Same(e, f)
  /\ \A d \in bs : \E c \in batch' : Same(c, d)

LEMMA FollowsUnchanged ==
  ASSUME NEW bs, \A b \in bs : IsCall(b), batch' = bs
  PROVE  Follows(bs)
BY DEF Follows, Same, Continues

\* _arm_timer cancels an executing tick.
LEMMA FollowsCancelled ==
  ASSUME NEW s, NEW bs, \A b \in bs : IsCall(b),
         batch' = { IF b.svc = s /\ b.how = "timer" THEN [b EXCEPT !.how = "cancelled"] ELSE b
                    : b \in bs }
  PROVE  Follows(bs)
<1> DEFINE Img(b) == IF b.svc = s /\ b.how = "timer" THEN [b EXCEPT !.how = "cancelled"] ELSE b
<1>1. ASSUME NEW b \in bs  PROVE IsCall(Img(b)) /\ Same(Img(b), b)
  <2>1. IsCall(b)
    BY <1>1
  <2>2. CASE Img(b) = b
    BY <2>1, <2>2 DEF Same, Continues
  <2>3. CASE Img(b) = [b EXCEPT !.how = "cancelled"]
    <3>1. PICK S \in SUBSET Job : b \in BatchRecord(S)
      BY <2>1 DEF IsCall
    <3>2. PICK c : c = [b EXCEPT !.how = "cancelled"]
      OBVIOUS
    <3>3. /\ c \in BatchRecord(S) /\ c.svc = b.svc /\ c.at = b.at /\ c.snap = b.snap
          /\ c.left = b.left /\ c.cur = b.cur
      BY <3>1, <3>2 DEF BatchRecord
    <3>4. IsCall(c) /\ Same(c, b)
      BY <2>1, <3>3 DEF IsCall, Same, Continues, Held
    <3> QED
      BY <2>3, <3>2, <3>4
  <2> QED
    BY <2>2, <2>3
<1>2. batch' = { Img(b) : b \in bs }
  OBVIOUS
<1> HIDE DEF Img
<1>3. \A c \in batch' : \E d \in bs : c = Img(d)
  BY <1>2
<1>4. \A d \in bs : Img(d) \in batch'
  BY <1>2
<1> QED
  BY <1>1, <1>3, <1>4 DEF Follows

-----------------------------------------------------------------------------
(* What the end of a callback does to the store. *)

\* What _persist_job_result writes of the job object: the outcome of a run, or
\* the object as it was claimed.
Ran(b, r) ==
  r.enabled => /\ b.snap[b.cur].sched.kind # "at" /\ (r.next # None => r.next > now)
               /\ r.next = None => Ended(b.snap[b.cur].sched, now)

AsClaimed(b, r) == r.enabled = b.snap[b.cur].enabled /\ r.next = b.snap[b.cur].next

\* Persisting changes one record, and that only under the call's own claim.
LEMMA PersistFacts ==
  ASSUME NEW d \in Store, NEW b, IsCall(b), now \in Nat, NEW r \in JobRecord,
         \/ r = AfterRun(b.snap[b.cur], now)
         \/ r = [b.snap[b.cur] EXCEPT !.status = "cancelled"]
  PROVE  LET p == PersistResult(d, b, b.cur, r)
             j == b.cur
         IN /\ p \in Store /\ \A k \in Job : k # j => p[k] = d[k]
            /\ ~OwnsClaim(d, b, j) => p = d
            /\ OwnsClaim(d, b, j) /\ p[j] # None =>
                 /\ p[j].claim = None /\ p[j].sched = d[j].sched
                 /\ Ran(b, p[j]) \/ AsClaimed(b, p[j])
                 /\ r = AfterRun(b.snap[b.cur], now) => Ran(b, p[j])
<1> DEFINE j == b.cur
           own == b.snap[j]
           p == PersistResult(d, b, j, r)
<1>1. j \in Job /\ own \in JobRecord
  BY CallShape
<1>2. /\ r.sched = own.sched /\ r.del = own.del
      /\ \/ /\ r.status = "done"
            /\ r.enabled /\ own.sched.kind = "at" => own.del
            /\ r.enabled /\ own.sched.kind # "at" => /\ r.next # None => r.next > now
                                                     /\ r.next = None => Ended(own.sched, now)
         \/ /\ r.status = "cancelled" /\ r # AfterRun(own, now)
            /\ r.enabled = own.enabled /\ r.next = own.next
  <2>1. CASE r = AfterRun(own, now)
    BY <1>1, <2>1, AfterRunFacts
  <2>2. CASE r = [own EXCEPT !.status = "cancelled"]
    <3>1. r.status = "cancelled" /\ AfterRun(own, now).status = "done"
      BY <1>1, <2>2, AfterRunFacts DEF JobRecord
    <3> QED
      BY <1>1, <2>2, <3>1 DEF JobRecord
  <2> QED
    BY <2>1, <2>2
<1>3. CASE ~OwnsClaim(d, b, j)
  BY <1>3 DEF PersistResult
<1>4. CASE OwnsClaim(d, b, j) /\ r.sched.kind = "at" /\ r.del /\ r.status # "cancelled"
  <2>1. p = [d EXCEPT ![j] = None]
    BY <1>4 DEF PersistResult
  <2> QED
    BY <1>1, <1>4, <2>1 DEF Store
<1>5. CASE OwnsClaim(d, b, j) /\ ~(r.sched.kind = "at" /\ r.del /\ r.status # "cancelled")
  <2>0. PICK n : n = [d[j] EXCEPT !.claim = None, !.status = r.status,
                                  !.next = r.next, !.enabled = r.enabled]
    OBVIOUS
  <2>1. p = [d EXCEPT ![j] = n]
    BY <1>5, <2>0 DEF PersistResult
  <2>2. d[j] \in JobRecord
    BY <1>1, <1>5 DEF OwnsClaim, Store
  <2>3. /\ n \in JobRecord /\ n.claim = None /\ n.sched = d[j].sched
        /\ n.enabled = r.enabled /\ n.next = r.next
    BY <2>0, <2>2 DEF JobRecord
  <2>4. p \in Store /\ p[j] = n /\ \A k \in Job : k # j => p[k] = d[k]
    BY <1>1, <2>1, <2>3 DEF Store
  <2>5. (Ran(b, n) \/ AsClaimed(b, n)) /\ (r = AfterRun(own, now) => Ran(b, n))
    BY <1>2, <1>5, <2>3 DEF Ran, AsClaimed
  <2> QED
    BY <1>5, <2>3, <2>4, <2>5
<1> QED
  BY <1>3, <1>4, <1>5

\* Releasing clears the claims that are still the call's own.
LEMMA ReleaseFacts ==
  ASSUME NEW d \in Store, NEW b, IsCall(b)
  PROVE  LET p == ReleaseClaims(d, b)
         IN /\ p \in Store
            /\ \A k \in Job :
                 /\ ~(k \in DOMAIN b.snap /\ OwnsClaim(d, b, k)) => p[k] = d[k]
                 /\ k \in DOMAIN b.snap /\ OwnsClaim(d, b, k) =>
                      /\ p[k] # None /\ p[k].claim = None /\ p[k].sched = d[k].sched
                      /\ p[k].enabled = d[k].enabled /\ p[k].next = d[k].next
<1> DEFINE p == ReleaseClaims(d, b)
<1>1. ASSUME NEW k \in Job
      PROVE  /\ p[k] \in JobRecord \cup {None}
             /\ ~(k \in DOMAIN b.snap /\ OwnsClaim(d, b, k)) => p[k] = d[k]
             /\ k \in DOMAIN b.snap /\ OwnsClaim(d, b, k) =>
                  /\ p[k] # None /\ p[k].claim = None /\ p[k].sched = d[k].sched
                  /\ p[k].enabled = d[k].enabled /\ p[k].next = d[k].next
  <2>1. CASE ~(k \in DOMAIN b.snap /\ OwnsClaim(d, b, k))
    BY <2>1 DEF ReleaseClaims, Store
  <2>2. CASE k \in DOMAIN b.snap /\ OwnsClaim(d, b, k)
    <3>1. p[k] = [d[k] EXCEPT !.claim = None] /\ d[k] \in JobRecord
      BY <2>2 DEF ReleaseClaims, OwnsClaim, Store
    <3>2. /\ p[k] \in JobRecord /\ p[k].claim = None /\ p[k].sched = d[k].sched
          /\ p[k].enabled = d[k].enabled /\ p[k].next = d[k].next
      BY <3>1 DEF JobRecord
    <3>3. p[k] # None
      BY <3>2, CronAssumption
    <3> QED
      BY <2>2, <3>2, <3>3
  <2> QED
    BY <2>1, <2>2
<1>2. p \in Store
  BY <1>1 DEF ReleaseClaims, Store
<1> QED
  BY <1>1, <1>2

-----------------------------------------------------------------------------
(* What holds whether or not a start() has overwritten the store. *)

\* Every job on disk is well formed, and its id has been handed out.
StoreFine ==
  disk \in Store /\ \A k \in Job : Exists(k) => k \notin unused

\* So is every job object of a call, which claimed it in the past.
CallsFine ==
  \A b \in batch : IsCall(b) /\ b.at <= now /\ \A j \in DOMAIN b.snap : j \notin unused

\* A process of the command executes one call.
OneCommand == \A b, c \in batch : b.svc = c.svc /\ b.svc \in Cli => b = c

\* What a start() has loaded is on disk until somebody writes; no tick has
\* claimed anything since.
Current(s) ==
  /\ pending[s].base = disk
  /\ \A b \in batch : b.svc \in Daemon => b.at <= pending[s].at

LoadsFine ==
  /\ pending \in [Service -> Loaded \cup {None}]
  /\ \A s \in Service : pending[s] # None =>
       /\ s \in Daemon /\ \A k \in unused : pending[s].base[k] = None
       /\ s \notin overtaken => Current(s)

\* The command has no timer.
Services ==
  /\ running \in [Service -> BOOLEAN] /\ timer \in [Service -> BOOLEAN]
  /\ \A s \in Cli : ~running[s] /\ ~timer[s]

Counters ==
  /\ unused \subseteq Job /\ now \in 1..MaxTime /\ calls \in 0..MaxCalls
  /\ orphan \subseteq Service \X Nat /\ clobbered \in BOOLEAN
  /\ overtaken \subseteq Service /\ rescheduled \subseteq Job

BaseInv ==
  StoreFine /\ CallsFine /\ OneCommand /\ LoadsFine /\ Services /\ Counters

LEMMA BaseMeaning == BaseInv => TypeOK
BY DEF BaseInv, StoreFine, CallsFine, LoadsFine, Services, Counters, TypeOK, IsCall

LEMMA ServiceSets == Daemon \subseteq Service /\ Cli \subseteq Service /\ Daemon \cap Cli = {}
BY CronAssumption DEF Service

LEMMA BaseInit == Init => BaseInv
<1> SUFFICES ASSUME Init  PROVE BaseInv
  OBVIOUS
<1>0. Up \subseteq Daemon /\ MaxTime \in Nat \ {0} /\ MaxCalls \in Nat /\ 1 \in Nat
  BY CronAssumption
<1>1. ASSUME NEW j \in Job
      PROVE disk[j] \in JobRecord \cup {None} /\ (disk[j] # None => j \notin unused)
  <2>1. CASE j \in DOMAIN Initial
    <3>1. Initial[j] \in Request
      BY <2>1, CronAssumption
    <3>2. disk[j] = NewJob(Initial[j], 1) /\ j \notin unused
      BY <2>1 DEF Init
    <3> QED
      BY <1>0, <3>1, <3>2, NewJobFacts
  <2>2. CASE j \notin DOMAIN Initial
    BY <2>2 DEF Init
  <2> QED
    BY <2>1, <2>2
<1>2. StoreFine
  BY <1>1 DEF Init, StoreFine, Store, Exists
<1>3. CallsFine /\ OneCommand
  BY DEF Init, CallsFine, OneCommand
<1>4. LoadsFine
  BY DEF Init, LoadsFine
<1>5. Services
  <2>1. \A s \in Service : (s \in Up) \in BOOLEAN
    OBVIOUS
  <2>2. running \in [Service -> BOOLEAN] /\ timer \in [Service -> BOOLEAN]
    BY <2>1 DEF Init
  <2>3. \A s \in Cli : s \in Service /\ s \notin Up
    BY <1>0, ServiceSets
  <2> QED
    BY <2>2, <2>3 DEF Init, Services
<1>6. Counters
  <2>1. now \in 1..MaxTime /\ calls \in 0..MaxCalls
    BY <1>0 DEF Init
  <2>2. clobbered \in BOOLEAN
    BY DEF Init
  <2> QED
    BY <2>1, <2>2 DEF Init, Counters
<1> QED
  BY <1>2, <1>3, <1>4, <1>5, <1>6 DEF BaseInv

\* Calls that only change hands with the timer stay well formed.
LEMMA CallsFollow ==
  ASSUME BaseInv, NEW bs, bs \subseteq batch, Follows(bs), now' = now, unused' \subseteq unused
  PROVE  CallsFine' /\ OneCommand'
<1>1. ASSUME NEW c \in batch'
      PROVE  IsCall(c) /\ c.at <= now' /\ \A j \in DOMAIN c.snap : j \notin unused'
  <2>1. PICK d \in bs : IsCall(c) /\ Same(c, d)
    BY DEF Follows
  <2>2. c.at = d.at /\ c.snap = d.snap
    BY <2>1 DEF Same, Continues
  <2>3. d.at <= now /\ \A j \in DOMAIN d.snap : j \notin unused
    BY DEF BaseInv, CallsFine
  <2> QED
    BY <2>1, <2>2, <2>3
<1>2. ASSUME NEW c \in batch', NEW e \in batch', c.svc = e.svc, c.svc \in Cli, c # e
      PROVE  FALSE
  <2>1. PICK d \in bs, f \in bs : d # f /\ Same(c, d) /\ Same(e, f)
    BY <1>2 DEF Follows
  <2>2. d.svc = f.svc /\ d.svc \in Cli
    BY <1>2, <2>1 DEF Same, Continues
  <2> QED
    BY <2>1, <2>2 DEF BaseInv, OneCommand
<1>3. CallsFine'
  <2>1. \A c \in batch' : IsCall(c) <=> IsCall(c)'
    BY DEF IsCall
  <2> QED
    BY <1>1, <2>1 DEF CallsFine
<1> QED
  BY <1>2, <1>3 DEF OneCommand

\* A write leaves every load that is under way behind.
Written ==
  overtaken' = IF disk' = disk THEN overtaken ELSE { s \in Service : pending[s] # None }

LEMMA SaveWrites ==
  ASSUME NEW d, Save(d)
  PROVE  disk' = d /\ Written
BY DEF Save, Written

\* The calls are the same, or what has become of them.
Older == \A c \in batch' : \E d \in batch : c.svc = d.svc /\ c.at = d.at

LEMMA FollowsOlder ==
  ASSUME NEW bs, bs \subseteq batch, Follows(bs)
  PROVE  Older
BY DEF Follows, Same, Continues, Older

\* Loads that stay, or are saved or lost, stay well formed.
LEMMA LoadsKept ==
  ASSUME BaseInv, NEW s, unused' \subseteq unused,
         pending' = pending \/ pending' = [pending EXCEPT ![s] = None],
         Written, disk' = disk => Older
  PROVE  LoadsFine'
<1>1. /\ pending' \in [Service -> Loaded \cup {None}]
      /\ \A q \in Service : pending'[q] # None => pending'[q] = pending[q]
  BY DEF BaseInv, LoadsFine
<1>2. ASSUME NEW q \in Service, pending'[q] # None
      PROVE  q \in Daemon /\ \A k \in unused' : pending'[q].base[k] = None
  BY <1>1, <1>2 DEF BaseInv, LoadsFine
<1>3. ASSUME NEW q \in Service, pending'[q] # None, q \notin overtaken'
      PROVE  Current(q)'
  <2>1. pending'[q] = pending[q]
    BY <1>1, <1>3
  <2>2. disk' = disk /\ q \notin overtaken
    BY <1>3, <2>1 DEF Written
  <2>3. Current(q)
    BY <1>3, <2>1, <2>2 DEF BaseInv, LoadsFine
  <2> QED
    BY <2>1, <2>2, <2>3 DEF Current, Older
<1> QED
  BY <1>1, <1>2, <1>3 DEF LoadsFine

-----------------------------------------------------------------------------
(* Edits of the store. *)

\* The job is not due before the clock moves, and will not be made so.
Later(r, t) ==
  r.enabled => (r.next # None => r.next > t) /\ (r.sched.kind = "at" => r.sched.ms > t)

\* A call that a tick of this instant has made.
Ticked(b) == b.at = now /\ b.svc \in Daemon

\* An edit of a job leaves its claim alone, does not make it due in an instant
\* in which a tick has claimed jobs, and does not stall it.
Kept(r, n, t) ==
  /\ n.claim = r.claim
  /\ n.sched = r.sched \/ (n.sched.kind = "at" => n.sched.ms > t)
  /\ Later(r, t) /\ (\E b \in batch : Ticked(b)) => Later(n, t)
  /\ Lasting(r, t) => Lasting(n, t)

\* Jobs are edited, removed, or made with an id that nobody knows.
Edit ==
  /\ disk' \in Store /\ unused' \subseteq unused
  /\ \A k \in Job : disk'[k] # None =>
       /\ k \notin unused'
       /\ \/ k \in unused /\ disk'[k].claim = None /\ disk'[k].next # None
          \/ /\ disk[k] # None /\ Kept(disk[k], disk'[k], now)
             /\ disk'[k].sched = disk[k].sched \/ ~Executing(k) \/ k \in rescheduled'

LEMMA EditNothing ==
  ASSUME BaseInv, disk' = disk, unused' = unused
  PROVE  Edit
BY DEF Edit, Kept, BaseInv, StoreFine, Exists

LEMMA EditOne ==
  ASSUME BaseInv, NEW j \in Job, disk[j] # None, NEW n \in JobRecord, Kept(disk[j], n, now),
         n.sched = disk[j].sched \/ ~Executing(j) \/ j \in rescheduled',
         disk' = [disk EXCEPT ![j] = n], unused' = unused
  PROVE  Edit
<1>1. disk \in Store /\ \A k \in Job : disk[k] # None => k \notin unused
  BY DEF BaseInv, StoreFine, Exists
<1>2. disk' \in Store /\ disk'[j] = n /\ \A k \in Job : k # j => disk'[k] = disk[k]
  BY <1>1 DEF Store
<1>3. \A k \in Job : Kept(disk[k], disk[k], now)
  BY DEF Kept
<1> QED
  BY <1>1, <1>2, <1>3 DEF Edit

LEMMA RecordShape ==
  ASSUME BaseInv, NEW j \in Job, disk[j] # None
  PROVE  /\ disk[j] \in JobRecord /\ disk[j].sched \in Schedules
         /\ disk[j].enabled \in BOOLEAN /\ disk[j].silent \in Nat
         /\ disk[j].next \in Nat \cup {None} /\ now \in Nat /\ j \notin unused
<1>1. disk \in Store /\ j \notin unused
  BY DEF BaseInv, StoreFine, Exists
<1>2. disk[j] \in JobRecord
  BY <1>1 DEF Store
<1>3. now \in Nat
  BY CronAssumption DEF BaseInv, Counters
<1> QED
  BY <1>1, <1>2, <1>3 DEF JobRecord, Schedules

LEMMA AddEdits ==
  ASSUME BaseInv, NEW s, NEW r \in Request, AddJob(s, r)
  PROVE  Edit
<1>1. PICK next : next = NextRun(r.sched, now)
  OBVIOUS
<1>2. r.sched \in Schedules /\ now \in Nat /\ None \notin Nat
  BY CronAssumption DEF Schedules, BaseInv, Counters
<1>3. next \in Nat /\ next > now /\ (r.sched.kind = "at" => r.sched.ms > now) /\ next # None
  <2>1. next # None
    BY <1>1 DEF AddJob
  <2> QED
    BY <1>1, <1>2, <2>1, NextRunFacts
<1>4. ASSUME NEW j \in Job, disk[j] # None, unused' = unused,
             disk' = [disk EXCEPT ![j].msg = r.msg, ![j].sched = r.sched, ![j].next = next],
             ~Executing(j) \/ j \in rescheduled'
      PROVE  Edit
  <2>1. PICK n : n = [disk[j] EXCEPT !.msg = r.msg, !.sched = r.sched, !.next = next]
    OBVIOUS
  <2>2. disk' = [disk EXCEPT ![j] = n]
    BY <1>4, <2>1
  <2>3. disk[j] \in JobRecord
    BY <1>4, RecordShape
  <2>4. n \in JobRecord /\ n.claim = disk[j].claim /\ n.sched = r.sched /\ n.next = next
    BY <1>2, <1>3, <2>1, <2>3 DEF JobRecord, Schedules
  <2>5. Kept(disk[j], n, now)
    BY <1>3, <2>4 DEF Kept, Later, Lasting
  <2> QED
    BY <1>4, <2>2, <2>4, <2>5, EditOne
<1>5. ASSUME NEW j \in Job, disk[j] # None, unused' = unused,
             disk' = [disk EXCEPT ![j].msg = r.msg, ![j].next = IF @ = None THEN next ELSE @]
      PROVE  Edit
  <2>1. PICK after : after = IF disk[j].next = None THEN next ELSE disk[j].next
    OBVIOUS
  <2>2. PICK n : n = [disk[j] EXCEPT !.msg = r.msg, !.next = after]
    OBVIOUS
  <2>3. disk[j] \in JobRecord /\ disk[j].next \in Nat \cup {None}
    BY <1>5, RecordShape
  <2>4. disk' = [disk EXCEPT ![j] = n]
    BY <1>5, <2>1, <2>2
  <2>5. after \in Nat /\ after # None /\ (after = disk[j].next \/ after > now)
    BY <1>2, <1>3, <2>1, <2>3
  <2>6. /\ n \in JobRecord /\ n.claim = disk[j].claim /\ n.sched = disk[j].sched
        /\ n.next = after /\ n.enabled = disk[j].enabled
    BY <2>2, <2>3, <2>5 DEF JobRecord
  <2>7. Kept(disk[j], n, now)
    BY <2>5, <2>6 DEF Kept, Later, Lasting
  <2> QED
    BY <1>5, <2>4, <2>6, <2>7, EditOne
<1>6. ASSUME NEW j \in unused, disk' = [disk EXCEPT ![j] = NewJob(r, now)], unused' = unused \ {j}
      PROVE  Edit
  <2>1. PICK n : n = NewJob(r, now)
    OBVIOUS
  <2>2. n \in JobRecord /\ n.claim = None /\ n.next # None
    BY <1>1, <1>2, <1>3, <2>1, NewJobFacts
  <2>3. j \in Job /\ disk \in Store /\ \A k \in Job : disk[k] # None => k \notin unused
    BY DEF BaseInv, StoreFine, Counters, Exists
  <2>4. disk' \in Store /\ disk'[j] = n /\ \A k \in Job : k # j => disk'[k] = disk[k]
    BY <1>6, <2>1, <2>2, <2>3 DEF Store
  <2>5. \A k \in Job : Kept(disk[k], disk[k], now)
    BY DEF Kept
  <2> QED
    BY <1>6, <2>2, <2>3, <2>4, <2>5 DEF Edit
<1> QED
  BY <1>1, <1>4, <1>5, <1>6, EditNothing, SaveWrites DEF AddJob, Exists, storeVars

\* add_job writes or leaves the store alone, and notes whom it rescheduled.
LEMMA AddWrites ==
  ASSUME BaseInv, NEW s, NEW r \in Request, AddJob(s, r)
  PROVE  Written /\ rescheduled \subseteq rescheduled' /\ rescheduled' \subseteq Job
<1>1. rescheduled \subseteq Job
  BY DEF BaseInv, Counters
<1>2. CASE UNCHANGED <<storeVars, unused, rescheduled>>
  BY <1>1, <1>2 DEF storeVars, Written
<1>3. CASE (\E d : Save(d)) /\ UNCHANGED rescheduled
  BY <1>1, <1>3, SaveWrites
<1>4. CASE \E j \in Job : \E d :
             Save(d) /\ rescheduled' = IF Executing(j) THEN rescheduled \cup {j} ELSE rescheduled
  BY <1>1, <1>4, SaveWrites
<1> QED
  BY <1>2, <1>3, <1>4 DEF AddJob

LEMMA RemoveEdits ==
  ASSUME BaseInv, NEW s, NEW j \in Job, RemoveJob(s, j)
  PROVE  Edit
<1>1. disk \in Store /\ \A k \in Job : disk[k] # None => k \notin unused
  BY DEF BaseInv, StoreFine, Exists
<1>2. disk' \in Store /\ unused' = unused /\ \A k \in Job : disk'[k] # None => disk'[k] = disk[k]
  <2>1. disk' = [disk EXCEPT ![j] = None] /\ unused' = unused
    BY SaveWrites DEF RemoveJob
  <2> QED
    BY <1>1, <2>1 DEF Store
<1>3. \A k \in Job : Kept(disk[k], disk[k], now)
  BY DEF Kept
<1> QED
  BY <1>1, <1>2, <1>3 DEF Edit

LEMMA EnableEdits ==
  ASSUME BaseInv, NEW s, NEW j \in Job, EnableJob(s, j)
  PROVE  Edit
<1>1. PICK next : next = NextRun(disk[j].sched, now)
  OBVIOUS
<1>2. PICK on \in BOOLEAN : on <=> next # None
  OBVIOUS
<1>3. PICK status : status = IF next = None THEN "expired" ELSE disk[j].status
  OBVIOUS
<1>4. disk[j] # None /\ unused' = unused
  BY DEF EnableJob, Exists
<1>5. disk[j] \in JobRecord /\ disk[j].sched \in Schedules /\ now \in Nat
  BY <1>4, RecordShape
<1>6. /\ next \in Nat \cup {None}
      /\ next # None => next > now /\ (disk[j].sched.kind = "at" => disk[j].sched.ms > now)
  BY <1>1, <1>5, NextRunFacts
<1>7. PICK n : n = [disk[j] EXCEPT !.enabled = on, !.next = next, !.status = status]
  OBVIOUS
<1>8. disk' = [disk EXCEPT ![j] = n]
  BY <1>1, <1>2, <1>3, <1>7, SaveWrites DEF EnableJob
<1>9. status \in Status
  BY <1>3, <1>5 DEF JobRecord, Status
<1>10. /\ n \in JobRecord /\ n.claim = disk[j].claim /\ n.sched = disk[j].sched
       /\ n.next = next /\ n.enabled = on
  BY <1>5, <1>6, <1>7, <1>9 DEF JobRecord
<1>11. Kept(disk[j], n, now)
  BY <1>2, <1>6, <1>10 DEF Kept, Later, Lasting
<1> QED
  BY <1>4, <1>8, <1>10, <1>11, EditOne

LEMMA DisableEdits ==
  ASSUME BaseInv, NEW s, NEW j \in Job, DisableJob(s, j)
  PROVE  Edit
<1>1. disk[j] # None /\ unused' = unused
  BY DEF DisableJob, Exists
<1>2. disk[j] \in JobRecord
  BY <1>1, RecordShape
<1>3. PICK n : n = [disk[j] EXCEPT !.enabled = FALSE, !.next = None]
  OBVIOUS
<1>4. disk' = [disk EXCEPT ![j] = n]
  BY <1>3, SaveWrites DEF DisableJob
<1>5. n \in JobRecord /\ n.claim = disk[j].claim /\ n.sched = disk[j].sched /\ ~n.enabled
  BY <1>2, <1>3 DEF JobRecord
<1>6. Kept(disk[j], n, now)
  BY <1>5 DEF Kept, Later, Lasting
<1> QED
  BY <1>1, <1>4, <1>5, <1>6, EditOne

LEMMA SilentEdits ==
  ASSUME BaseInv, NEW j \in Job, RecordSilentFire(j)
  PROVE  Edit
<1>1. disk[j] # None /\ unused' = unused
  BY DEF RecordSilentFire, Exists
<1>2. /\ disk[j] \in JobRecord /\ disk[j].enabled \in BOOLEAN
      /\ disk[j].silent \in Nat /\ disk[j].next \in Nat \cup {None}
  BY <1>1, RecordShape
<1>3. PICK off \in BOOLEAN : off <=> disk[j].silent + 1 >= SilentLimit
  OBVIOUS
<1>4. PICK on \in BOOLEAN : on <=> disk[j].enabled /\ ~off
  OBVIOUS
<1>5. PICK next : next = IF off THEN None ELSE disk[j].next
  OBVIOUS
<1>6. PICK n : n = [disk[j] EXCEPT !.silent = disk[j].silent + 1, !.enabled = on, !.next = next]
  OBVIOUS
<1>7. disk' = [disk EXCEPT ![j] = n]
  BY <1>1, <1>2, <1>3, <1>4, <1>5, <1>6, SaveWrites DEF RecordSilentFire
<1>8. next \in Nat \cup {None} /\ disk[j].silent + 1 \in Nat
  BY <1>2, <1>5
<1>9. /\ n \in JobRecord /\ n.claim = disk[j].claim /\ n.sched = disk[j].sched
      /\ n.next = next /\ n.enabled = on
  BY <1>2, <1>6, <1>8 DEF JobRecord
<1>10. Kept(disk[j], n, now)
  BY <1>4, <1>5, <1>9 DEF Kept, Later, Lasting
<1> QED
  BY <1>1, <1>7, <1>9, <1>10, EditOne

LEMMA NotifyEdits ==
  ASSUME BaseInv, NEW to, NotifyUserActive(to)
  PROVE  Edit
<1>0. disk' = [j \in Job |-> IF Exists(j) /\ disk[j].enabled /\ disk[j].to = to
                             THEN [disk[j] EXCEPT !.silent = 0] ELSE disk[j]]
  BY SaveWrites DEF NotifyUserActive
<1>1. ASSUME NEW k \in Job
      PROVE  /\ disk'[k] \in JobRecord \cup {None}
             /\ disk'[k] # None => /\ disk[k] # None /\ k \notin unused
                                   /\ Kept(disk[k], disk'[k], now) /\ disk'[k].sched = disk[k].sched
  <2>1. CASE disk'[k] = disk[k]
    BY <2>1, RecordShape DEF Kept
  <2>2. CASE disk[k] # None /\ disk'[k] = [disk[k] EXCEPT !.silent = 0]
    <3>1. disk[k] \in JobRecord /\ k \notin unused
      BY <2>2, RecordShape
    <3>2. PICK n : n = [disk[k] EXCEPT !.silent = 0]
      OBVIOUS
    <3>3. /\ n \in JobRecord /\ n.claim = disk[k].claim /\ n.sched = disk[k].sched
          /\ n.next = disk[k].next /\ n.enabled = disk[k].enabled
      BY <3>1, <3>2 DEF JobRecord
    <3>4. Kept(disk[k], n, now)
      BY <3>3 DEF Kept, Later, Lasting
    <3> QED
      BY <2>2, <3>1, <3>2, <3>3, <3>4
  <2> QED
    BY <1>0, <2>1, <2>2 DEF Exists
<1>2. disk' \in Store /\ unused' = unused
  BY <1>0, <1>1 DEF NotifyUserActive, Store
<1> QED
  BY <1>1, <1>2 DEF Edit

-----------------------------------------------------------------------------
(* Every step keeps what holds unconditionally. *)

LEMMA EditStoreFine ==
  ASSUME Edit
  PROVE  StoreFine'
BY DEF Edit, StoreFine, Exists

LEMMA ArmedServices ==
  ASSUME BaseInv, NEW s \in Service, running' = running, timer' = [timer EXCEPT ![s] = running[s]]
  PROVE  Services'
<1>1. running \in [Service -> BOOLEAN] /\ timer \in [Service -> BOOLEAN] /\ \A q \in Cli : ~running[q] /\ ~timer[q]
  BY DEF BaseInv, Services
<1>2. timer' \in [Service -> BOOLEAN]
  BY <1>1
<1>3. \A q \in Cli : ~timer'[q]
  BY <1>1, ServiceSets
<1> QED
  BY <1>1, <1>2, <1>3 DEF Services

LEMMA CallCounts ==
  ASSUME BaseInv, Call
  PROVE  calls' \in 0..MaxCalls
<1>1. calls \in 0..MaxCalls /\ MaxCalls \in Nat
  BY CronAssumption DEF BaseInv, Counters
<1> QED
  BY <1>1 DEF Call

LEMMA CountersKept ==
  ASSUME BaseInv, unused' \subseteq unused, now' = now, clobbered' = clobbered,
         orphan' = orphan, Call \/ calls' = calls, Written, rescheduled' \subseteq Job
  PROVE  Counters'
<1>1. overtaken' \subseteq Service
  BY DEF Written, BaseInv, Counters
<1> QED
  BY <1>1, CallCounts DEF BaseInv, Counters

\* The API edits the store and re-arms the timer.
ApiShape(s) ==
  /\ Edit /\ Call /\ ArmTimer(s, batch) /\ Written
  /\ rescheduled \subseteq rescheduled' /\ rescheduled' \subseteq Job
  /\ UNCHANGED <<running, pending, now, orphan, clobbered>>

LEMMA ApiBase ==
  ASSUME BaseInv, NEW s \in Service, ApiShape(s)
  PROVE  BaseInv' /\ Follows(batch)
<1>1. unused' \subseteq unused /\ now' = now
  BY DEF ApiShape, Edit
<1>2. Follows(batch)
  <2>1. \A b \in batch : IsCall(b)
    BY DEF BaseInv, CallsFine
  <2> QED
    BY <2>1, FollowsCancelled DEF ApiShape, ArmTimer
<1>3. StoreFine'
  BY EditStoreFine DEF ApiShape
<1>4. CallsFine' /\ OneCommand'
  BY <1>1, <1>2, CallsFollow
<1>5. LoadsFine'
  BY <1>1, <1>2, FollowsOlder, LoadsKept DEF ApiShape
<1>6. Services'
  BY ArmedServices DEF ApiShape, ArmTimer
<1>7. Counters'
  BY <1>1, CountersKept DEF ApiShape
<1> QED
  BY <1>2, <1>3, <1>4, <1>5, <1>6, <1>7 DEF BaseInv

LEMMA ApiShapes ==
  ASSUME BaseInv, NEW s,
         \/ \E j \in Job : RemoveJob(s, j) \/ EnableJob(s, j) \/ DisableJob(s, j)
         \/ \E r \in Request : AddJob(s, r)
  PROVE  ApiShape(s)
<1>0. rescheduled \subseteq Job
  BY DEF BaseInv, Counters
<1>1. CASE \E j \in Job : RemoveJob(s, j)
  BY <1>0, <1>1, RemoveEdits, SaveWrites DEF ApiShape, RemoveJob, history
<1>2. CASE \E j \in Job : EnableJob(s, j)
  BY <1>0, <1>2, EnableEdits, SaveWrites DEF ApiShape, EnableJob, history
<1>3. CASE \E j \in Job : DisableJob(s, j)
  BY <1>0, <1>3, DisableEdits, SaveWrites DEF ApiShape, DisableJob, history
<1>4. CASE \E r \in Request : AddJob(s, r)
  BY <1>4, AddEdits, AddWrites DEF ApiShape, AddJob
<1> QED
  BY <1>1, <1>2, <1>3, <1>4

\* The silent-fire bookkeeping touches the store only.
NoteShape ==
  /\ Edit /\ Call /\ batch' = batch /\ Written
  /\ UNCHANGED <<running, pending, timer, now, orphan, clobbered, rescheduled>>

LEMMA NoteShapes ==
  ASSUME BaseInv, (\E j \in Job : RecordSilentFire(j)) \/ (\E to : NotifyUserActive(to))
  PROVE  NoteShape
<1>1. CASE \E j \in Job : RecordSilentFire(j)
  BY <1>1, SilentEdits, SaveWrites DEF NoteShape, RecordSilentFire, history
<1>2. CASE \E to : NotifyUserActive(to)
  BY <1>2, NotifyEdits, SaveWrites DEF NoteShape, NotifyUserActive, history
<1> QED
  BY <1>1, <1>2

LEMMA NoteBase ==
  ASSUME BaseInv, NoteShape
  PROVE  BaseInv' /\ Follows(batch)
<1>1. unused' \subseteq unused /\ now' = now
  BY DEF NoteShape, Edit
<1>2. Follows(batch)
  <2>1. \A b \in batch : IsCall(b)
    BY DEF BaseInv, CallsFine
  <2> QED
    BY <2>1, FollowsUnchanged DEF NoteShape
<1>3. StoreFine'
  BY EditStoreFine DEF NoteShape
<1>4. CallsFine' /\ OneCommand'
  BY <1>1, <1>2, CallsFollow
<1>5. LoadsFine'
  BY <1>1, <1>2, FollowsOlder, LoadsKept DEF NoteShape
<1>6. Services'
  BY DEF NoteShape, BaseInv, Services
<1>7. Counters'
  BY <1>1, CountersKept DEF NoteShape, BaseInv, Counters
<1> QED
  BY <1>2, <1>3, <1>4, <1>5, <1>6, <1>7 DEF BaseInv

LEMMA StartLoadBase ==
  ASSUME BaseInv, NEW s \in Service, StartLoad(s)
  PROVE  BaseInv' /\ Edit /\ Follows(batch)
<1>1. /\ s \in Daemon /\ overtaken' = overtaken \ {s}
      /\ UNCHANGED <<disk, unused, timer, batch, now, calls, orphan, clobbered, rescheduled>>
  BY DEF StartLoad, history
<1>2. Edit
  BY <1>1, EditNothing
<1>3. Follows(batch)
  <2>1. \A b \in batch : IsCall(b)
    BY DEF BaseInv, CallsFine
  <2> QED
    BY <1>1, <2>1, FollowsUnchanged
<1>4. StoreFine'
  BY <1>2, EditStoreFine
<1>5. CallsFine' /\ OneCommand'
  BY <1>1, <1>3, CallsFollow
<1>6. LoadsFine'
  <2>1. /\ disk \in Store /\ \A k \in unused : disk[k] = None
        /\ now \in Nat /\ pending \in [Service -> Loaded \cup {None}]
    BY CronAssumption DEF BaseInv, StoreFine, Counters, LoadsFine, Exists
  <2>2. PICK p : p = [base |-> disk, at |-> now]
    OBVIOUS
  <2>3. p.base = disk /\ p.at = now /\ p \in Loaded
    BY <2>1, <2>2 DEF Loaded
  <2>4. pending' = [pending EXCEPT ![s] = p]
    BY <2>2 DEF StartLoad
  <2>5. pending' \in [Service -> Loaded \cup {None}] /\ pending'[s] = p
    BY <2>1, <2>3, <2>4
  <2>6. ASSUME NEW q \in Service, pending'[q] # None
        PROVE  /\ q \in Daemon /\ \A k \in unused' : pending'[q].base[k] = None
               /\ q \notin overtaken' => Current(q)'
    <3>1. CASE q = s
      <4>1. \A b \in batch : b.at <= now
        BY DEF BaseInv, CallsFine
      <4> QED
        BY <1>1, <2>1, <2>3, <2>5, <3>1, <4>1 DEF Current
    <3>2. CASE q # s
      <4>1. pending'[q] = pending[q]
        BY <2>1, <2>4, <3>2
      <4> QED
        BY <1>1, <2>6, <3>2, <4>1 DEF BaseInv, LoadsFine, Current
    <3> QED
      BY <3>1, <3>2
  <2> QED
    BY <2>5, <2>6 DEF LoadsFine
<1>7. Services'
  <2>1. running \in [Service -> BOOLEAN] /\ timer \in [Service -> BOOLEAN] /\ \A q \in Cli : ~running[q] /\ ~timer[q]
    BY DEF BaseInv, Services
  <2>2. running' = [running EXCEPT ![s] = TRUE] /\ timer' = timer
    BY DEF StartLoad
  <2>3. running' \in [Service -> BOOLEAN]
    BY <2>1, <2>2
  <2>4. \A q \in Cli : ~running'[q]
    BY <1>1, <2>1, <2>2, ServiceSets
  <2> QED
    BY <2>1, <2>2, <2>3, <2>4 DEF Services
<1>8. Counters'
  BY <1>1 DEF BaseInv, Counters
<1> QED
  BY <1>2, <1>3, <1>4, <1>5, <1>6, <1>7, <1>8 DEF BaseInv

\* A start() that overwrote nothing has edited the store.
LEMMA StartSaveBase ==
  ASSUME BaseInv, NEW s \in Service, StartSave(s)
  PROVE  BaseInv' /\ Follows(batch) /\ (~clobbered' => Edit)
<1>1. unused' = unused /\ now' = now /\ running' = running /\ rescheduled' = rescheduled
  BY DEF StartSave
<1>2. PICK base : base = pending[s].base
  OBVIOUS
<1>3. PICK t : t = pending[s].at
  OBVIOUS
<1>4. pending[s] \in Loaded /\ \A k \in unused : base[k] = None
  BY <1>2 DEF StartSave, BaseInv, LoadsFine
<1>5. base \in Store /\ t \in Nat
  BY <1>2, <1>3, <1>4 DEF Loaded
<1>6. disk' = [j \in Job |-> IF base[j] = None THEN None ELSE Recompute(base[j], t)] /\ Written
  BY <1>2, <1>3, SaveWrites DEF StartSave
<1>7. ASSUME NEW k \in Job, base[k] # None  PROVE Recompute(base[k], t) \in JobRecord
  <2>1. base[k] \in JobRecord
    BY <1>5, <1>7 DEF Store
  <2> QED
    BY <1>5, <2>1, RecomputeFacts
<1>8. ASSUME NEW k \in Job, disk'[k] # None
      PROVE  /\ base[k] # None /\ base[k] \in JobRecord /\ k \notin unused
             /\ disk'[k] = Recompute(base[k], t)
  <2>1. base[k] # None /\ disk'[k] = Recompute(base[k], t)
    BY <1>6, <1>8
  <2>2. base[k] \in JobRecord
    BY <1>5, <2>1 DEF Store
  <2> QED
    BY <1>4, <2>1, <2>2
<1>9. disk' \in Store
  BY <1>6, <1>7 DEF Store
<1>10. StoreFine'
  BY <1>1, <1>8, <1>9 DEF StoreFine, Exists
<1>11. ASSUME ~clobbered'  PROVE Edit
  <2>1. disk = base /\ \A b \in batch : b.svc \in Daemon => b.at <= t
    BY <1>2, <1>3, <1>11 DEF StartSave, BaseInv, LoadsFine, Current
  <2>2. ASSUME NEW k \in Job, disk'[k] # None
        PROVE  disk[k] # None /\ Kept(disk[k], disk'[k], now) /\ disk'[k].sched = disk[k].sched
    <3>1. PICK r : r = disk[k]
      OBVIOUS
    <3>2. PICK n : n = disk'[k]
      OBVIOUS
    <3>3. r \in JobRecord /\ n = Recompute(r, t) /\ r # None
      BY <1>8, <2>1, <2>2, <3>1, <3>2
    <3>4. /\ n \in JobRecord /\ n.claim = r.claim /\ n.sched = r.sched
          /\ n.enabled => /\ r.enabled /\ n.next # None
                          /\ r.sched.kind = "at" => n.next = r.sched.ms
                          /\ r.sched.kind # "at" => n.next = r.next \/ n.next > t
      BY <1>5, <3>3, RecomputeFacts
    <3>5. ASSUME Later(r, now), NEW b \in batch, Ticked(b)  PROVE Later(n, now)
      <4>1. now <= t /\ now \in Nat
        BY <2>1, <3>5, CronAssumption DEF Ticked, BaseInv, Counters
      <4>2. n.enabled => n.next \in Nat
        BY <3>4 DEF JobRecord
      <4>3. n.enabled => n.next > now /\ (n.sched.kind = "at" => n.sched.ms > now)
        BY <1>5, <3>4, <3>5, <4>1, <4>2 DEF Later
      <4> QED
        BY <4>3 DEF Later
    <3>6. Lasting(n, now)
      BY <3>4 DEF Lasting
    <3> QED
      BY <3>1, <3>2, <3>3, <3>4, <3>5, <3>6 DEF Kept
  <2> QED
    BY <1>1, <1>8, <1>9, <2>2 DEF Edit
<1>12. Follows(batch)
  <2>1. \A b \in batch : IsCall(b)
    BY DEF BaseInv, CallsFine
  <2> QED
    BY <2>1, FollowsCancelled DEF StartSave, ArmTimer
<1>13. CallsFine' /\ OneCommand'
  BY <1>1, <1>12, CallsFollow
<1>14. LoadsFine'
  BY <1>1, <1>6, <1>12, FollowsOlder, LoadsKept DEF StartSave
<1>15. Services'
  BY <1>1, ArmedServices DEF StartSave, ArmTimer
<1>16. Counters'
  <2>1. clobbered' \in BOOLEAN
    BY DEF StartSave
  <2>2. overtaken' \subseteq Service
    BY <1>6 DEF Written, BaseInv, Counters
  <2> QED
    BY <1>1, <2>1, <2>2 DEF StartSave, BaseInv, Counters
<1> QED
  BY <1>10, <1>11, <1>12, <1>13, <1>14, <1>15, <1>16 DEF BaseInv

LEMMA ServicesDown ==
  ASSUME BaseInv, NEW s \in Service, running' = running \/ running' = [running EXCEPT ![s] = FALSE],
         timer' = [timer EXCEPT ![s] = FALSE]
  PROVE  Services'
<1>1. running \in [Service -> BOOLEAN] /\ timer \in [Service -> BOOLEAN] /\ \A q \in Cli : ~running[q] /\ ~timer[q]
  BY DEF BaseInv, Services
<1>2. timer' \in [Service -> BOOLEAN] /\ running' \in [Service -> BOOLEAN]
  BY <1>1
<1>3. \A q \in Cli : ~timer'[q] /\ ~running'[q]
  BY <1>1, ServiceSets
<1> QED
  BY <1>2, <1>3 DEF Services

LEMMA StopBase ==
  ASSUME BaseInv, NEW s \in Service, Stop(s)
  PROVE  BaseInv' /\ Edit /\ Follows(batch)
<1>1. UNCHANGED <<disk, unused, pending, now, orphan, clobbered, rescheduled>> /\ Written
  BY DEF Stop, storeVars, history, Written
<1>2. Edit
  BY <1>1, EditNothing
<1>3. Follows(batch)
  <2>1. \A b \in batch : IsCall(b)
    BY DEF BaseInv, CallsFine
  <2> QED
    BY <2>1, FollowsCancelled DEF Stop
<1>4. StoreFine' /\ CallsFine' /\ OneCommand'
  BY <1>1, <1>2, <1>3, EditStoreFine, CallsFollow
<1>5. LoadsFine'
  BY <1>1, <1>3, FollowsOlder, LoadsKept
<1>6. Services'
  BY ServicesDown DEF Stop
<1>7. Counters'
  BY <1>1, CountersKept DEF Stop, BaseInv, Counters
<1> QED
  BY <1>2, <1>3, <1>4, <1>5, <1>6, <1>7 DEF BaseInv

LEMMA CrashBase ==
  ASSUME BaseInv, NEW s \in Service, Crash(s)
  PROVE  BaseInv' /\ Edit /\ Follows({ b \in batch : b.svc # s })
<1>1. UNCHANGED <<disk, overtaken, unused, now, clobbered, rescheduled>> /\ Written
  BY DEF Crash, storeVars, Written
<1>2. Edit
  BY <1>1, EditNothing
<1>3. PICK bs : bs = { b \in batch : b.svc # s }
  OBVIOUS
<1>4. bs \subseteq batch /\ Follows(bs)
  <2>1. \A b \in bs : IsCall(b)
    BY <1>3 DEF BaseInv, CallsFine
  <2> QED
    BY <1>3, <2>1, FollowsUnchanged DEF Crash
<1>5. StoreFine' /\ CallsFine' /\ OneCommand'
  BY <1>1, <1>2, <1>4, EditStoreFine, CallsFollow
<1>6. LoadsFine'
  BY <1>1, <1>4, FollowsOlder, LoadsKept DEF Crash
<1>7. Services'
  BY ServicesDown DEF Crash
<1>8. Counters'
  <2>1. \A b \in batch : Claim(b) \in Service \X Nat
    BY CallShape DEF BaseInv, CallsFine
  <2>2. orphan' \subseteq Service \X Nat
    BY <2>1 DEF Crash, BaseInv, Counters
  <2> QED
    BY <1>1, <2>2, CallCounts DEF Crash, BaseInv, Counters
<1> QED
  BY <1>2, <1>3, <1>4, <1>5, <1>6, <1>7, <1>8 DEF BaseInv

LEMMA TickBase ==
  ASSUME BaseInv, Tick
  PROVE  BaseInv'
<1>1. /\ now' = now + 1 /\ now \in 1..MaxTime /\ now' \in 1..MaxTime
      /\ UNCHANGED <<disk, overtaken, unused, running, pending, timer, batch, calls, orphan, clobbered,
                     rescheduled>>
  BY CronAssumption DEF Tick, BaseInv, Counters, storeVars, history
<1>2. StoreFine'
  BY <1>1 DEF BaseInv, StoreFine, Exists
<1>3. CallsFine'
  <2>1. ASSUME NEW b \in batch  PROVE b.at <= now + 1
    <3>1. b.at \in Nat /\ b.at <= now
      BY CallShape DEF BaseInv, CallsFine
    <3> QED
      BY <1>1, <3>1
  <2> QED
    BY <1>1, <2>1 DEF BaseInv, CallsFine, IsCall
<1>4. OneCommand' /\ Services' /\ Counters'
  BY <1>1 DEF BaseInv, OneCommand, Services, Counters
<1>5. LoadsFine'
  BY <1>1, LoadsKept DEF Written, Older
<1> QED
  BY <1>2, <1>3, <1>4, <1>5 DEF BaseInv

\* A claim: the call c takes a set of jobs whose claims, if any, have run out,
\* as a tick that finds them due or as the one call of a command.
Claims(c) ==
  LET D == DOMAIN c.snap IN
  /\ IsCall(c) /\ Held(c) = D /\ c.at <= now /\ batch' = batch \cup {c}
  /\ disk' \in Store /\ Written /\ \A k \in Job \ D : disk'[k] = disk[k]
  /\ \A k \in D :
       /\ disk[k] # None /\ disk'[k] # None /\ c.snap[k] = disk'[k]
       /\ disk'[k].claim = Claim(c) /\ disk'[k].sched = disk[k].sched
       /\ disk'[k].enabled = disk[k].enabled /\ disk'[k].next = disk[k].next
       /\ ~Fresh(disk[k].claim, c.at)
  /\ \/ c.svc \in Daemon /\ c.at = now /\ \A k \in D : Due(k)
     \/ c.svc \in Cli /\ \A b \in batch : b.svc # c.svc
  /\ UNCHANGED <<unused, pending, now, history>>

LEMMA RunDueClaims ==
  ASSUME BaseInv, NEW s \in Service, RunDue(s)
  PROVE  \E c : Claims(c)
<1>1. disk \in Store /\ now \in Nat /\ s \in Daemon
  <2>1. s \in Daemon
    BY ServiceSets DEF RunDue, BaseInv, Services, Service
  <2> QED
    BY <2>1, CronAssumption DEF BaseInv, StoreFine, Counters
<1>2. PICK D : D = { j \in Job : Claimable(s, j) }
  OBVIOUS
<1>3. /\ D \subseteq Job /\ D # {}
      /\ \A j \in D : disk[j] # None /\ Due(j) /\ ~Fresh(disk[j].claim, now)
  BY <1>2 DEF RunDue, Claimable, Due, Exists
<1>4. /\ disk' = [j \in Job |-> IF j \in D THEN [disk[j] EXCEPT !.claim = <<s, now>>] ELSE disk[j]]
      /\ Written
  BY <1>2, SaveWrites DEF RunDue
<1>5. PICK e \in D :
        batch' = batch \cup {[svc |-> s, at |-> now, snap |-> [j \in D |-> disk'[j]],
                              left |-> D \ {e}, cur |-> e, how |-> "timer"]}
  BY <1>2 DEF RunDue
<1>6. ASSUME NEW k \in D
      PROVE  /\ disk'[k] \in JobRecord /\ disk'[k] # None
             /\ disk'[k].claim = <<s, now>> /\ disk'[k].sched = disk[k].sched
             /\ disk'[k].enabled = disk[k].enabled /\ disk'[k].next = disk[k].next
  <2>1. disk[k] \in JobRecord /\ k \in Job
    BY <1>1, <1>3 DEF Store
  <2>2. disk'[k] = [disk[k] EXCEPT !.claim = <<s, now>>]
    BY <1>4, <2>1
  <2>3. /\ disk'[k] \in JobRecord /\ disk'[k].claim = <<s, now>> /\ disk'[k].sched = disk[k].sched
        /\ disk'[k].enabled = disk[k].enabled /\ disk'[k].next = disk[k].next
    BY <1>1, <2>1, <2>2 DEF JobRecord
  <2> QED
    BY <2>3, CronAssumption
<1>7. disk' \in Store /\ \A k \in Job \ D : disk'[k] = disk[k]
  <2>1. \A k \in Job \ D : disk'[k] = disk[k]
    BY <1>4
  <2>2. ASSUME NEW k \in Job  PROVE disk'[k] \in JobRecord \cup {None}
    BY <1>1, <1>6, <2>1 DEF Store
  <2>3. disk' = [k \in Job |-> disk'[k]]
    BY <1>4
  <2> QED
    BY <2>1, <2>2, <2>3 DEF Store
<1>8. PICK f : f = [j \in D |-> disk'[j]]
  OBVIOUS
<1>9. f \in [D -> JobRecord] /\ DOMAIN f = D /\ \A k \in D : f[k] = disk'[k]
  BY <1>6, <1>8
<1>10. PICK c : c = [svc |-> s, at |-> now, snap |-> f, left |-> D \ {e}, cur |-> e, how |-> "timer"]
  OBVIOUS
<1>11. /\ c.svc = s /\ c.at = now /\ c.snap = f /\ c.left = D \ {e} /\ c.cur = e
       /\ c \in BatchRecord(D)
  BY <1>1, <1>3, <1>9, <1>10 DEF BatchRecord
<1>12. IsCall(c) /\ Held(c) = D /\ Claim(c) = <<s, now>>
  BY <1>3, <1>11 DEF IsCall, Held, Claim
<1>13. batch' = batch \cup {c}
  BY <1>5, <1>8, <1>10
<1>14. UNCHANGED <<unused, pending, now, history>>
  BY DEF RunDue
<1>15. c.at <= now
  BY <1>1, <1>11
<1>16. Claims(c)
  BY <1>1, <1>3, <1>4, <1>6, <1>7, <1>9, <1>11, <1>12, <1>13, <1>14, <1>15 DEF Claims
<1> QED
  BY <1>16

LEMMA RunJobClaims ==
  ASSUME BaseInv, NEW s \in Service, NEW j \in Job, NEW force, RunJob(s, j, force)
  PROVE  \E c : Claims(c)
<1>1. disk \in Store /\ now \in Nat /\ s \in Cli /\ disk[j] # None /\ \A b \in batch : b.svc # s
  BY CronAssumption DEF RunJob, Exists, Idle, BaseInv, StoreFine, Counters
<1>2. PICK at \in { t \in 1..now : now - t <= LockWait } :
        /\ ~Fresh(disk[j].claim, at)
        /\ disk' = [disk EXCEPT ![j].claim = <<s, at>>] /\ Written
        /\ batch' = batch \cup {[svc |-> s, at |-> at, snap |-> [k \in {j} |-> disk'[j]],
                                 left |-> {}, cur |-> j, how |-> "manual"]}
  BY SaveWrites DEF RunJob
<1>3. at \in Nat /\ at <= now /\ disk[j] \in JobRecord
  BY <1>1, <1>2 DEF Store
<1>4. PICK n : n = [disk[j] EXCEPT !.claim = <<s, at>>]
  OBVIOUS
<1>5. /\ n \in JobRecord /\ n.claim = <<s, at>> /\ n.sched = disk[j].sched
      /\ n.enabled = disk[j].enabled /\ n.next = disk[j].next
  BY <1>3, <1>4 DEF JobRecord
<1>6. n # None
  BY <1>5, CronAssumption
<1>7. disk' = [disk EXCEPT ![j] = n]
  BY <1>2, <1>4
<1>8. disk' \in Store /\ disk'[j] = n /\ \A k \in Job : k # j => disk'[k] = disk[k]
  BY <1>1, <1>5, <1>7 DEF Store
<1>9. PICK f : f = [k \in {j} |-> disk'[j]]
  OBVIOUS
<1>10. f \in [{j} -> JobRecord] /\ DOMAIN f = {j} /\ f[j] = disk'[j]
  BY <1>5, <1>8, <1>9
<1>11. PICK c : c = [svc |-> s, at |-> at, snap |-> f, left |-> {}, cur |-> j, how |-> "manual"]
  OBVIOUS
<1>12. /\ c.svc = s /\ c.at = at /\ c.snap = f /\ c.left = {} /\ c.cur = j
       /\ c \in BatchRecord({j})
  BY <1>3, <1>10, <1>11 DEF BatchRecord
<1>13. IsCall(c) /\ Held(c) = {j} /\ Claim(c) = <<s, at>>
  BY <1>12 DEF IsCall, Held, Claim
<1>14. batch' = batch \cup {c}
  BY <1>2, <1>9, <1>11
<1>15. UNCHANGED <<unused, pending, now, history>>
  BY DEF RunJob
<1>16. Claims(c)
  BY <1>1, <1>2, <1>3, <1>5, <1>6, <1>8, <1>10, <1>12, <1>13, <1>14, <1>15 DEF Claims
<1> QED
  BY <1>16

LEMMA ClaimsBase ==
  ASSUME BaseInv, NEW c, Claims(c)
  PROVE  StoreFine' /\ CallsFine' /\ OneCommand' /\ LoadsFine'
<1>1. unused' = unused /\ now' = now /\ pending' = pending /\ batch' = batch \cup {c}
  BY DEF Claims
<1>2. PICK D : D = DOMAIN c.snap
  OBVIOUS
<1>3. ASSUME NEW k \in D
      PROVE  /\ disk[k] # None /\ disk'[k] # None /\ c.snap[k] = disk'[k]
             /\ disk'[k].enabled = disk[k].enabled /\ disk'[k].next = disk[k].next
  BY <1>2, <1>3 DEF Claims
<1>4. D \subseteq Job /\ IsCall(c) /\ c.at <= now
  BY <1>2, CallShape DEF Claims
<1>5. ASSUME NEW k \in D  PROVE k \notin unused
  BY <1>3, <1>4 DEF BaseInv, StoreFine, Exists
<1>6. StoreFine'
  <2>1. disk' \in Store /\ \A k \in Job \ D : disk'[k] = disk[k]
    BY <1>2 DEF Claims
  <2>2. ASSUME NEW k \in Job, disk'[k] # None  PROVE k \notin unused
    BY <1>5, <2>1, <2>2 DEF BaseInv, StoreFine, Exists
  <2> QED
    BY <1>1, <2>1, <2>2 DEF StoreFine, Exists
<1>7. CallsFine'
  <2>1. ASSUME NEW b \in batch'
        PROVE  IsCall(b) /\ b.at <= now /\ \A j \in DOMAIN b.snap : j \notin unused
    <3>1. CASE b \in batch
      BY <3>1 DEF BaseInv, CallsFine
    <3>2. CASE b = c
      BY <1>2, <1>3, <1>4, <1>5, <3>2
    <3> QED
      BY <1>1, <3>1, <3>2
  <2> QED
    BY <1>1, <2>1 DEF CallsFine, IsCall
<1>8. OneCommand'
  <2>1. ASSUME NEW b \in batch, b.svc = c.svc, b.svc \in Cli  PROVE FALSE
    BY <2>1, ServiceSets DEF Claims
  <2> QED
    BY <1>1, <2>1 DEF BaseInv, OneCommand
<1>9. disk' # disk
  <2>1. c.cur \in D /\ Claim(c) # None /\ Claim(c)[2] = c.at /\ c.at \in Nat
    BY <1>2, <1>4, CallShape
  <2>2. disk'[c.cur].claim = Claim(c) /\ ~Fresh(disk[c.cur].claim, c.at)
    BY <1>2, <2>1 DEF Claims
  <2>3. Fresh(Claim(c), c.at)
    BY <2>1, CronAssumption DEF Fresh
  <2> QED
    BY <2>2, <2>3
<1>10. LoadsFine'
  BY <1>1, <1>9, LoadsKept DEF Claims
<1> QED
  BY <1>6, <1>7, <1>8, <1>10

LEMMA RunDueBase ==
  ASSUME BaseInv, NEW s \in Service, RunDue(s)
  PROVE  BaseInv'
<1>1. StoreFine' /\ CallsFine' /\ OneCommand' /\ LoadsFine'
  BY RunDueClaims, ClaimsBase
<1>2. Services'
  BY ServicesDown DEF RunDue
<1>3. Counters'
  BY CountersKept, SaveWrites DEF RunDue, history, BaseInv, Counters
<1> QED
  BY <1>1, <1>2, <1>3 DEF BaseInv

LEMMA RunJobBase ==
  ASSUME BaseInv, NEW s \in Service, NEW j \in Job, NEW force, RunJob(s, j, force)
  PROVE  BaseInv'
<1>1. StoreFine' /\ CallsFine' /\ OneCommand' /\ LoadsFine'
  BY RunJobClaims, ClaimsBase
<1>2. Services'
  BY DEF RunJob, BaseInv, Services
<1>3. Counters'
  BY CountersKept, SaveWrites DEF RunJob, history, BaseInv, Counters
<1> QED
  BY <1>1, <1>2, <1>3 DEF BaseInv

\* The end of a callback touches jobs under its own claims: it removes the job
\* or gives the claim back, and writes a result to the job it executed.
Settles(b) ==
  /\ disk' \in Store /\ Written
  /\ \A k \in Job :
       \/ disk'[k] = disk[k]
       \/ /\ k \in DOMAIN b.snap /\ OwnsClaim(disk, b, k)
          /\ disk'[k] # None =>
               /\ disk'[k].claim = None /\ disk'[k].sched = disk[k].sched
               /\ \/ disk'[k].enabled = disk[k].enabled /\ disk'[k].next = disk[k].next
                  \/ k = b.cur /\ (Ran(b, disk'[k]) \/ AsClaimed(b, disk'[k]))
  /\ UNCHANGED <<unused, pending, now, history>>

\* The call goes on with its next job.
GoesOn(b) ==
  /\ Settles(b) /\ \A k \in Job : k # b.cur => disk'[k] = disk[k]
  /\ OwnsClaim(disk, b, b.cur) /\ disk'[b.cur] # None =>
       disk'[b.cur].claim = None /\ Ran(b, disk'[b.cur])
  /\ \E c : /\ IsCall(c) /\ c # b /\ Continues(c, b) /\ Held(c) = b.left
            /\ batch' = (batch \ {b}) \cup {c}

\* The call ends and gives back what it still holds.
Ends(b) ==
  /\ Settles(b) /\ Follows(batch \ {b})
  /\ \A k \in DOMAIN b.snap :
       OwnsClaim(disk, b, k) /\ disk'[k] # None => disk'[k].claim = None

LEMMA CallFacts ==
  ASSUME BaseInv, NEW b \in batch
  PROVE  /\ IsCall(b) /\ disk \in Store /\ now \in Nat
         /\ AfterRun(b.snap[b.cur], now) \in JobRecord
         /\ [b.snap[b.cur] EXCEPT !.status = "cancelled"] \in JobRecord
<1>1. IsCall(b) /\ disk \in Store /\ now \in Nat
  BY CronAssumption DEF BaseInv, CallsFine, StoreFine, Counters
<1>2. b.snap[b.cur] \in JobRecord
  BY <1>1, CallShape
<1>3. AfterRun(b.snap[b.cur], now) \in JobRecord
  BY <1>1, <1>2, AfterRunFacts
<1>4. [b.snap[b.cur] EXCEPT !.status = "cancelled"] \in JobRecord
  BY <1>2 DEF JobRecord, Status
<1> QED
  BY <1>1, <1>3, <1>4

LEMMA FinishJobGoesOn ==
  ASSUME BaseInv, NEW b \in batch, FinishJob(b)
  PROVE  GoesOn(b)
<1>1. /\ IsCall(b) /\ disk \in Store /\ now \in Nat
      /\ AfterRun(b.snap[b.cur], now) \in JobRecord
  BY CallFacts
<1>2. PICK r : r = AfterRun(b.snap[b.cur], now)
  OBVIOUS
<1>3. disk' = PersistResult(disk, b, b.cur, r) /\ Written
  BY <1>2, SaveWrites DEF FinishJob
<1>4. /\ disk' \in Store /\ \A k \in Job : k # b.cur => disk'[k] = disk[k]
      /\ ~OwnsClaim(disk, b, b.cur) => disk' = disk
      /\ OwnsClaim(disk, b, b.cur) /\ disk'[b.cur] # None =>
           /\ disk'[b.cur].claim = None /\ disk'[b.cur].sched = disk[b.cur].sched
           /\ Ran(b, disk'[b.cur])
  BY <1>1, <1>2, <1>3, PersistFacts
<1>5. b.cur \in DOMAIN b.snap /\ UNCHANGED <<unused, pending, now, history>>
  BY <1>1, CallShape DEF FinishJob
<1>6. Settles(b)
  BY <1>3, <1>4, <1>5 DEF Settles
<1>7. PICK e \in b.left : batch' = (batch \ {b}) \cup {[b EXCEPT !.left = @ \ {e}, !.cur = e]}
  BY DEF FinishJob
<1>8. PICK S \in SUBSET Job : b \in BatchRecord(S)
  BY <1>1 DEF IsCall
<1>9. PICK c : c = [b EXCEPT !.left = @ \ {e}, !.cur = e]
  OBVIOUS
<1>10. /\ c \in BatchRecord(S) /\ c.svc = b.svc /\ c.at = b.at /\ c.snap = b.snap
       /\ c.left = b.left \ {e} /\ c.cur = e
  BY <1>7, <1>8, <1>9 DEF BatchRecord
<1>11. IsCall(c) /\ Held(c) = b.left /\ b.left \subseteq Held(b)
  BY <1>7, <1>10 DEF IsCall, Held
<1>12. c # b
  BY <1>1, <1>7, <1>10 DEF IsCall
<1> QED
  BY <1>4, <1>6, <1>7, <1>9, <1>10, <1>11, <1>12 DEF GoesOn, Continues

LEMMA EndsWithResult ==
  ASSUME BaseInv, NEW b \in batch, NEW r \in JobRecord,
         \/ r = AfterRun(b.snap[b.cur], now)
         \/ r = [b.snap[b.cur] EXCEPT !.status = "cancelled"],
         disk' = ReleaseClaims(PersistResult(disk, b, b.cur, r), b), Written,
         ArmTimer(b.svc, batch \ {b}),
         UNCHANGED <<unused, running, pending, now, calls, history>>
  PROVE  Ends(b)
<1>1. IsCall(b) /\ disk \in Store /\ now \in Nat
  BY CallFacts
<1>2. PICK p : p = PersistResult(disk, b, b.cur, r)
  OBVIOUS
<1>3. /\ p \in Store /\ \A k \in Job : k # b.cur => p[k] = disk[k]
      /\ ~OwnsClaim(disk, b, b.cur) => p = disk
      /\ OwnsClaim(disk, b, b.cur) /\ p[b.cur] # None =>
           /\ p[b.cur].claim = None /\ p[b.cur].sched = disk[b.cur].sched
           /\ Ran(b, p[b.cur]) \/ AsClaimed(b, p[b.cur])
  BY <1>1, <1>2, PersistFacts
<1>4. disk' = ReleaseClaims(p, b)
  BY <1>2
<1>5. /\ disk' \in Store
      /\ \A k \in Job :
           /\ ~(k \in DOMAIN b.snap /\ OwnsClaim(p, b, k)) => disk'[k] = p[k]
           /\ k \in DOMAIN b.snap /\ OwnsClaim(p, b, k) =>
                /\ disk'[k] # None /\ disk'[k].claim = None /\ disk'[k].sched = p[k].sched
                /\ disk'[k].enabled = p[k].enabled /\ disk'[k].next = p[k].next
  BY <1>1, <1>3, <1>4, ReleaseFacts
<1>6. b.cur \in DOMAIN b.snap /\ b.cur \in Job /\ DOMAIN b.snap \subseteq Job /\ Claim(b) # None
  BY <1>1, CallShape
<1>7. ASSUME OwnsClaim(disk, b, b.cur)
      PROVE  /\ disk'[b.cur] = p[b.cur]
             /\ p[b.cur] # None => p[b.cur].claim = None /\ p[b.cur].sched = disk[b.cur].sched
                                   /\ (Ran(b, p[b.cur]) \/ AsClaimed(b, p[b.cur]))
  <2>1. ~OwnsClaim(p, b, b.cur)
    BY <1>3, <1>6, <1>7 DEF OwnsClaim
  <2> QED
    BY <1>3, <1>5, <1>6, <1>7, <2>1
<1>8. ASSUME ~OwnsClaim(disk, b, b.cur)
      PROVE  disk'[b.cur] = disk[b.cur]
  BY <1>3, <1>5, <1>6, <1>8
<1>9. ASSUME NEW k \in Job, k # b.cur
      PROVE  /\ ~(k \in DOMAIN b.snap /\ OwnsClaim(disk, b, k)) => disk'[k] = disk[k]
             /\ k \in DOMAIN b.snap /\ OwnsClaim(disk, b, k) =>
                  /\ disk'[k].claim = None /\ disk'[k].sched = disk[k].sched
                  /\ disk'[k].enabled = disk[k].enabled /\ disk'[k].next = disk[k].next
  <2>1. p[k] = disk[k] /\ (OwnsClaim(p, b, k) <=> OwnsClaim(disk, b, k))
    BY <1>3, <1>9 DEF OwnsClaim
  <2> QED
    BY <1>5, <2>1
<1>10. Settles(b)
  BY <1>5, <1>6, <1>7, <1>8, <1>9 DEF Settles
<1>11. Follows(batch \ {b})
  <2>1. PICK bs : bs = batch \ {b}
    OBVIOUS
  <2>2. PICK s : s = b.svc
    OBVIOUS
  <2>3. \A c \in bs : IsCall(c)
    BY <2>1 DEF BaseInv, CallsFine
  <2>4. ArmTimer(s, bs)
    BY <2>1, <2>2
  <2>5. batch' = { IF c.svc = s /\ c.how = "timer" THEN [c EXCEPT !.how = "cancelled"] ELSE c
                   : c \in bs }
    BY ONLY <2>4 DEF ArmTimer
  <2>6. Follows(bs)
    BY ONLY <2>3, <2>5, FollowsCancelled
  <2> QED
    BY <2>1, <2>6
<1> QED
  BY <1>6, <1>7, <1>9, <1>10, <1>11 DEF Ends

LEMMA EndsCases ==
  ASSUME BaseInv, NEW b \in batch, FinishBatch(b) \/ CancelBatch(b)
  PROVE  Ends(b) /\ ArmTimer(b.svc, batch \ {b}) /\ running' = running /\ calls' = calls
<1>1. CASE FinishBatch(b)
  <2>1. PICK r : r = AfterRun(b.snap[b.cur], now)
    OBVIOUS
  <2>2. disk' = ReleaseClaims(PersistResult(disk, b, b.cur, r), b) /\ Written
    BY <1>1, <2>1, SaveWrites DEF FinishBatch
  <2>3. r \in JobRecord
    BY <2>1, CallFacts
  <2> QED
    BY <1>1, <2>1, <2>2, <2>3, EndsWithResult DEF FinishBatch
<1>2. CASE CancelBatch(b)
  <2>1. PICK r : r = [b.snap[b.cur] EXCEPT !.status = "cancelled"]
    OBVIOUS
  <2>2. disk' = ReleaseClaims(PersistResult(disk, b, b.cur, r), b) /\ Written
    BY <1>2, <2>1, SaveWrites DEF CancelBatch
  <2>3. r \in JobRecord
    BY <2>1, CallFacts
  <2> QED
    BY <1>2, <2>1, <2>2, <2>3, EndsWithResult DEF CancelBatch
<1> QED
  BY <1>1, <1>2

LEMMA SettlesStore ==
  ASSUME BaseInv, NEW b \in batch, Settles(b)
  PROVE  StoreFine'
<1>1. disk' \in Store /\ unused' = unused
  BY DEF Settles
<1>2. ASSUME NEW k \in Job, disk'[k] # None  PROVE disk[k] # None
  BY <1>2 DEF Settles, OwnsClaim
<1> QED
  BY <1>1, <1>2 DEF BaseInv, StoreFine, Exists

LEMMA CallbackBase ==
  ASSUME BaseInv, NEW b \in batch, Callback(b)
  PROVE  BaseInv'
<1>1. CASE FinishJob(b)
  <2>1. GoesOn(b)
    BY <1>1, FinishJobGoesOn
  <2>2. StoreFine'
    BY <2>1, SettlesStore DEF GoesOn
  <2>3. UNCHANGED <<unused, now, pending, running, timer, calls, orphan, clobbered, rescheduled>>
    BY <1>1 DEF FinishJob, history
  <2>4. PICK c : /\ IsCall(c) /\ c # b /\ Continues(c, b) /\ Held(c) = b.left
                 /\ batch' = (batch \ {b}) \cup {c}
    BY <2>1 DEF GoesOn
  <2>5. CallsFine'
    <3>1. ASSUME NEW d \in batch'
          PROVE  IsCall(d) /\ d.at <= now /\ \A j \in DOMAIN d.snap : j \notin unused
      <4>1. CASE d \in batch
        BY <4>1 DEF BaseInv, CallsFine
      <4>2. CASE d = c
        BY <2>4, <4>2 DEF BaseInv, CallsFine, Continues
      <4> QED
        BY <2>4, <4>1, <4>2
    <3> QED
      BY <2>3, <3>1 DEF CallsFine, IsCall
  <2>6. OneCommand'
    <3>1. c.svc = b.svc
      BY <2>4 DEF Continues
    <3> QED
      BY <2>4, <3>1 DEF BaseInv, OneCommand
  <2>7. LoadsFine' /\ Counters'
    <3>1. Older
      BY <2>4 DEF Older, Continues
    <3>2. Written /\ rescheduled' \subseteq Job
      BY <2>1, <2>3 DEF GoesOn, Settles, BaseInv, Counters
    <3> QED
      BY <2>3, <3>1, <3>2, LoadsKept, CountersKept
  <2>8. Services'
    BY <2>3 DEF BaseInv, Services
  <2> QED
    BY <2>2, <2>5, <2>6, <2>7, <2>8 DEF BaseInv
<1>2. CASE FinishBatch(b) \/ CancelBatch(b)
  <2>1. Ends(b) /\ ArmTimer(b.svc, batch \ {b}) /\ running' = running /\ calls' = calls
    BY <1>2, EndsCases
  <2>2. StoreFine'
    BY <2>1, SettlesStore DEF Ends
  <2>3. UNCHANGED <<unused, pending, now, orphan, clobbered, rescheduled>> /\ Written
    BY <2>1 DEF Ends, Settles, history
  <2>4. CallsFine' /\ OneCommand'
    BY <2>1, <2>3, CallsFollow DEF Ends
  <2>5. LoadsFine' /\ Counters'
    <3>1. Older /\ rescheduled' \subseteq Job
      BY <2>1, <2>3, FollowsOlder DEF Ends, BaseInv, Counters
    <3> QED
      BY <2>1, <2>3, <3>1, LoadsKept, CountersKept
  <2>6. Services'
    <3>1. b.svc \in Service
      BY CallShape DEF BaseInv, CallsFine
    <3> QED
      BY <2>1, <3>1, ArmedServices DEF ArmTimer
  <2> QED
    BY <2>2, <2>4, <2>5, <2>6 DEF BaseInv
<1> QED
  BY <1>1, <1>2 DEF Callback

LEMMA StutterBase ==
  ASSUME BaseInv, UNCHANGED vars
  PROVE  BaseInv' /\ Edit /\ Follows(batch)
<1>1. UNCHANGED <<disk, overtaken, unused, running, pending, timer, batch, now, calls, orphan, clobbered,
                  rescheduled>>
  BY DEF vars, storeVars, history
<1>2. Edit
  BY <1>1, EditNothing
<1>3. Follows(batch)
  <2>1. \A b \in batch : IsCall(b)
    BY DEF BaseInv, CallsFine
  <2> QED
    BY <1>1, <2>1, FollowsUnchanged
<1>4. StoreFine' /\ CallsFine' /\ OneCommand'
  BY <1>1, <1>2, <1>3, EditStoreFine, CallsFollow
<1>5. LoadsFine' /\ Counters'
  <2>1. Written /\ Older /\ rescheduled' \subseteq Job
    BY <1>1 DEF Written, Older, BaseInv, Counters
  <2> QED
    BY <1>1, <2>1, LoadsKept, CountersKept
<1>6. Services'
  BY <1>1 DEF BaseInv, Services
<1> QED
  BY <1>2, <1>3, <1>4, <1>5, <1>6 DEF BaseInv

LEMMA BaseStep == BaseInv /\ [Next]_vars => BaseInv'
<1> SUFFICES ASSUME BaseInv, [Next]_vars  PROVE BaseInv'
  OBVIOUS
<1>1. CASE \E s \in Service : Process(s)
  <2>1. PICK s \in Service : Process(s)
    BY <1>1
  <2>2. CASE StartLoad(s) \/ StartSave(s) \/ Stop(s) \/ Crash(s) \/ RunDue(s)
    BY <2>2, StartLoadBase, StartSaveBase, StopBase, CrashBase, RunDueBase
  <2>3. CASE \E j \in Job, force \in BOOLEAN : RunJob(s, j, force)
    BY <2>3, RunJobBase
  <2>4. CASE \/ \E j \in Job : RemoveJob(s, j) \/ EnableJob(s, j) \/ DisableJob(s, j)
             \/ \E r \in Request : AddJob(s, r)
    BY <2>4, ApiShapes, ApiBase
  <2> QED
    BY <2>1, <2>2, <2>3, <2>4 DEF Process
<1>2. CASE \E b \in batch : Callback(b)
  BY <1>2, CallbackBase
<1>3. CASE (\E j \in Job : RecordSilentFire(j)) \/ (\E to : NotifyUserActive(to))
  BY <1>3, NoteShapes, NoteBase
<1>4. CASE Tick
  BY <1>4, TickBase
<1>5. CASE UNCHANGED vars
  BY <1>5, StutterBase
<1> QED
  BY <1>1, <1>2, <1>3, <1>4, <1>5 DEF Next

LEMMA BaseAlways == Spec => []BaseInv
BY BaseInit, BaseStep, PTL DEF Spec

\* Whatever the processes do, jobs.json and every job object in memory keep
\* their shape: a claim is an owner and a time together or nothing.
THEOREM CronTyped == Spec => []TypeOK
BY BaseAlways, BaseMeaning, PTL

-----------------------------------------------------------------------------
(* Claims, as long as no start() has overwritten the store. *)

\* A call owns the jobs it has still to execute until its claim runs out.
Owned ==
  \A b \in batch : \A j \in Held(b) :
    disk[j] # None => disk[j].claim = Claim(b) \/ now - b.at >= TTL

Alone ==
  \A b, c \in batch :
    b # c /\ Held(b) \cap Held(c) # {} => ~Fresh(Claim(b), now) \/ ~Fresh(Claim(c), now)

Given ==
  \A j \in Job : disk[j] # None /\ disk[j].claim # None =>
    \/ disk[j].claim \in orphan
    \/ \E b \in batch : Claim(b) = disk[j].claim /\ j \in Held(b)

\* Two calls with one claim, ticks of one process in one instant, took
\* different jobs.
Apart ==
  \A b, c \in batch : b # c /\ Claim(b) = Claim(c) => DOMAIN b.snap \cap Held(c) = {}

\* For that, a job that a tick has executed in this instant is not due again:
\* neither on disk, nor through the result of a call that has claimed it since.
Rested ==
  \A b \in batch : Ticked(b) => \A j \in DOMAIN b.snap \ Held(b) : disk[j] # None =>
    /\ Later(disk[j], now)
    /\ \A c \in batch : j \in Held(c) /\ disk[j].claim = Claim(c) => Later(c.snap[j], now)

\* And an owner's job object has the schedule of the disk, or that one was
\* edited in this instant and is not a one-shot time that has passed.
Linked ==
  \A b, c \in batch : Ticked(b) => \A j \in DOMAIN b.snap :
    disk[j] # None /\ j \in Held(c) /\ disk[j].claim = Claim(c) =>
      disk[j].sched = c.snap[j].sched \/ (disk[j].sched.kind = "at" => disk[j].sched.ms > now)

Orderly == Owned /\ Alone /\ Given /\ Apart /\ Rested /\ Linked

ClaimInv == BaseInv /\ (~clobbered => Orderly)

LEMMA ClaimMeaning == ClaimInv => OneLiveOwner /\ NoLeakedClaim
BY DEF ClaimInv, Orderly, Alone, Given, OneLiveOwner, NoLeakedClaim, Exists

LEMMA ClaimInit == Init => ClaimInv
<1> SUFFICES ASSUME Init  PROVE Orderly
  BY BaseInit DEF ClaimInv
<1>1. batch = {}
  BY DEF Init
<1>2. \A j \in Job : disk[j] # None => disk[j].claim = None
  BY DEF Init, NewJob
<1> QED
  BY <1>1, <1>2 DEF Orderly, Owned, Alone, Given, Apart, Rested, Linked

\* What the parts say of one call, for calls that only the timer has touched.
LEMMA SameView ==
  ASSUME NEW c, NEW d, Same(c, d)
  PROVE  /\ c.svc = d.svc /\ c.at = d.at /\ c.snap = d.snap
         /\ Held(c) = Held(d) /\ Claim(c) = Claim(d)
BY DEF Same, Continues, Claim

\* Edits and the ends of processes.
LEMMA EditOrderly ==
  ASSUME BaseInv, Orderly, Edit, NEW bs, bs \subseteq batch, Follows(bs), now' = now,
         orphan \subseteq orphan', \A b \in batch \ bs : Claim(b) \in orphan'
  PROVE  Orderly'
<1>1. ASSUME NEW d \in batch
      PROVE  /\ IsCall(d) /\ DOMAIN d.snap \subseteq Job /\ Held(d) \subseteq DOMAIN d.snap
             /\ Claim(d) # None /\ \A k \in DOMAIN d.snap : k \notin unused
  BY CallShape DEF BaseInv, CallsFine
<1>2. ASSUME NEW c \in batch'
      PROVE  \E d \in bs : /\ c.svc = d.svc /\ c.at = d.at /\ c.snap = d.snap
                           /\ Held(c) = Held(d) /\ Claim(c) = Claim(d)
  BY SameView DEF Follows
<1>3. ASSUME NEW c \in batch', NEW e \in batch', c # e
      PROVE  \E d, f \in bs : /\ d # f /\ c.snap = d.snap /\ Held(c) = Held(d) /\ Claim(c) = Claim(d)
                              /\ Held(e) = Held(f) /\ Claim(e) = Claim(f)
  <2>1. PICK d \in bs, f \in bs : d # f /\ Same(c, d) /\ Same(e, f)
    BY <1>3 DEF Follows
  <2> QED
    BY <2>1, SameView
<1>4. ASSUME NEW k \in Job, k \notin unused, disk'[k] # None
      PROVE  disk[k] # None /\ Kept(disk[k], disk'[k], now)
  BY <1>4 DEF Edit
<1>5. Owned'
  <2>1. ASSUME NEW c \in batch', NEW j \in Held(c), disk'[j] # None
        PROVE  disk'[j].claim = Claim(c) \/ now - c.at >= TTL
    <3>1. PICK d \in bs : c.at = d.at /\ Held(c) = Held(d) /\ Claim(c) = Claim(d)
      BY <1>2
    <3>2. j \in Job /\ j \notin unused
      BY <1>1, <3>1
    <3>3. disk[j] # None /\ disk'[j].claim = disk[j].claim
      BY <1>4, <2>1, <3>2 DEF Kept
    <3> QED
      BY <3>1, <3>3 DEF Orderly, Owned
  <2> QED
    BY <2>1 DEF Owned, Held, Claim
<1>6. Alone'
  <2>1. ASSUME NEW c \in batch', NEW e \in batch', c # e, Held(c) \cap Held(e) # {}
        PROVE  ~Fresh(Claim(c), now) \/ ~Fresh(Claim(e), now)
    <3>1. PICK d \in bs, f \in bs : /\ d # f /\ Held(c) = Held(d) /\ Claim(c) = Claim(d)
                                    /\ Held(e) = Held(f) /\ Claim(e) = Claim(f)
      BY <1>3, <2>1
    <3>2. ~Fresh(Claim(d), now) \/ ~Fresh(Claim(f), now)
      BY <2>1, <3>1 DEF Orderly, Alone
    <3> QED
      BY <3>1, <3>2
  <2> QED
    BY <2>1 DEF Alone, Held, Claim, Fresh
<1>7. Given'
  <2>1. ASSUME NEW j \in Job, disk'[j] # None, disk'[j].claim # None
        PROVE  \/ disk'[j].claim \in orphan'
               \/ \E b \in batch' : Claim(b) = disk'[j].claim /\ j \in Held(b)
    <3>1. disk[j] # None /\ disk'[j].claim = disk[j].claim
      BY <2>1 DEF Edit, Kept
    <3>2. CASE disk[j].claim \in orphan
      BY <3>1, <3>2
    <3>3. CASE \E b \in batch : Claim(b) = disk[j].claim /\ j \in Held(b)
      <4>1. PICK b \in batch : Claim(b) = disk[j].claim /\ j \in Held(b)
        BY <3>3
      <4>2. CASE b \in bs
        <5>1. PICK c \in batch' : Same(c, b)
          BY <4>2 DEF Follows
        <5> QED
          BY <3>1, <4>1, <5>1, SameView
      <4>3. CASE b \notin bs
        BY <3>1, <4>1, <4>3
      <4> QED
        BY <4>2, <4>3
    <3> QED
      BY <2>1, <3>1, <3>2, <3>3 DEF Orderly, Given
  <2> QED
    BY <2>1 DEF Given, Held, Claim
<1>8. Apart'
  <2>1. ASSUME NEW c \in batch', NEW e \in batch', c # e, Claim(c) = Claim(e)
        PROVE  DOMAIN c.snap \cap Held(e) = {}
    <3>1. PICK d \in bs, f \in bs : /\ d # f /\ c.snap = d.snap /\ Claim(c) = Claim(d)
                                    /\ Held(e) = Held(f) /\ Claim(e) = Claim(f)
      BY <1>3, <2>1
    <3>2. DOMAIN d.snap \cap Held(f) = {}
      BY <2>1, <3>1 DEF Orderly, Apart
    <3> QED
      BY <3>1, <3>2
  <2> QED
    BY <2>1 DEF Apart, Held, Claim
<1>9. Rested'
  <2>1. ASSUME NEW b \in batch', Ticked(b), NEW j \in DOMAIN b.snap \ Held(b), disk'[j] # None
        PROVE  /\ Later(disk'[j], now)
               /\ \A c \in batch' : j \in Held(c) /\ disk'[j].claim = Claim(c) => Later(c.snap[j], now)
    <3>1. PICK d \in bs : b.svc = d.svc /\ b.at = d.at /\ b.snap = d.snap /\ Held(b) = Held(d)
      BY <1>2
    <3>2. Ticked(d) /\ j \in DOMAIN d.snap \ Held(d) /\ j \in Job /\ j \notin unused
      BY <1>1, <2>1, <3>1 DEF Ticked
    <3>3. disk[j] # None /\ Kept(disk[j], disk'[j], now)
      BY <1>4, <2>1, <3>2
    <3>4. /\ Later(disk[j], now)
          /\ \A c \in batch : j \in Held(c) /\ disk[j].claim = Claim(c) => Later(c.snap[j], now)
      BY <3>2, <3>3 DEF Orderly, Rested
    <3>5. ASSUME NEW c \in batch', j \in Held(c), disk'[j].claim = Claim(c)
          PROVE  Later(c.snap[j], now)
      <4>1. PICK e \in bs : c.snap = e.snap /\ Held(c) = Held(e) /\ Claim(c) = Claim(e)
        BY <1>2
      <4>2. e \in batch /\ j \in Held(e) /\ disk[j].claim = Claim(e)
        BY <3>3, <3>5, <4>1 DEF Kept
      <4> QED
        BY <3>4, <4>1, <4>2
    <3> QED
      BY <3>2, <3>3, <3>4, <3>5 DEF Kept
  <2> QED
    BY <2>1 DEF Rested, Ticked, Later, Held, Claim
<1>10. Linked'
  <2>1. ASSUME NEW b \in batch', NEW c \in batch', Ticked(b), NEW j \in DOMAIN b.snap,
               disk'[j] # None, j \in Held(c), disk'[j].claim = Claim(c)
        PROVE  \/ disk'[j].sched = c.snap[j].sched
               \/ disk'[j].sched.kind = "at" => disk'[j].sched.ms > now
    <3>1. PICK d \in bs : b.svc = d.svc /\ b.at = d.at /\ b.snap = d.snap
      BY <1>2
    <3>2. PICK e \in bs : c.snap = e.snap /\ Held(c) = Held(e) /\ Claim(c) = Claim(e)
      BY <1>2
    <3>3. Ticked(d) /\ j \in DOMAIN d.snap /\ j \in Job /\ j \notin unused
      BY <1>1, <2>1, <3>1 DEF Ticked
    <3>4. disk[j] # None /\ Kept(disk[j], disk'[j], now)
      BY <1>4, <2>1, <3>3
    <3>5. \/ disk[j].sched = e.snap[j].sched
          \/ disk[j].sched.kind = "at" => disk[j].sched.ms > now
      BY <2>1, <3>2, <3>3, <3>4 DEF Orderly, Linked, Kept
    <3> QED
      BY <3>2, <3>4, <3>5 DEF Kept
  <2> QED
    BY <2>1 DEF Linked, Ticked, Held, Claim
<1> QED
  BY <1>5, <1>6, <1>7, <1>8, <1>9, <1>10 DEF Orderly

\* The clock moves: claims run out, and no tick is of the new instant.
LEMMA TickOrderly ==
  ASSUME BaseInv, Orderly, Tick
  PROVE  Orderly'
<1>1. /\ now \in Nat /\ now' = now + 1 /\ TTL \in Nat
      /\ UNCHANGED <<disk, unused, batch, orphan>>
  BY CronAssumption DEF Tick, BaseInv, Counters, storeVars, history
<1>2. ASSUME NEW b \in batch
      PROVE  b.at \in Nat /\ b.at <= now /\ Claim(b) # None /\ Claim(b)[2] = b.at
  BY CallShape DEF BaseInv, CallsFine
<1>3. ASSUME NEW b \in batch, Fresh(Claim(b), now + 1)  PROVE Fresh(Claim(b), now)
  BY <1>1, <1>2, <1>3 DEF Fresh
<1>4. ASSUME NEW b \in batch, now - b.at >= TTL  PROVE (now + 1) - b.at >= TTL
  BY <1>1, <1>2, <1>4
<1>5. ASSUME NEW b \in batch  PROVE b.at # now + 1
  BY <1>1, <1>2
<1>6. Owned'
  BY <1>1, <1>4 DEF Orderly, Owned, Held, Claim
<1>7. Alone'
  <2>1. ASSUME NEW b \in batch, NEW c \in batch, b # c, Held(b) \cap Held(c) # {}
        PROVE  ~Fresh(Claim(b), now + 1) \/ ~Fresh(Claim(c), now + 1)
    BY <1>3, <2>1 DEF Orderly, Alone
  <2> QED
    BY <1>1, <2>1 DEF Alone, Held, Claim, Fresh
<1>8. Given' /\ Apart'
  BY <1>1 DEF Orderly, Given, Apart, Held, Claim
<1>9. Rested' /\ Linked'
  BY <1>1, <1>5 DEF Rested, Linked, Ticked
<1> QED
  BY <1>6, <1>7, <1>8, <1>9 DEF Orderly

\* A call takes jobs.  Whoever holds one of them has outlived its claim.
LEMMA ClaimsOrderly ==
  ASSUME BaseInv, Orderly, NEW c, Claims(c)
  PROVE  Orderly'
<1>1. PICK D : D = DOMAIN c.snap
  OBVIOUS
<1>2. /\ IsCall(c) /\ Held(c) = D /\ c.at <= now /\ batch' = batch \cup {c}
      /\ UNCHANGED <<unused, now, orphan>>
  BY <1>1 DEF Claims, history
<1>3. ASSUME NEW k \in D
      PROVE  /\ disk[k] # None /\ disk'[k] # None /\ c.snap[k] = disk'[k]
             /\ disk'[k].claim = Claim(c) /\ disk'[k].sched = disk[k].sched
             /\ disk'[k].enabled = disk[k].enabled /\ disk'[k].next = disk[k].next
             /\ ~Fresh(disk[k].claim, c.at)
  BY <1>1, <1>3 DEF Claims
<1>4. \A k \in Job \ D : disk'[k] = disk[k]
  BY <1>1 DEF Claims
<1>5. \/ c.svc \in Daemon /\ c.at = now /\ \A k \in D : Due(k)
      \/ c.svc \in Cli /\ \A b \in batch : b.svc # c.svc
  BY <1>1 DEF Claims
<1>6. ASSUME NEW b \in batch
      PROVE  /\ IsCall(b) /\ DOMAIN b.snap \subseteq Job /\ Held(b) \subseteq DOMAIN b.snap
             /\ b.at \in Nat /\ Claim(b) # None /\ Claim(b)[1] = b.svc /\ Claim(b)[2] = b.at
  BY CallShape DEF BaseInv, CallsFine
<1>7. c.at \in Nat /\ D \subseteq Job /\ Claim(c)[1] = c.svc /\ Claim(c)[2] = c.at
  BY <1>1, <1>2, CallShape
<1>8. now \in Nat /\ TTL \in Nat \ {0}
  BY CronAssumption DEF BaseInv, Counters
<1>9. ASSUME NEW b \in batch, NEW k \in D, k \in Held(b)
      PROVE  now - b.at >= TTL
  <2>1. b.at \in Nat /\ Claim(b) # None /\ Claim(b)[2] = b.at
    BY <1>6
  <2>2. disk[k].claim = Claim(b) \/ now - b.at >= TTL
    BY <1>3, <1>9 DEF Orderly, Owned
  <2>3. CASE disk[k].claim = Claim(b)
    <3>1. ~(c.at - b.at < TTL)
      BY <1>3, <2>1, <2>3 DEF Fresh
    <3> QED
      BY <1>2, <1>7, <1>8, <2>1, <3>1
  <2> QED
    BY <2>2, <2>3
<1>10. ASSUME NEW b \in batch, now - b.at >= TTL  PROVE ~Fresh(Claim(b), now)
  BY <1>6, <1>8, <1>10 DEF Fresh
<1>11. Owned'
  <2>1. ASSUME NEW b \in batch', NEW j \in Held(b), disk'[j] # None
        PROVE  disk'[j].claim = Claim(b) \/ now - b.at >= TTL
    <3>1. CASE b = c
      BY <1>2, <1>3, <3>1
    <3>2. CASE b \in batch /\ j \in D
      BY <1>9, <3>2
    <3>3. CASE b \in batch /\ j \notin D
      BY <1>4, <1>6, <2>1, <3>3 DEF Orderly, Owned
    <3> QED
      BY <1>2, <3>1, <3>2, <3>3
  <2> QED
    BY <1>2, <2>1 DEF Owned, Held, Claim
<1>12. Alone'
  <2>1. ASSUME NEW b \in batch, Held(b) \cap Held(c) # {}  PROVE ~Fresh(Claim(b), now)
    BY <1>2, <1>9, <1>10, <2>1
  <2>2. ASSUME NEW b \in batch', NEW e \in batch', b # e, Held(b) \cap Held(e) # {}
        PROVE  ~Fresh(Claim(b), now) \/ ~Fresh(Claim(e), now)
    BY <1>2, <2>1, <2>2 DEF Orderly, Alone
  <2> QED
    BY <1>2, <2>2 DEF Alone, Held, Claim, Fresh
<1>13. Given'
  <2>1. ASSUME NEW j \in Job, disk'[j] # None, disk'[j].claim # None
        PROVE  \/ disk'[j].claim \in orphan
               \/ \E b \in batch' : Claim(b) = disk'[j].claim /\ j \in Held(b)
    <3>1. CASE j \in D
      BY <1>2, <1>3, <3>1
    <3>2. CASE j \notin D
      BY <1>2, <1>4, <2>1, <3>2 DEF Orderly, Given
    <3> QED
      BY <3>1, <3>2
  <2> QED
    BY <1>2, <2>1 DEF Given, Held, Claim
<1>14. ASSUME NEW b \in batch, Claim(b) = Claim(c)
       PROVE  DOMAIN b.snap \cap D = {}
  <2>1. b.svc = c.svc /\ b.at = c.at
    BY <1>6, <1>7, <1>14
  <2>2. c.svc \in Daemon /\ c.at = now /\ \A k \in D : Due(k)
    BY <1>5, <2>1
  <2>3. Ticked(b)
    BY <2>1, <2>2 DEF Ticked
  <2>4. ASSUME NEW k \in D, k \in DOMAIN b.snap  PROVE FALSE
    <3>1. CASE k \in Held(b)
      <4>1. now - b.at >= TTL
        BY <1>9, <3>1
      <4> QED
        BY <1>8, <2>1, <2>2, <4>1
    <3>2. CASE k \notin Held(b)
      <4>1. Later(disk[k], now)
        BY <1>3, <2>3, <2>4, <3>2 DEF Orderly, Rested
      <4>2. disk[k].enabled /\ disk[k].next # None /\ disk[k].next <= now
        BY <2>2 DEF Due
      <4>3. disk[k].next \in Nat
        BY <1>3, <1>7, <4>2, RecordShape
      <4> QED
        BY <1>8, <4>1, <4>2, <4>3 DEF Later
    <3> QED
      BY <3>1, <3>2
  <2> QED
    BY <2>4
<1>15. Apart'
  <2>1. ASSUME NEW b \in batch', NEW e \in batch', b # e, Claim(b) = Claim(e)
        PROVE  DOMAIN b.snap \cap Held(e) = {}
    <3>1. CASE b \in batch /\ e \in batch
      BY <2>1, <3>1 DEF Orderly, Apart
    <3>2. CASE b \in batch /\ e = c
      BY <1>2, <1>14, <2>1, <3>2
    <3>3. CASE b = c /\ e \in batch
      BY <1>1, <1>6, <1>14, <2>1, <3>3
    <3> QED
      BY <1>2, <2>1, <3>1, <3>2, <3>3
  <2> QED
    BY <2>1 DEF Apart, Held, Claim
<1>16. ASSUME NEW b \in batch, NEW k \in D, k \in Held(b), Claim(b) = Claim(c)  PROVE FALSE
  BY <1>6, <1>14, <1>16
<1>17. Rested'
  <2>1. ASSUME NEW b \in batch', Ticked(b), NEW j \in DOMAIN b.snap \ Held(b), disk'[j] # None
        PROVE  /\ Later(disk'[j], now)
               /\ \A e \in batch' : j \in Held(e) /\ disk'[j].claim = Claim(e) => Later(e.snap[j], now)
    <3>1. b \in batch /\ j \in Job
      BY <1>1, <1>2, <1>6, <2>1
    <3>2. /\ disk[j] # None /\ disk'[j].sched = disk[j].sched
          /\ disk'[j].enabled = disk[j].enabled /\ disk'[j].next = disk[j].next
      BY <1>3, <1>4, <2>1, <3>1
    <3>3. /\ Later(disk[j], now)
          /\ \A e \in batch : j \in Held(e) /\ disk[j].claim = Claim(e) => Later(e.snap[j], now)
      BY <2>1, <3>1, <3>2 DEF Orderly, Rested
    <3>4. Later(disk'[j], now)
      BY <3>2, <3>3 DEF Later
    <3>5. ASSUME NEW e \in batch', j \in Held(e), disk'[j].claim = Claim(e)
          PROVE  Later(e.snap[j], now)
      <4>1. CASE e = c
        BY <1>2, <1>3, <3>4, <3>5, <4>1
      <4>2. CASE e \in batch /\ j \in D
        BY <1>3, <1>16, <3>5, <4>2
      <4>3. CASE e \in batch /\ j \notin D
        BY <1>4, <3>1, <3>3, <3>5, <4>3
      <4> QED
        BY <1>2, <4>1, <4>2, <4>3
    <3> QED
      BY <3>4, <3>5
  <2> QED
    BY <1>2, <2>1 DEF Rested, Ticked, Later, Held, Claim
<1>18. Linked'
  <2>1. ASSUME NEW b \in batch', NEW e \in batch', Ticked(b), NEW j \in DOMAIN b.snap,
               disk'[j] # None, j \in Held(e), disk'[j].claim = Claim(e)
        PROVE  \/ disk'[j].sched = e.snap[j].sched
               \/ disk'[j].sched.kind = "at" => disk'[j].sched.ms > now
    <3>1. CASE e = c
      BY <1>2, <1>3, <2>1, <3>1
    <3>2. CASE e \in batch /\ j \in D
      BY <1>3, <1>16, <2>1, <3>2
    <3>3. CASE e \in batch /\ j \notin D
      <4>1. b \in batch /\ j \in Job
        BY <1>1, <1>2, <1>6, <2>1, <3>3
      <4>2. disk'[j] = disk[j]
        BY <1>4, <3>3, <4>1
      <4> QED
        BY <2>1, <3>3, <4>1, <4>2 DEF Orderly, Linked
    <3> QED
      BY <1>2, <3>1, <3>2, <3>3
  <2> QED
    BY <1>2, <2>1 DEF Linked, Ticked, Held, Claim
<1> QED
  BY <1>11, <1>12, <1>13, <1>15, <1>17, <1>18 DEF Orderly

\* After the end of a callback of b: a call of the next state, and the one it
\* comes from.  The successor of b has one job less.
Parent(b, c, d) ==
  /\ c.svc = d.svc /\ c.at = d.at /\ c.snap = d.snap /\ Claim(c) = Claim(d)
  /\ Held(c) \subseteq Held(d)
  /\ d # b => Held(c) = Held(d)
  /\ d = b => GoesOn(b) /\ Held(c) = b.left

Descends(b) ==
  /\ \A c \in batch' : \E d \in batch : Parent(b, c, d)
  /\ \A c, e \in batch' : c # e => \E d, f \in batch : d # f /\ Parent(b, c, d) /\ Parent(b, e, f)
  /\ \A d \in batch \ {b} : \E c \in batch' : Claim(c) = Claim(d) /\ Held(c) = Held(d)

LEMMA GoesOnDescends ==
  ASSUME BaseInv, NEW b \in batch, GoesOn(b)
  PROVE  Descends(b) /\ \E c \in batch' : Claim(c) = Claim(b) /\ Held(c) = b.left
<1>1. PICK c : /\ IsCall(c) /\ c # b /\ Continues(c, b) /\ Held(c) = b.left
               /\ batch' = (batch \ {b}) \cup {c}
  BY DEF GoesOn
<1>2. Parent(b, c, b) /\ Claim(c) = Claim(b)
  BY <1>1 DEF Parent, Continues, Claim
<1>3. \A d \in batch \ {b} : Parent(b, d, d)
  BY DEF Parent
<1>4. ASSUME NEW e \in batch', NEW g \in batch', e # g
      PROVE  \E d, f \in batch : d # f /\ Parent(b, e, d) /\ Parent(b, g, f)
  <2>1. CASE e = c
    BY <1>1, <1>2, <1>3, <1>4, <2>1
  <2>2. CASE g = c
    BY <1>1, <1>2, <1>3, <1>4, <2>2
  <2>3. CASE e # c /\ g # c
    BY <1>1, <1>3, <1>4, <2>3
  <2> QED
    BY <2>1, <2>2, <2>3
<1> QED
  BY <1>1, <1>2, <1>3, <1>4 DEF Descends

LEMMA EndsDescends ==
  ASSUME BaseInv, NEW b \in batch, Ends(b)
  PROVE  Descends(b)
<1>1. Follows(batch \ {b})
  BY DEF Ends
<1>2. ASSUME NEW c, NEW d \in batch \ {b}, Same(c, d)  PROVE Parent(b, c, d)
  BY <1>2, SameView DEF Parent
<1>3. \A c \in batch' : \E d \in batch : Parent(b, c, d)
  BY <1>1, <1>2 DEF Follows
<1>4. ASSUME NEW c \in batch', NEW e \in batch', c # e
      PROVE  \E d, f \in batch : d # f /\ Parent(b, c, d) /\ Parent(b, e, f)
  BY <1>1, <1>2, <1>4 DEF Follows
<1>5. ASSUME NEW d \in batch \ {b}
      PROVE  \E c \in batch' : Claim(c) = Claim(d) /\ Held(c) = Held(d)
  <2>1. PICK c \in batch' : Same(c, d)
    BY <1>1 DEF Follows
  <2> QED
    BY <2>1, SameView
<1> QED
  BY <1>3, <1>4, <1>5 DEF Descends

LEMMA CallbackOrderly ==
  ASSUME BaseInv, Orderly, NEW b \in batch, Descends(b),
         GoesOn(b) \/ Ends(b)
  PROVE  Orderly'
<1>1. Settles(b) /\ UNCHANGED <<unused, now, orphan>>
  BY DEF GoesOn, Ends, Settles, history
<1>2. ASSUME NEW d \in batch
      PROVE  /\ IsCall(d) /\ DOMAIN d.snap \subseteq Job /\ Held(d) \subseteq DOMAIN d.snap
             /\ d.at \in Nat /\ Claim(d) # None /\ d.cur \notin d.left /\ d.cur \in Held(d)
             /\ Held(d) = d.left \cup {d.cur}
  BY CallShape DEF BaseInv, CallsFine, Held
<1>3. now \in Nat /\ TTL \in Nat \ {0}
  BY CronAssumption DEF BaseInv, Counters
<1>4. ASSUME NEW k \in Job
      PROVE  \/ disk'[k] = disk[k]
             \/ /\ k \in DOMAIN b.snap /\ disk[k] # None /\ disk[k].claim = Claim(b)
                /\ disk'[k] # None =>
                     /\ disk'[k].claim = None /\ disk'[k].sched = disk[k].sched
                     /\ \/ disk'[k].enabled = disk[k].enabled /\ disk'[k].next = disk[k].next
                        \/ k = b.cur /\ (Ran(b, disk'[k]) \/ AsClaimed(b, disk'[k]))
  BY <1>1 DEF Settles, OwnsClaim
<1>5. ASSUME NEW c \in batch'  PROVE \E d \in batch : Parent(b, c, d)
  BY DEF Descends
<1>6. ASSUME NEW c \in batch', NEW d \in batch, Parent(b, c, d), NEW k \in Held(c), disk'[k] # disk[k]
      PROVE  disk[k].claim = Claim(b) /\ Claim(d) # Claim(b)
  <2>1. k \in Held(d) /\ k \in Job
    BY <1>2, <1>6 DEF Parent
  <2>2. k \in DOMAIN b.snap /\ disk[k].claim = Claim(b)
    BY <1>4, <1>6, <2>1
  <2>3. CASE d = b
    <3>1. GoesOn(b) /\ k \in b.left
      BY <1>6, <2>3 DEF Parent
    <3>2. k = b.cur
      BY <1>6, <2>1, <3>1 DEF GoesOn
    <3> QED
      BY <1>2, <3>1, <3>2
  <2>4. CASE d # b
    BY <2>1, <2>2, <2>4 DEF Orderly, Apart
  <2> QED
    BY <2>2, <2>3, <2>4
<1>7. Owned'
  <2>1. ASSUME NEW c \in batch', NEW j \in Held(c), disk'[j] # None
        PROVE  disk'[j].claim = Claim(c) \/ now - c.at >= TTL
    <3>1. PICK d \in batch : Parent(b, c, d)
      BY <1>5
    <3>2. j \in Held(d) /\ j \in Job /\ Claim(c) = Claim(d) /\ c.at = d.at
      BY <1>2, <3>1 DEF Parent
    <3>3. disk[j] # None
      BY <1>4, <2>1, <3>2
    <3>4. disk[j].claim = Claim(d) \/ now - d.at >= TTL
      BY <3>2, <3>3 DEF Orderly, Owned
    <3> QED
      BY <1>6, <3>1, <3>2, <3>4
  <2> QED
    BY <1>1, <2>1 DEF Owned, Held, Claim
<1>8. Alone'
  <2>1. ASSUME NEW c \in batch', NEW e \in batch', c # e, Held(c) \cap Held(e) # {}
        PROVE  ~Fresh(Claim(c), now) \/ ~Fresh(Claim(e), now)
    <3>1. PICK d \in batch, f \in batch : d # f /\ Parent(b, c, d) /\ Parent(b, e, f)
      BY <2>1 DEF Descends
    <3>2. /\ Claim(c) = Claim(d) /\ Claim(e) = Claim(f)
          /\ Held(c) \subseteq Held(d) /\ Held(e) \subseteq Held(f)
      BY <3>1 DEF Parent
    <3>3. Held(d) \cap Held(f) # {}
      BY <2>1, <3>2
    <3>4. ~Fresh(Claim(d), now) \/ ~Fresh(Claim(f), now)
      BY <3>1, <3>3 DEF Orderly, Alone
    <3> QED
      BY <3>2, <3>4
  <2> QED
    BY <1>1, <2>1 DEF Alone, Held, Claim, Fresh
<1>9. Given'
  <2>1. ASSUME NEW j \in Job, disk'[j] # None, disk'[j].claim # None
        PROVE  \/ disk'[j].claim \in orphan
               \/ \E c \in batch' : Claim(c) = disk'[j].claim /\ j \in Held(c)
    <3>1. disk'[j] = disk[j]
      BY <1>4, <2>1
    <3>2. CASE disk[j].claim \in orphan
      BY <3>1, <3>2
    <3>3. CASE \E d \in batch : Claim(d) = disk[j].claim /\ j \in Held(d)
      <4>1. PICK d \in batch : Claim(d) = disk[j].claim /\ j \in Held(d)
        BY <3>3
      <4>2. CASE d # b
        <5>1. PICK c \in batch' : Claim(c) = Claim(d) /\ Held(c) = Held(d)
          BY <4>2 DEF Descends
        <5> QED
          BY <3>1, <4>1, <5>1
      <4>3. CASE d = b
        <5>1. OwnsClaim(disk, b, j) /\ j \in DOMAIN b.snap
          BY <1>2, <2>1, <3>1, <4>1, <4>3 DEF OwnsClaim
        <5>2. GoesOn(b)
          BY <2>1, <5>1 DEF Ends
        <5>3. j # b.cur
          BY <2>1, <5>1, <5>2 DEF GoesOn
        <5>4. PICK c \in batch' : Claim(c) = Claim(b) /\ Held(c) = b.left
          BY <5>2, GoesOnDescends
        <5> QED
          BY <1>2, <3>1, <4>1, <4>3, <5>3, <5>4
      <4> QED
        BY <4>2, <4>3
    <3> QED
      BY <2>1, <3>1, <3>2, <3>3 DEF Orderly, Given
  <2> QED
    BY <1>1, <2>1 DEF Given, Held, Claim
<1>10. Apart'
  <2>1. ASSUME NEW c \in batch', NEW e \in batch', c # e, Claim(c) = Claim(e)
        PROVE  DOMAIN c.snap \cap Held(e) = {}
    <3>1. PICK d \in batch, f \in batch : d # f /\ Parent(b, c, d) /\ Parent(b, e, f)
      BY <2>1 DEF Descends
    <3>2. c.snap = d.snap /\ Claim(c) = Claim(d) /\ Claim(e) = Claim(f) /\ Held(e) \subseteq Held(f)
      BY <3>1 DEF Parent
    <3>3. DOMAIN d.snap \cap Held(f) = {}
      BY <2>1, <3>1, <3>2 DEF Orderly, Apart
    <3> QED
      BY <3>2, <3>3
  <2> QED
    BY <2>1 DEF Apart, Held, Claim
<1>11. ASSUME NEW k \in Job, disk'[k] # None, NEW c \in batch', NEW d \in batch, Parent(b, c, d),
              disk'[k].claim = Claim(c)
       PROVE  disk'[k] = disk[k] /\ disk[k].claim = Claim(d)
  <2>1. Claim(c) # None /\ Claim(c) = Claim(d)
    BY <1>2, <1>11 DEF Parent
  <2> QED
    BY <1>4, <1>11, <2>1
\* A job that a tick of this instant has executed, by now or in this step
<1>12. ASSUME NEW f \in batch, Ticked(f), NEW k \in DOMAIN f.snap, disk'[k] # None,
              k \notin Held(f) \/ (f = b /\ k = b.cur /\ GoesOn(b))
       PROVE  Later(disk'[k], now)
  <2>1. k \in Job /\ b.cur \in Held(b)
    BY <1>2
  <2>2. disk[k] # None
    BY <1>4, <1>12, <2>1
  <2>3. ASSUME k = b.cur, disk[k].claim = Claim(b)
        PROVE  \/ disk[k].sched = b.snap[k].sched
               \/ disk[k].sched.kind = "at" => disk[k].sched.ms > now
    BY <1>12, <2>1, <2>2, <2>3 DEF Orderly, Linked
  <2>4. CASE k \notin Held(f)
    <3>1. /\ Later(disk[k], now)
          /\ k = b.cur /\ disk[k].claim = Claim(b) => Later(b.snap[k], now)
      BY <1>12, <2>1, <2>2, <2>4 DEF Orderly, Rested
    <3>2. CASE disk'[k] = disk[k]
      BY <3>1, <3>2
    <3>3. CASE /\ disk'[k].sched = disk[k].sched
               /\ disk'[k].enabled = disk[k].enabled /\ disk'[k].next = disk[k].next
      BY <3>1, <3>3 DEF Later
    <3>4. CASE /\ k = b.cur /\ disk[k].claim = Claim(b) /\ disk'[k].sched = disk[k].sched
               /\ Ran(b, disk'[k])
      BY <2>3, <3>4 DEF Later, Ran
    <3>5. CASE /\ k = b.cur /\ disk[k].claim = Claim(b) /\ disk'[k].sched = disk[k].sched
               /\ AsClaimed(b, disk'[k])
      BY <2>3, <3>1, <3>5 DEF Later, AsClaimed
    <3> QED
      BY <1>4, <1>12, <2>1, <3>2, <3>3, <3>4, <3>5
  <2>5. CASE f = b /\ k = b.cur /\ GoesOn(b)
    <3>1. disk[k].claim = Claim(b)
      <4>1. disk[k].claim = Claim(b) \/ now - b.at >= TTL
        BY <2>1, <2>2, <2>5 DEF Orderly, Owned
      <4>2. ~(now - b.at >= TTL)
        BY <1>3, <1>12, <2>5 DEF Ticked
      <4> QED
        BY <4>1, <4>2
    <3>2. disk'[k].claim = None /\ Ran(b, disk'[k])
      BY <1>12, <2>2, <2>5, <3>1 DEF GoesOn, OwnsClaim
    <3>3. disk'[k].sched = disk[k].sched
      BY <1>4, <1>12, <2>1
    <3> QED
      BY <2>3, <2>5, <3>1, <3>2, <3>3 DEF Later, Ran
  <2> QED
    BY <1>12, <2>4, <2>5
<1>13. Rested'
  <2>1. ASSUME NEW e \in batch', Ticked(e), NEW j \in DOMAIN e.snap \ Held(e), disk'[j] # None
        PROVE  /\ Later(disk'[j], now)
               /\ \A c \in batch' : j \in Held(c) /\ disk'[j].claim = Claim(c) => Later(c.snap[j], now)
    <3>1. PICK f \in batch : Parent(b, e, f)
      BY <1>5
    <3>2. /\ Ticked(f) /\ j \in DOMAIN f.snap /\ j \in Job
          /\ j \notin Held(f) \/ (f = b /\ j = b.cur /\ GoesOn(b))
      BY <1>2, <2>1, <3>1 DEF Parent, Ticked
    <3>3. ASSUME NEW c \in batch', j \in Held(c), disk'[j].claim = Claim(c)
          PROVE  Later(c.snap[j], now)
      <4>1. PICK d \in batch : Parent(b, c, d)
        BY <1>5
      <4>2. disk'[j] = disk[j] /\ disk[j].claim = Claim(d) /\ j \in Held(d) /\ c.snap = d.snap
        BY <1>11, <2>1, <3>2, <3>3, <4>1 DEF Parent
      <4>3. CASE j \notin Held(f)
        BY <2>1, <3>2, <4>2, <4>3 DEF Orderly, Rested
      <4>4. CASE f = b /\ j = b.cur /\ GoesOn(b)
        <5>1. disk[j].claim = Claim(b)
          <6>1. disk[j].claim = Claim(b) \/ now - b.at >= TTL
            BY <1>2, <2>1, <4>2, <4>4 DEF Orderly, Owned
          <6>2. ~(now - b.at >= TTL)
            BY <1>3, <3>2, <4>4 DEF Ticked
          <6> QED
            BY <6>1, <6>2
        <5>2. disk'[j].claim = None
          BY <2>1, <4>2, <4>4, <5>1 DEF GoesOn, OwnsClaim
        <5> QED
          BY <1>2, <4>2, <5>1, <5>2
      <4> QED
        BY <3>2, <4>3, <4>4
    <3> QED
      BY <1>12, <2>1, <3>2, <3>3
  <2> QED
    BY <1>1, <2>1 DEF Rested, Ticked, Later, Held, Claim
<1>14. Linked'
  <2>1. ASSUME NEW e \in batch', NEW c \in batch', Ticked(e), NEW j \in DOMAIN e.snap,
               disk'[j] # None, j \in Held(c), disk'[j].claim = Claim(c)
        PROVE  \/ disk'[j].sched = c.snap[j].sched
               \/ disk'[j].sched.kind = "at" => disk'[j].sched.ms > now
    <3>1. PICK f \in batch : Parent(b, e, f)
      BY <1>5
    <3>2. PICK d \in batch : Parent(b, c, d)
      BY <1>5
    <3>3. Ticked(f) /\ j \in DOMAIN f.snap /\ j \in Job /\ j \in Held(d) /\ c.snap = d.snap
      BY <1>2, <2>1, <3>1, <3>2 DEF Parent, Ticked
    <3>4. disk'[j] = disk[j] /\ disk[j].claim = Claim(d)
      BY <1>11, <2>1, <3>2, <3>3
    <3> QED
      BY <2>1, <3>3, <3>4 DEF Orderly, Linked
  <2> QED
    BY <1>1, <2>1 DEF Linked, Ticked, Held, Claim
<1> QED
  BY <1>7, <1>8, <1>9, <1>10, <1>13, <1>14 DEF Orderly

\* The kinds of steps.
LEMMA StepKinds ==
  ASSUME BaseInv, [Next]_vars
  PROVE  \/ Tick
         \/ clobbered' = clobbered /\ \E c : Claims(c)
         \/ clobbered' = clobbered /\ \E b \in batch : Descends(b) /\ (GoesOn(b) \/ Ends(b))
         \/ /\ now' = now /\ (clobbered => clobbered') /\ (~clobbered' => Edit)
            /\ rescheduled \subseteq rescheduled'
            /\ \E bs : /\ bs \subseteq batch /\ Follows(bs) /\ orphan \subseteq orphan'
                       /\ \A b \in batch \ bs : Claim(b) \in orphan'
<1> DEFINE Edits == /\ now' = now /\ (clobbered => clobbered') /\ (~clobbered' => Edit)
                    /\ rescheduled \subseteq rescheduled'
                    /\ \E bs : /\ bs \subseteq batch /\ Follows(bs) /\ orphan \subseteq orphan'
                               /\ \A b \in batch \ bs : Claim(b) \in orphan'
<1>1. ASSUME Follows(batch), now' = now, orphan' = orphan, clobbered => clobbered',
             ~clobbered' => Edit, rescheduled \subseteq rescheduled'
      PROVE  Edits
  <2>1. batch \subseteq batch /\ \A b \in batch \ batch : Claim(b) \in orphan'
    OBVIOUS
  <2> QED
    BY <1>1, <2>1
<1>2. CASE \E s \in Service : Process(s)
  <2>1. PICK s \in Service : Process(s)
    BY <1>2
  <2>2. CASE StartLoad(s)
    BY <1>1, <2>2, StartLoadBase DEF StartLoad, history
  <2>3. CASE StartSave(s)
    BY <1>1, <2>3, StartSaveBase DEF StartSave
  <2>4. CASE Stop(s)
    BY <1>1, <2>4, StopBase DEF Stop, history
  <2>5. CASE Crash(s)
    <3>1. PICK bs : bs = { b \in batch : b.svc # s }
      OBVIOUS
    <3>2. Edit /\ Follows(bs)
      BY <2>5, <3>1, CrashBase
    <3>3. bs \subseteq batch /\ orphan \subseteq orphan' /\ \A b \in batch \ bs : Claim(b) \in orphan'
      BY <2>5, <3>1 DEF Crash
    <3>4. now' = now /\ clobbered' = clobbered /\ rescheduled' = rescheduled
      BY <2>5 DEF Crash
    <3> QED
      BY <3>2, <3>3, <3>4
  <2>6. CASE RunDue(s)
    BY <2>6, RunDueClaims DEF RunDue, history
  <2>7. CASE \E j \in Job, force \in BOOLEAN : RunJob(s, j, force)
    BY <2>7, RunJobClaims DEF RunJob, history
  <2>8. CASE \/ \E j \in Job : RemoveJob(s, j) \/ EnableJob(s, j) \/ DisableJob(s, j)
             \/ \E r \in Request : AddJob(s, r)
    BY <1>1, <2>8, ApiShapes, ApiBase DEF ApiShape
  <2> QED
    BY <2>1, <2>2, <2>3, <2>4, <2>5, <2>6, <2>7, <2>8 DEF Process
<1>3. CASE \E b \in batch : Callback(b)
  <2>1. PICK b \in batch : Callback(b)
    BY <1>3
  <2>2. CASE FinishJob(b)
    BY <2>2, FinishJobGoesOn, GoesOnDescends DEF FinishJob, history
  <2>3. CASE FinishBatch(b) \/ CancelBatch(b)
    BY <2>3, EndsCases, EndsDescends DEF FinishBatch, CancelBatch, history
  <2> QED
    BY <2>1, <2>2, <2>3 DEF Callback
<1>4. CASE (\E j \in Job : RecordSilentFire(j)) \/ (\E to : NotifyUserActive(to))
  BY <1>1, <1>4, NoteShapes, NoteBase DEF NoteShape
<1>5. CASE UNCHANGED vars
  BY <1>1, <1>5, StutterBase DEF vars, history
<1> QED
  BY <1>2, <1>3, <1>4, <1>5 DEF Next

LEMMA ClaimStep == ClaimInv /\ [Next]_vars => ClaimInv'
<1> SUFFICES ASSUME ClaimInv, [Next]_vars, ~clobbered'  PROVE Orderly'
  BY BaseStep DEF ClaimInv
<1>1. BaseInv
  BY DEF ClaimInv
<1>2. CASE Tick
  BY <1>1, <1>2, TickOrderly DEF ClaimInv, Tick, history
<1>3. CASE clobbered' = clobbered /\ \E c : Claims(c)
  BY <1>1, <1>3, ClaimsOrderly DEF ClaimInv
<1>4. CASE clobbered' = clobbered /\ \E b \in batch : Descends(b) /\ (GoesOn(b) \/ Ends(b))
  BY <1>1, <1>4, CallbackOrderly DEF ClaimInv
<1>5. CASE /\ now' = now /\ (clobbered => clobbered') /\ (~clobbered' => Edit)
           /\ rescheduled \subseteq rescheduled'
           /\ \E bs : /\ bs \subseteq batch /\ Follows(bs) /\ orphan \subseteq orphan'
                      /\ \A b \in batch \ bs : Claim(b) \in orphan'
  BY <1>1, <1>5, EditOrderly DEF ClaimInv
<1> QED
  BY <1>1, <1>2, <1>3, <1>4, <1>5, StepKinds

LEMMA ClaimAlways == Spec => []ClaimInv
BY ClaimInit, ClaimStep, PTL DEF Spec

\* However processes interleave, stop and die: two calls execute, or are about
\* to execute, one job only when one of them has outlived its claim.
THEOREM LiveOwnerIsAlone == Spec => []OneLiveOwner
BY ClaimAlways, ClaimMeaning, PTL

\* A claim on disk belongs to a call that will still execute the job or to a
\* process that died: every exit of run_due and run_job gives claims back.
THEOREM ClaimsGivenBack == Spec => []NoLeakedClaim
BY ClaimAlways, ClaimMeaning, PTL

\* A claim changes hands only with the end of its call, after its time to live
\* or with its job; a late result under a lost claim changes nothing.
THEOREM ForeignClaimsStay == Spec => ForeignClaimsKept
<1>1. ASSUME ClaimInv, [Next]_vars, NEW j \in Job, Exists(j), disk[j].claim # None,
             disk'[j] # None, disk'[j].claim # disk[j].claim, ~clobbered'
      PROVE  \/ \E b \in batch \ batch' : Claim(b) = disk[j].claim
             \/ ~Fresh(disk[j].claim, now)
  <2>1. BaseInv /\ disk[j] # None
    BY <1>1 DEF ClaimInv, Exists
  <2>2. CASE Tick
    BY <1>1, <2>2 DEF Tick, storeVars
  <2>3. CASE \E c : Claims(c)
    <3>1. PICK c : Claims(c)
      BY <2>3
    <3>2. c.at <= now /\ c.at \in Nat /\ j \in DOMAIN c.snap /\ ~Fresh(disk[j].claim, c.at)
      BY <1>1, <3>1, CallShape DEF Claims
    <3>3. disk[j].claim[2] \in Nat
      <4>1. disk[j] \in JobRecord
        BY <2>1, RecordShape
      <4>2. disk[j].claim \in Service \X Nat
        BY <1>1, <4>1 DEF JobRecord
      <4> QED
        BY <4>2
    <3>4. now \in Nat /\ TTL \in Nat
      BY <2>1, CronAssumption DEF BaseInv, Counters
    <3> QED
      BY <1>1, <3>2, <3>3, <3>4 DEF Fresh
  <2>4. CASE clobbered' = clobbered /\ \E b \in batch : Descends(b) /\ (GoesOn(b) \/ Ends(b))
    <3>1. PICK b \in batch : GoesOn(b) \/ Ends(b)
      BY <2>4
    <3>2. Orderly
      BY <1>1, <2>4 DEF ClaimInv
    <3>3. Claim(b) = disk[j].claim
      BY <1>1, <3>1 DEF GoesOn, Ends, Settles, OwnsClaim
    <3>4. CASE GoesOn(b)
      BY <3>3, <3>4 DEF GoesOn
    <3>5. CASE Ends(b)
      <4>1. ASSUME b \in batch'  PROVE FALSE
        <5>1. PICK d \in batch \ {b} : Same(b, d)
          BY <3>5, <4>1 DEF Ends, Follows
        <5>2. Claim(b) = Claim(d) /\ Held(b) = Held(d)
          BY <5>1, SameView
        <5>3. b.cur \in DOMAIN b.snap /\ b.cur \in Held(b)
          BY <2>1, CallShape DEF BaseInv, CallsFine
        <5> QED
          BY <3>2, <5>1, <5>2, <5>3 DEF Orderly, Apart
      <4> QED
        BY <3>3, <4>1
    <3> QED
      BY <3>1, <3>4, <3>5
  <2>5. CASE ~clobbered' => Edit
    <3>1. Edit /\ j \notin unused
      BY <1>1, <2>1, <2>5, RecordShape
    <3> QED
      BY <1>1, <3>1 DEF Edit, Kept
  <2> QED
    BY <1>1, <2>1, <2>2, <2>3, <2>4, <2>5, StepKinds
<1>2. ClaimInv /\ [Next]_vars =>
        [\A j \in Job :
           Exists(j) /\ disk[j].claim # None /\ disk'[j] # None /\ disk'[j].claim # disk[j].claim
           => \/ clobbered'
              \/ \E b \in batch \ batch' : Claim(b) = disk[j].claim
              \/ ~Fresh(disk[j].claim, now)]_vars
  BY <1>1
<1> QED
  BY <1>2, ClaimAlways, PTL DEF Spec, ForeignClaimsKept

-----------------------------------------------------------------------------
(* Jobs without a next run. *)

\* A job that no add_job has rescheduled during a run is enabled without a next
\* run only when its calendar has ended.  The same is true of the job object of
\* the call that owns it, which may be written back, and has its schedule.
Sound ==
  \A j \in Job \ rescheduled : disk[j] # None =>
    /\ Lasting(disk[j], now)
    /\ \A b \in batch : j \in Held(b) /\ disk[j].claim = Claim(b) =>
         b.snap[j].sched = disk[j].sched /\ Lasting(b.snap[j], now)

StallInv == ClaimInv /\ (~clobbered => Sound)

LEMMA StallMeaning == StallInv => OnlyEndedStall
BY DEF StallInv, Sound, OnlyEndedStall, Lasting, Ended, Exists

LEMMA StallInit == Init => StallInv
<1> SUFFICES ASSUME Init  PROVE Sound
  BY ClaimInit DEF StallInv
<1>1. batch = {}
  BY DEF Init
<1>2. ASSUME NEW j \in Job, disk[j] # None  PROVE disk[j].next # None
  <2>1. j \in DOMAIN Initial /\ disk[j] = NewJob(Initial[j], 1)
    BY <1>2 DEF Init
  <2>2. NextRun(Initial[j].sched, 1) # None
    BY <2>1, CronAssumption
  <2> QED
    BY <2>1, <2>2 DEF NewJob
<1> QED
  BY <1>1, <1>2 DEF Sound, Lasting

\* A calendar that has ended does not start again.
LEMMA TickSound ==
  ASSUME BaseInv, Sound, Tick
  PROVE  Sound'
<1>1. now \in Nat /\ now' = now + 1 /\ UNCHANGED <<disk, batch, rescheduled>>
  BY CronAssumption DEF Tick, BaseInv, Counters, storeVars, history
<1>2. ASSUME NEW n \in JobRecord, Lasting(n, now)  PROVE Lasting(n, now + 1)
  <2>1. n.sched \in Schedules
    BY DEF JobRecord, Schedules
  <2>2. Ended(n.sched, now) => Ended(n.sched, now + 1)
    BY <1>1, <2>1, NextRunFacts
  <2> QED
    BY <1>2, <2>2 DEF Lasting
<1>3. ASSUME NEW j \in Job \ rescheduled, disk[j] # None
      PROVE  /\ Lasting(disk[j], now + 1)
             /\ \A b \in batch : j \in Held(b) /\ disk[j].claim = Claim(b) =>
                  b.snap[j].sched = disk[j].sched /\ Lasting(b.snap[j], now + 1)
  <2>1. disk[j] \in JobRecord
    BY <1>3, RecordShape
  <2>2. ASSUME NEW b \in batch, j \in Held(b), disk[j].claim = Claim(b)
        PROVE  b.snap[j].sched = disk[j].sched /\ Lasting(b.snap[j], now + 1)
    <3>1. b.snap[j] \in JobRecord
      BY <2>2, CallShape DEF BaseInv, CallsFine
    <3> QED
      BY <1>2, <1>3, <2>2, <3>1 DEF Sound
  <2>3. Lasting(disk[j], now)
    BY <1>3 DEF Sound
  <2> QED
    BY <1>2, <2>1, <2>2, <2>3
<1>4. ASSUME NEW j \in Job \ rescheduled', disk'[j] # None
      PROVE  /\ Lasting(disk'[j], now')
             /\ \A b \in batch' : j \in Held(b) /\ disk'[j].claim = Claim(b) =>
                  b.snap[j].sched = disk'[j].sched /\ Lasting(b.snap[j], now')
  BY <1>1, <1>3, <1>4
<1> QED
  BY <1>4 DEF Sound, Lasting, Ended, Held, Claim

LEMMA EditSound ==
  ASSUME BaseInv, Sound, Edit, NEW bs, bs \subseteq batch, Follows(bs), now' = now,
         rescheduled \subseteq rescheduled'
  PROVE  Sound'
<1>1. ASSUME NEW j \in Job \ rescheduled', disk'[j] # None, NEW c \in batch', j \in Held(c),
             disk'[j].claim = Claim(c)
      PROVE  c.snap[j].sched = disk'[j].sched /\ Lasting(c.snap[j], now)
  <2>1. PICK d \in bs : c.snap = d.snap /\ Held(c) = Held(d) /\ Claim(c) = Claim(d)
    BY SameView DEF Follows
  <2>2. d \in batch /\ j \in Held(d) /\ j \notin unused
    BY <1>1, <2>1, CallShape DEF BaseInv, CallsFine
  <2>3. /\ disk[j] # None /\ Kept(disk[j], disk'[j], now)
        /\ disk'[j].sched = disk[j].sched \/ ~Executing(j) \/ j \in rescheduled'
    BY <1>1, <2>2 DEF Edit
  <2>4. disk'[j].sched = disk[j].sched /\ disk[j].claim = Claim(d)
    BY <1>1, <2>1, <2>2, <2>3 DEF Executing, Kept
  <2> QED
    BY <1>1, <2>1, <2>2, <2>3, <2>4 DEF Sound
<1>2. ASSUME NEW j \in Job \ rescheduled', disk'[j] # None  PROVE Lasting(disk'[j], now)
  <2>1. CASE disk'[j].next # None
    BY <2>1 DEF Lasting
  <2>2. CASE disk[j] # None /\ Kept(disk[j], disk'[j], now)
    BY <1>2, <2>2 DEF Kept, Sound
  <2> QED
    BY <1>2, <2>1, <2>2 DEF Edit
<1>3. ASSUME NEW j \in Job \ rescheduled', disk'[j] # None
      PROVE  /\ Lasting(disk'[j], now')
             /\ \A b \in batch' : j \in Held(b) /\ disk'[j].claim = Claim(b) =>
                  b.snap[j].sched = disk'[j].sched /\ Lasting(b.snap[j], now')
  BY <1>1, <1>2, <1>3
<1> QED
  BY <1>3 DEF Sound, Lasting, Ended, Held, Claim

\* The job objects of a new call are what it found on disk.
LEMMA ClaimsSound ==
  ASSUME BaseInv, Sound, Orderly', NEW c, Claims(c)
  PROVE  Sound'
<1>1. PICK D : D = DOMAIN c.snap
  OBVIOUS
<1>2. /\ IsCall(c) /\ Held(c) = D /\ batch' = batch \cup {c} /\ now' = now
      /\ rescheduled' = rescheduled /\ \A k \in Job \ D : disk'[k] = disk[k]
  BY <1>1 DEF Claims, history
<1>3. ASSUME NEW k \in D
      PROVE  /\ disk[k] # None /\ disk'[k] # None /\ c.snap[k] = disk'[k]
             /\ disk'[k].claim = Claim(c) /\ disk'[k].sched = disk[k].sched
             /\ disk'[k].enabled = disk[k].enabled /\ disk'[k].next = disk[k].next
  BY <1>1, <1>3 DEF Claims
<1>4. ASSUME NEW b \in batch', b # c, NEW k \in D, k \in Held(b), Claim(b) = Claim(c)
      PROVE  FALSE
  <2>1. b \in batch
    BY <1>2, <1>4
  <2>2. k \in DOMAIN b.snap
    BY <1>4, <2>1, CallShape DEF BaseInv, CallsFine
  <2>3. c \in batch'
    BY <1>2
  <2>4. \A e, f \in batch' : e # f /\ Claim(e) = Claim(f) => DOMAIN e.snap \cap Held(f) = {}
    BY DEF Orderly, Apart, Claim, Held
  <2> QED
    BY <1>2, <1>4, <2>2, <2>3, <2>4
<1>5. ASSUME NEW j \in Job \ rescheduled, disk'[j] # None  PROVE Lasting(disk'[j], now)
  <2>1. CASE j \in D
    BY <1>3, <1>5, <2>1 DEF Sound, Lasting
  <2>2. CASE j \notin D
    BY <1>2, <1>5, <2>2 DEF Sound
  <2> QED
    BY <2>1, <2>2
<1>6. ASSUME NEW j \in Job \ rescheduled, disk'[j] # None, NEW b \in batch', j \in Held(b),
             disk'[j].claim = Claim(b)
      PROVE  b.snap[j].sched = disk'[j].sched /\ Lasting(b.snap[j], now)
  <2>1. CASE j \in D
    <3>1. b = c
      BY <1>3, <1>4, <1>6, <2>1
    <3> QED
      BY <1>3, <1>5, <1>6, <2>1, <3>1
  <2>2. CASE j \notin D
    BY <1>2, <1>6, <2>2 DEF Sound
  <2> QED
    BY <2>1, <2>2
<1>7. ASSUME NEW j \in Job \ rescheduled', disk'[j] # None
      PROVE  /\ Lasting(disk'[j], now')
             /\ \A b \in batch' : j \in Held(b) /\ disk'[j].claim = Claim(b) =>
                  b.snap[j].sched = disk'[j].sched /\ Lasting(b.snap[j], now')
  BY <1>2, <1>5, <1>6, <1>7
<1> QED
  BY <1>7 DEF Sound, Lasting, Ended, Held, Claim

\* A result brings the next run of the schedule that the job still has.
LEMMA CallbackSound ==
  ASSUME BaseInv, Sound, NEW b \in batch, Descends(b), GoesOn(b) \/ Ends(b)
  PROVE  Sound'
<1>1. Settles(b) /\ UNCHANGED <<unused, now, rescheduled>>
  BY DEF GoesOn, Ends, Settles, history
<1>2. ASSUME NEW d \in batch
      PROVE  Held(d) \subseteq Job /\ Claim(d) # None /\ d.cur \in Held(d)
  BY CallShape DEF BaseInv, CallsFine
<1>3. ASSUME NEW k \in Job
      PROVE  \/ disk'[k] = disk[k]
             \/ /\ disk[k] # None /\ disk[k].claim = Claim(b)
                /\ disk'[k] # None =>
                     /\ disk'[k].claim = None /\ disk'[k].sched = disk[k].sched
                     /\ \/ disk'[k].enabled = disk[k].enabled /\ disk'[k].next = disk[k].next
                        \/ k = b.cur /\ (Ran(b, disk'[k]) \/ AsClaimed(b, disk'[k]))
  BY <1>1 DEF Settles, OwnsClaim
<1>4. ASSUME NEW j \in Job \ rescheduled, disk'[j] # None  PROVE Lasting(disk'[j], now)
  <2>1. disk[j] # None
    BY <1>3, <1>4
  <2>2. Lasting(disk[j], now)
    BY <1>4, <2>1 DEF Sound
  <2>3. CASE disk'[j] = disk[j]
    BY <2>2, <2>3
  <2>4. CASE /\ disk'[j].sched = disk[j].sched
             /\ disk'[j].enabled = disk[j].enabled /\ disk'[j].next = disk[j].next
    BY <2>2, <2>4 DEF Lasting
  <2>5. CASE /\ j = b.cur /\ disk[j].claim = Claim(b) /\ disk'[j].sched = disk[j].sched
             /\ Ran(b, disk'[j]) \/ AsClaimed(b, disk'[j])
    <3>1. b.snap[j].sched = disk[j].sched /\ Lasting(b.snap[j], now)
      BY <1>2, <1>4, <2>1, <2>5 DEF Sound
    <3>2. CASE Ran(b, disk'[j])
      BY <2>5, <3>1, <3>2 DEF Ran, Lasting
    <3>3. CASE AsClaimed(b, disk'[j])
      BY <2>5, <3>1, <3>3 DEF AsClaimed, Lasting
    <3> QED
      BY <2>5, <3>2, <3>3
  <2> QED
    BY <1>3, <1>4, <2>3, <2>4, <2>5
<1>5. ASSUME NEW j \in Job \ rescheduled, disk'[j] # None, NEW c \in batch', j \in Held(c),
             disk'[j].claim = Claim(c)
      PROVE  c.snap[j].sched = disk'[j].sched /\ Lasting(c.snap[j], now)
  <2>1. PICK d \in batch : Parent(b, c, d)
    BY DEF Descends
  <2>2. Claim(c) = Claim(d) /\ Claim(d) # None /\ j \in Held(d) /\ c.snap = d.snap
    BY <1>2, <1>5, <2>1 DEF Parent
  <2>3. disk'[j] = disk[j]
    BY <1>3, <1>5, <2>2
  <2> QED
    BY <1>5, <2>2, <2>3 DEF Sound
<1>6. ASSUME NEW j \in Job \ rescheduled', disk'[j] # None
      PROVE  /\ Lasting(disk'[j], now')
             /\ \A c \in batch' : j \in Held(c) /\ disk'[j].claim = Claim(c) =>
                  c.snap[j].sched = disk'[j].sched /\ Lasting(c.snap[j], now')
  BY <1>1, <1>4, <1>5, <1>6
<1> QED
  BY <1>6 DEF Sound, Lasting, Ended, Held, Claim

LEMMA StallStep == StallInv /\ [Next]_vars => StallInv'
<1> SUFFICES ASSUME StallInv, [Next]_vars, ~clobbered'  PROVE Sound'
  BY ClaimStep DEF StallInv
<1>1. BaseInv /\ Orderly'
  BY ClaimStep DEF StallInv, ClaimInv
<1>2. CASE Tick
  BY <1>1, <1>2, TickSound DEF StallInv, Tick, history
<1>3. CASE clobbered' = clobbered /\ \E c : Claims(c)
  BY <1>1, <1>3, ClaimsSound DEF StallInv
<1>4. CASE clobbered' = clobbered /\ \E b \in batch : Descends(b) /\ (GoesOn(b) \/ Ends(b))
  BY <1>1, <1>4, CallbackSound DEF StallInv
<1>5. CASE /\ now' = now /\ (clobbered => clobbered') /\ (~clobbered' => Edit)
           /\ rescheduled \subseteq rescheduled'
           /\ \E bs : /\ bs \subseteq batch /\ Follows(bs) /\ orphan \subseteq orphan'
                      /\ \A b \in batch \ bs : Claim(b) \in orphan'
  BY <1>1, <1>5, EditSound DEF StallInv
<1> QED
  BY <1>1, <1>2, <1>3, <1>4, <1>5, StepKinds

\* Results, edits and restarts never leave a job enabled that will not fire
\* again, unless its calendar has ended, or add_job gave it another schedule
\* while it was executed.
THEOREM OnlyEndedCalendarsStall == Spec => []OnlyEndedStall
<1>1. Spec => []StallInv
  BY StallInit, StallStep, PTL DEF Spec
<1> QED
  BY <1>1, StallMeaning, PTL
=============================================================================
