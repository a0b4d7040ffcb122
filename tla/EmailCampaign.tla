---------------------------- MODULE EmailCampaign ----------------------------
(***************************************************************************)
(* Recommendation e-mail campaigns (src/src/recommendation/                *)
(* recommendation.service.ts): an administrator queues a job row, and a    *)
(* poller that fires every 30 seconds claims the oldest pending job and    *)
(* mails its users one by one.                                             *)
(*                                                                         *)
(* A poll is not cut short by the next one, and every server process polls:*)
(* a worker below is one invocation of the poller, and several run at once.*)
(* One action is one awaited write or send with the reads that lead up to  *)
(* it.  The clock is not modelled: stale says that startedAt is more than  *)
(* six hours old.                                                          *)
(***************************************************************************)
EXTENDS Naturals, FiniteSets

CONSTANTS
  Jobs,        \* job ids, numbered in the order of their creation
  Users,       \* users that may be mailed
  Verified,    \* those whose e-mail address is verified at first
  Workers,     \* invocations of the poller that may run at once
  FlushEvery,  \* users between two saves of the progress (25 in the code)
  MaxCrashes,  \* bound on the invocations that die
  None

ASSUME CampaignAssumption ==
  /\ Jobs \subseteq Nat /\ IsFiniteSet(Users) /\ Verified \subseteq Users
  /\ FlushEvery \in Nat \ {0} /\ MaxCrashes \in Nat
  /\ None \notin Jobs

VARIABLES
  job,       \* email_campaign_jobs
  verified,  \* users whose e-mail address is verified
  worker,    \* what each invocation holds
  crashes,
  audience,  \* history: users to mail, as they were when the job was queued
  handled    \* history: users mailed, failed or skipped for a job

cvars == <<job, verified, worker, crashes, audience, handled>>

EmailCampaignStatus == {"NONE", "PENDING", "PROCESSING", "COMPLETED", "FAILED"}
Counts == 0..Cardinality(Users)

EmailCampaignJob ==
  [status : EmailCampaignStatus, userIds : SUBSET Users, stale : BOOLEAN,
   totalUsers : Counts, emailsSent : Counts, emailsFailed : Counts]

NoJob == [status |-> "NONE", userIds |-> {}, stale |-> FALSE,
          totalUsers |-> 0, emailsSent |-> 0, emailsFailed |-> 0]

\* row is the job entity in memory, left the users the loop has not reached,
\* users how many it started with, since how many were done since the last save.
Invocation ==
  [step : {"idle", "pick", "claim", "load", "loop", "flush", "failed"},
   job : Jobs \cup {None}, row : EmailCampaignJob, left : SUBSET Users,
   users : Counts, sent : Counts, failed : Counts, since : 0..FlushEvery]

Idle == [step |-> "idle", job |-> None, row |-> NoJob, left |-> {},
         users |-> 0, sent |-> 0, failed |-> 0, since |-> 0]

TypeOK ==
  /\ job \in [Jobs -> EmailCampaignJob]
  /\ verified \subseteq Users
  /\ worker \in [Workers -> Invocation]
  /\ crashes \in 0..MaxCrashes
  /\ audience \in [Jobs -> SUBSET Users] /\ handled \in [Jobs -> SUBSET Users]

Init ==
  /\ job = [j \in Jobs |-> NoJob]
  /\ verified = Verified
  /\ worker = [w \in Workers |-> Idle]
  /\ crashes = 0
  /\ audience = [j \in Jobs |-> {}] /\ handled = [j \in Jobs |-> {}]

(***************************************************************************)
(* Queueing: everybody (all users) or the users listed.                    *)
(***************************************************************************)
SendRecommendationEmails(targets) ==
  LET reached == targets \cap verified IN
  /\ targets = Users \/ reached # {}
  /\ \E j \in Jobs :
       /\ job[j].status = "NONE"
       /\ \A i \in Jobs : i < j => job[i].status # "NONE"
       /\ job' = [job EXCEPT ![j] = [NoJob EXCEPT !.status = "PENDING", !.userIds = targets,
                                                  !.totalUsers = Cardinality(reached)]]
       /\ audience' = [audience EXCEPT ![j] = reached]
  /\ UNCHANGED <<verified, worker, crashes, handled>>

(***************************************************************************)
(* The poller.                                                             *)
(***************************************************************************)
Goto(w, v) == worker' = [worker EXCEPT ![w] = v]
Finish(w) == Goto(w, Idle)

\* Faulty variant: jobs of a dead worker are not taken back.
RecoverNothing(w) ==
  /\ worker[w].step = "idle"
  /\ Goto(w, [Idle EXCEPT !.step = "pick"])
  /\ UNCHANGED <<job, verified, crashes, audience, handled>>

\* A tick: jobs that have been PROCESSING for too long are pending again.
RecoverStaleJobs(w) ==
  /\ worker[w].step = "idle"
  /\ job' = [j \in Jobs |->
               IF job[j].status = "PROCESSING" /\ job[j].stale
               THEN [job[j] EXCEPT !.status = "PENDING", !.stale = FALSE] ELSE job[j]]
  /\ Goto(w, [Idle EXCEPT !.step = "pick"])
  /\ UNCHANGED <<verified, crashes, audience, handled>>

\* The claim is UPDATE ... WHERE id = (SELECT the oldest pending id): the
\* database evaluates the subquery, then locks and writes the row of that id,
\* which another claim may have written in between.
PickJob(w) ==
  LET pending == {j \in Jobs : job[j].status = "PENDING"} IN
  /\ worker[w].step = "pick"
  /\ \/ pending = {} /\ Finish(w)
     \/ \E j \in pending :
          /\ \A i \in pending : j <= i
          /\ Goto(w, [worker[w] EXCEPT !.step = "claim", !.job = j])
  /\ UNCHANGED <<job, verified, crashes, audience, handled>>

ClaimJob(w) ==
  LET v == worker[w] IN
  /\ v.step = "claim"
  /\ job' = [job EXCEPT ![v.job].status = "PROCESSING", ![v.job].stale = FALSE]
  /\ Goto(w, [v EXCEPT !.step = "load"])
  /\ UNCHANGED <<verified, crashes, audience, handled>>

\* The loop of worker w on the row it loaded, for the users in left.
Loop(w, left) ==
  [worker[w] EXCEPT !.step = "loop", !.row = job[worker[w].job], !.left = left,
                    !.users = Cardinality(left)]

\* Faulty variant: a job that was taken back goes on after as many users as
\* had been mailed.
LoadJobAfterSent(w) ==
  LET v == worker[w]
      users == job[v.job].userIds \cap verified IN
  /\ v.step = "load"
  /\ \E done \in SUBSET users :
       /\ Cardinality(done) = job[v.job].emailsSent
       /\ Goto(w, Loop(w, users \ done))
  /\ UNCHANGED <<job, verified, crashes, audience, handled>>

\* Faulty variant: the counts go on from those saved before.
LoadJobAndCounts(w) ==
  LET v == worker[w] IN
  /\ v.step = "load"
  /\ Goto(w, [Loop(w, job[v.job].userIds \cap verified) EXCEPT
                !.sent = job[v.job].emailsSent, !.failed = job[v.job].emailsFailed])
  /\ UNCHANGED <<job, verified, crashes, audience, handled>>

\* The claimed row, its verified users, and the movies to recommend.
LoadJob(w) ==
  LET v == worker[w] IN
  /\ v.step = "load"
  /\ Goto(w, Loop(w, job[v.job].userIds \cap verified))
  /\ UNCHANGED <<job, verified, crashes, audience, handled>>

(***************************************************************************)
(* The loop over the users.                                                *)
(***************************************************************************)
\* No profile, or nothing to recommend: the user is passed over by a continue,
\* which also passes over the count towards the next save.
SkipUser(w, u) ==
  LET v == worker[w] IN
  /\ v.step = "loop" /\ u \in v.left
  /\ Goto(w, [v EXCEPT !.left = @ \ {u}])
  /\ handled' = [handled EXCEPT ![v.job] = @ \cup {u}]
  /\ UNCHANGED <<job, verified, crashes, audience>>

\* The mail was sent, or it or what precedes it failed.
MailUser(w, u, sent) ==
  LET v == worker[w] IN
  /\ v.step = "loop" /\ u \in v.left
  /\ Goto(w, [v EXCEPT !.left = @ \ {u}, !.since = @ + 1,
                       !.sent = IF sent THEN @ + 1 ELSE @,
                       !.failed = IF sent THEN @ ELSE @ + 1,
                       !.step = IF v.since + 1 >= FlushEvery THEN "flush" ELSE "loop"])
  /\ handled' = [handled EXCEPT ![v.job] = @ \cup {u}]
  /\ UNCHANGED <<job, verified, crashes, audience>>

\* The entity as edited for a save of the progress, and for the last save.
InProgress(v) ==
  [v.row EXCEPT !.emailsSent = v.sent, !.emailsFailed = v.failed, !.stale = FALSE]
Completed(v) ==
  [v.row EXCEPT !.status = "COMPLETED", !.totalUsers = v.users,
                !.emailsSent = v.sent, !.emailsFailed = v.failed]

\* Faulty variant: the users since the last save are not counted anew.
FlushWithoutReset(w) ==
  LET v == worker[w] IN
  /\ v.step = "flush"
  /\ job' = [job EXCEPT ![v.job] = InProgress(v)]
  /\ Goto(w, [v EXCEPT !.step = "loop", !.row = InProgress(v)])
  /\ UNCHANGED <<verified, crashes, audience, handled>>

\* save(job) writes every column of the entity, status included.
FlushProgress(w) ==
  LET v == worker[w] IN
  /\ v.step = "flush"
  /\ job' = [job EXCEPT ![v.job] = InProgress(v)]
  /\ Goto(w, [v EXCEPT !.step = "loop", !.row = InProgress(v), !.since = 0])
  /\ UNCHANGED <<verified, crashes, audience, handled>>

CompleteJob(w) ==
  LET v == worker[w] IN
  /\ v.step = "loop" /\ v.left = {}
  /\ job' = [job EXCEPT ![v.job] = Completed(v)]
  /\ Finish(w)
  /\ UNCHANGED <<verified, crashes, audience, handled>>

\* A database call outside the loop's own try fails, a save among them: the
\* job is marked FAILED in the entity as it was edited by then.
CatchError(w) ==
  LET v == worker[w] IN
  /\ v.step \in {"loop", "flush"}
  /\ crashes < MaxCrashes /\ crashes' = crashes + 1
  /\ Goto(w, [v EXCEPT !.step = "failed",
                       !.row = CASE v.step = "flush" -> InProgress(v)
                                 [] v.step = "loop" /\ v.left = {} -> Completed(v)
                                 [] OTHER -> v.row])
  /\ UNCHANGED <<job, verified, audience, handled>>

FailJob(w) ==
  LET v == worker[w] IN
  /\ v.step = "failed"
  /\ job' = [job EXCEPT ![v.job] = [v.row EXCEPT !.status = "FAILED"]]
  /\ Finish(w)
  /\ UNCHANGED <<verified, crashes, audience, handled>>

(***************************************************************************)
(* The world.                                                              *)
(***************************************************************************)
\* The invocation dies: its process stops, or an error escapes it.
Crash(w) ==
  /\ worker[w].step # "idle"
  /\ crashes < MaxCrashes /\ crashes' = crashes + 1
  /\ Finish(w)
  /\ UNCHANGED <<job, verified, audience, handled>>

\* Six hours pass since startedAt, with or without a worker on the job.
Age(j) ==
  /\ job[j].status = "PROCESSING" /\ ~job[j].stale
  /\ job' = [job EXCEPT ![j].stale = TRUE]
  /\ UNCHANGED <<verified, worker, crashes, audience, handled>>

VerifyEmail(u) ==
  /\ u \notin verified
  /\ verified' = verified \cup {u}
  /\ UNCHANGED <<job, worker, crashes, audience, handled>>

\* A step of worker w on the job it has, errors aside.
Work(w) ==
  \/ PickJob(w) \/ ClaimJob(w) \/ LoadJob(w)
  \/ \E u \in Users : SkipUser(w, u) \/ \E sent \in BOOLEAN : MailUser(w, u, sent)
  \/ FlushProgress(w) \/ CompleteJob(w) \/ FailJob(w)

Next ==
  \/ \E targets \in SUBSET Users : SendRecommendationEmails(targets)
  \/ \E w \in Workers : RecoverStaleJobs(w) \/ Work(w) \/ CatchError(w) \/ Crash(w)
  \/ \E j \in Jobs : Age(j)
  \/ \E u \in Users : VerifyEmail(u)

\* The poller keeps firing, an invocation that does not die goes on, and time
\* passes.  Nothing is assumed of administrators, users or failures.
Fairness ==
  /\ \A w \in Workers : WF_cvars(RecoverStaleJobs(w)) /\ WF_cvars(Work(w))
  /\ \A j \in Jobs : WF_cvars(Age(j))

Spec == Init /\ [][Next]_cvars
FairSpec == Spec /\ Fairness

(***************************************************************************)
(* Properties.                                                             *)
(***************************************************************************)
\* A job is COMPLETED only when everybody who was to be mailed when it was
\* queued has been mailed, tried or skipped, whichever workers died or
\* overlapped on it and whatever progress they had saved.
CompletedCoversAudience ==
  \A j \in Jobs : job[j].status = "COMPLETED" => audience[j] \subseteq handled[j]

\* The counts of a job are those of one pass over its users: a pass that takes
\* a job over, or overlaps with another on it, never adds to what was counted.
CountsOfOnePass ==
  \A j \in Jobs :
    job[j].emailsSent + job[j].emailsFailed <= Cardinality(job[j].userIds \cap verified)

\* Every queued job is completed or failed in the end: the one a dead worker
\* left behind is taken back and finished by another.
EveryJobEnds ==
  \A j \in Jobs : job[j].status = "PENDING" ~> job[j].status \in {"COMPLETED", "FAILED"}
==============================================================================
