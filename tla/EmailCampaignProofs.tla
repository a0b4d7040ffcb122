-------------------------- MODULE EmailCampaignProofs --------------------------
(***************************************************************************)
(* The campaigns for any number of jobs, users, pollers and failures: a    *)
(* completed job has covered its audience, and its counts are those of one *)
(* pass, whichever workers died or overlapped.                             *)
(***************************************************************************)
EXTENDS EmailCampaign, FiniteSetTheorems, TLAPS

(***************************************************************************)
(* The inductive invariant.                                                *)
(***************************************************************************)
\* The counts of a row, in the table or in memory, are those of one pass.
CountsOK(row) == row.emailsSent + row.emailsFailed <= Cardinality(row.userIds \cap verified)

Covered(j) == audience[j] \subseteq handled[j]

JobOK(j) ==
  /\ CountsOK(job[j])
  /\ audience[j] \subseteq job[j].userIds \cap verified
  /\ job[j].status = "COMPLETED" => Covered(j)

\* What an invocation holds, at each step.  It may have loaded a row that
\* another one had completed by then, and then saves it as COMPLETED again.
InvocationOK(v) ==
  /\ v.step \notin {"idle", "pick"} => v.job \in Jobs /\ job[v.job].status # "NONE"
  /\ v.step \in {"idle", "pick", "claim", "load"} => v.sent = 0 /\ v.failed = 0 /\ v.since = 0
  /\ v.step = "loop" => v.since < FlushEvery
  /\ v.step \in {"loop", "flush"} =>
       /\ v.sent + v.failed + Cardinality(v.left) <= v.users
       /\ v.users <= Cardinality(v.row.userIds \cap verified)
       /\ audience[v.job] \subseteq handled[v.job] \cup v.left
       /\ v.row.status = "COMPLETED" => Covered(v.job)
  /\ v.step \in {"loop", "flush", "failed"} =>
       /\ v.row.status # "NONE" /\ v.row.userIds = job[v.job].userIds
       /\ CountsOK(v.row)

CInv ==
  /\ TypeOK
  /\ \A j \in Jobs : JobOK(j)
  /\ \A w \in Workers : InvocationOK(worker[w])

(***************************************************************************)
(* Counting.                                                               *)
(***************************************************************************)
LEMMA Counted ==
  /\ Cardinality({}) = 0 /\ Cardinality(Users) \in Nat /\ Counts \subseteq Nat
  /\ \A S \in SUBSET Users : IsFiniteSet(S) /\ Cardinality(S) \in Counts
  /\ \A S, T \in SUBSET Users : S \subseteq T => Cardinality(S) <= Cardinality(T)
  /\ \A S \in SUBSET Users, u \in Users : u \in S => Cardinality(S \ {u}) + 1 = Cardinality(S)
<1>1. IsFiniteSet(Users) /\ Cardinality(Users) \in Nat
  BY CampaignAssumption, FS_CardinalityType
<1>2. \A S \in SUBSET Users : IsFiniteSet(S) /\ Cardinality(S) \in Nat
                              /\ Cardinality(S) <= Cardinality(Users)
  BY <1>1, FS_Subset, FS_CardinalityType
<1>3. \A S, T \in SUBSET Users : S \subseteq T => Cardinality(S) <= Cardinality(T)
  BY <1>2, FS_Subset
<1>4. \A S \in SUBSET Users, u \in Users : u \in S => Cardinality(S \ {u}) + 1 = Cardinality(S)
  BY <1>2, FS_RemoveElement
<1>5. Cardinality({}) = 0
  BY FS_EmptySet
<1> QED BY <1>1, <1>2, <1>3, <1>4, <1>5 DEF Counts

(***************************************************************************)
(* How the tables evolve: a queued job stays queued, with its users and    *)
(* its audience; what was handled or verified stays so.                    *)
(***************************************************************************)
Evolves ==
  /\ \A j \in Jobs : job[j].status # "NONE" =>
       /\ job'[j].status # "NONE" /\ job'[j].userIds = job[j].userIds
       /\ audience'[j] = audience[j]
  /\ \A j \in Jobs : handled[j] \subseteq handled'[j]
  /\ verified \subseteq verified'

LEMMA InvocationStays ==
  ASSUME CInv, TypeOK', Evolves, NEW v \in Invocation, InvocationOK(v)
  PROVE  InvocationOK(v)'
<1>1. v.row \in EmailCampaignJob /\ v.users \in Nat /\ v.sent \in Nat /\ v.failed \in Nat
  BY Counted DEF Invocation
<1>2. v.row.userIds \in SUBSET Users /\ v.row.emailsSent \in Nat /\ v.row.emailsFailed \in Nat
  BY <1>1, Counted DEF EmailCampaignJob
<1> DEFINE before == Cardinality(v.row.userIds \cap verified)
           after == Cardinality(v.row.userIds \cap verified')
<1>3. before \in Nat /\ after \in Nat /\ before <= after
  <2>1. /\ v.row.userIds \cap verified \in SUBSET Users
        /\ v.row.userIds \cap verified' \in SUBSET Users
        /\ v.row.userIds \cap verified \subseteq v.row.userIds \cap verified'
    BY <1>2 DEF Evolves
  <2> QED BY <2>1, Counted
<1> HIDE DEF before, after
<1>4. CountsOK(v.row) => CountsOK(v.row)'
  <2>1. CountsOK(v.row) => v.row.emailsSent + v.row.emailsFailed <= after
    BY <1>2, <1>3 DEF CountsOK, before
  <2> QED BY <2>1 DEF CountsOK, after
<1>5. v.users <= before => v.users <= after
  BY <1>1, <1>3
<1>6. v.step \in {"loop", "flush"} =>
        /\ audience'[v.job] \subseteq handled'[v.job] \cup v.left
        /\ v.row.status = "COMPLETED" => audience'[v.job] \subseteq handled'[v.job]
  BY DEF Evolves, InvocationOK, Covered
<1> QED BY <1>4, <1>5, <1>6 DEF InvocationOK, Evolves, Covered, before, after

\* A step of worker w, after which it holds v.
LEMMA StepKeeps ==
  ASSUME CInv, NEW w \in Workers, NEW v \in Invocation, worker' = [worker EXCEPT ![w] = v],
         TypeOK', Evolves, InvocationOK(v)', \A j \in Jobs : JobOK(j)'
  PROVE  CInv'
<1>1. ASSUME NEW u \in Workers PROVE InvocationOK(worker[u])'
  <2>1. CASE u = w
    <3>1. worker'[u] = v
      BY <2>1 DEF CInv, TypeOK
    <3> QED BY <3>1 DEF InvocationOK
  <2>2. CASE u # w
    <3>1. PICK x \in Invocation : x = worker[u]
      BY DEF CInv, TypeOK
    <3>2. InvocationOK(x)'
      BY <3>1, InvocationStays DEF CInv
    <3>3. worker'[u] = x
      BY <2>2, <3>1 DEF CInv, TypeOK
    <3> QED BY <3>2, <3>3 DEF InvocationOK
  <2> QED BY <2>1, <2>2
<1> QED BY <1>1 DEF CInv

\* A step that leaves the workers alone.
LEMMA WorldKeeps ==
  ASSUME CInv, TypeOK', Evolves, UNCHANGED worker, \A j \in Jobs : JobOK(j)'
  PROVE  CInv'
<1>1. ASSUME NEW u \in Workers PROVE InvocationOK(worker[u])'
  <2>1. PICK x \in Invocation : x = worker[u]
    BY DEF CInv, TypeOK
  <2>2. InvocationOK(x)'
    BY <2>1, InvocationStays DEF CInv
  <2> QED BY <2>1, <2>2 DEF InvocationOK
<1> QED BY <1>1 DEF CInv

(***************************************************************************)
(* What steps do to the tables.                                            *)
(***************************************************************************)
LEMMA TablesStay ==
  ASSUME CInv, UNCHANGED <<job, verified, audience, handled>>
  PROVE  Evolves /\ \A j \in Jobs : JobOK(j)'
BY DEF CInv, Evolves, JobOK, Covered, CountsOK

\* One row is saved.
LEMMA RowSaved ==
  ASSUME CInv, NEW i \in Jobs, NEW row \in EmailCampaignJob, job' = [job EXCEPT ![i] = row],
         job[i].status # "NONE" => row.status # "NONE", row.userIds = job[i].userIds,
         CountsOK(row), row.status = "COMPLETED" => Covered(i),
         UNCHANGED <<verified, audience, handled>>
  PROVE  job' \in [Jobs -> EmailCampaignJob] /\ Evolves /\ \A j \in Jobs : JobOK(j)'
<1>1. /\ job' \in [Jobs -> EmailCampaignJob] /\ job'[i] = row
      /\ \A j \in Jobs \ {i} : job'[j] = job[j]
  BY DEF CInv, TypeOK
<1>2. Evolves
  BY <1>1 DEF Evolves
<1>3. ASSUME NEW j \in Jobs PROVE JobOK(j)'
  <2>1. CASE j = i
    BY <1>1, <2>1 DEF CInv, JobOK, Covered, CountsOK
  <2>2. CASE j # i
    BY <1>1, <2>2 DEF CInv, JobOK, Covered, CountsOK
  <2> QED BY <2>1, <2>2
<1> QED BY <1>1, <1>2, <1>3

\* One more user is done with.
LEMMA UserHandled ==
  ASSUME CInv, NEW i \in Jobs, NEW u \in Users, handled' = [handled EXCEPT ![i] = @ \cup {u}],
         UNCHANGED <<job, verified, audience>>
  PROVE  handled' \in [Jobs -> SUBSET Users] /\ Evolves /\ \A j \in Jobs : JobOK(j)'
<1>1. /\ handled' \in [Jobs -> SUBSET Users]
      /\ \A j \in Jobs : handled[j] \subseteq handled'[j]
  BY DEF CInv, TypeOK
<1> QED BY <1>1 DEF CInv, Evolves, JobOK, Covered, CountsOK

LEMMA IdleOK == Idle \in Invocation /\ NoJob \in EmailCampaignJob /\ InvocationOK(Idle)
<1>1. 0 \in Counts /\ 0 \in 0..FlushEvery
  BY Counted, CampaignAssumption DEF Counts
<1> QED BY <1>1, CampaignAssumption
        DEF Idle, Invocation, NoJob, EmailCampaignJob, EmailCampaignStatus, InvocationOK

LEMMA HasJob ==
  ASSUME CInv, NEW w \in Workers
  PROVE  /\ worker[w] \in Invocation /\ InvocationOK(worker[w])
         /\ worker[w].step \notin {"idle", "pick"} =>
              worker[w].job \in Jobs /\ job[worker[w].job] \in EmailCampaignJob
BY DEF CInv, TypeOK, InvocationOK

\* The invocation is over, and may have saved something on the way.
LEMMA FinishKeeps ==
  ASSUME CInv, NEW w \in Workers, Finish(w), Evolves, \A j \in Jobs : JobOK(j)',
         job' \in [Jobs -> EmailCampaignJob], crashes' \in 0..MaxCrashes,
         UNCHANGED <<verified, audience, handled>>
  PROVE  CInv'
<1>1. worker' = [worker EXCEPT ![w] = Idle] /\ Idle \in Invocation
  BY IdleOK DEF Finish, Goto
<1>2. TypeOK'
  BY <1>1 DEF CInv, TypeOK
<1>3. InvocationOK(Idle)'
  BY DEF InvocationOK, Idle
<1> HIDE DEF Idle
<1> QED BY <1>1, <1>2, <1>3, StepKeeps

(***************************************************************************)
(* The poller's steps.                                                     *)
(***************************************************************************)
LEMMA RecoverKeeps ==
  ASSUME CInv, NEW w \in Workers, RecoverStaleJobs(w)
  PROVE  CInv'
<1> DEFINE v == [Idle EXCEPT !.step = "pick"]
<1>1. v \in Invocation /\ worker' = [worker EXCEPT ![w] = v]
  BY IdleOK DEF RecoverStaleJobs, Goto, Invocation
<1>2. ASSUME NEW j \in Jobs
      PROVE  /\ job'[j] \in EmailCampaignJob /\ job'[j].userIds = job[j].userIds
             /\ job'[j].emailsSent = job[j].emailsSent
             /\ job'[j].emailsFailed = job[j].emailsFailed
             /\ \/ job'[j].status = job[j].status
                \/ job'[j].status = "PENDING" /\ job[j].status = "PROCESSING"
  BY DEF CInv, TypeOK, RecoverStaleJobs, EmailCampaignJob, EmailCampaignStatus
<1>3. TypeOK'
  <2>1. job' \in [Jobs -> EmailCampaignJob]
    BY <1>2 DEF RecoverStaleJobs
  <2> QED BY <1>1, <2>1 DEF CInv, TypeOK, RecoverStaleJobs
<1>4. Evolves /\ \A j \in Jobs : JobOK(j)'
  BY <1>2 DEF CInv, RecoverStaleJobs, Evolves, JobOK, Covered, CountsOK
<1>5. InvocationOK(v)'
  BY DEF InvocationOK, Idle
<1> HIDE DEF v
<1> QED BY <1>1, <1>3, <1>4, <1>5, StepKeeps

LEMMA PickKeeps ==
  ASSUME CInv, NEW w \in Workers, PickJob(w)
  PROVE  CInv'
<1>1. UNCHANGED <<job, verified, crashes, audience, handled>>
  BY DEF PickJob
<1>2. CASE Finish(w)
  BY <1>1, <1>2, TablesStay, FinishKeeps DEF CInv, TypeOK
<1>3. ASSUME NEW j \in Jobs, job[j].status = "PENDING",
             Goto(w, [worker[w] EXCEPT !.step = "claim", !.job = j])
      PROVE  CInv'
  <2>1. PICK v \in Invocation : v = [worker[w] EXCEPT !.step = "claim", !.job = j]
    BY HasJob DEF Invocation
  <2>2. /\ v.step = "claim" /\ v.job = j
        /\ v.sent = 0 /\ v.failed = 0 /\ v.since = 0
    BY <2>1, HasJob DEF Invocation, InvocationOK, PickJob
  <2>3. worker' = [worker EXCEPT ![w] = v]
    BY <1>3, <2>1 DEF Goto
  <2>4. TypeOK'
    BY <1>1, <2>3 DEF CInv, TypeOK
  <2>5. InvocationOK(v)'
    BY <1>1, <1>3, <2>2 DEF InvocationOK
  <2> QED BY <1>1, <2>3, <2>4, <2>5, TablesStay, StepKeeps
<1> QED BY <1>2, <1>3 DEF PickJob

LEMMA ClaimKeeps ==
  ASSUME CInv, NEW w \in Workers, ClaimJob(w)
  PROVE  CInv'
<1>1. UNCHANGED <<verified, crashes, audience, handled>>
  BY DEF ClaimJob
<1>2. worker[w].step = "claim" /\ worker[w].job \in Jobs
  BY HasJob DEF ClaimJob
<1>3. PICK i \in Jobs : i = worker[w].job
  BY <1>2
<1> DEFINE row == [job[i] EXCEPT !.status = "PROCESSING", !.stale = FALSE]
<1>4. /\ row \in EmailCampaignJob /\ row.status = "PROCESSING" /\ row.userIds = job[i].userIds
      /\ row.emailsSent = job[i].emailsSent /\ row.emailsFailed = job[i].emailsFailed
  BY <1>2, <1>3, HasJob DEF EmailCampaignJob, EmailCampaignStatus
<1>5. job' = [job EXCEPT ![i] = row]
  BY <1>3 DEF ClaimJob, CInv, TypeOK, EmailCampaignJob
<1>6. CountsOK(row)
  BY <1>4 DEF CInv, JobOK, CountsOK
<1> HIDE DEF row
<1>7. job' \in [Jobs -> EmailCampaignJob] /\ Evolves /\ \A j \in Jobs : JobOK(j)'
  BY <1>1, <1>4, <1>5, <1>6, RowSaved
<1>8. PICK v \in Invocation : v = [worker[w] EXCEPT !.step = "load"]
  BY HasJob DEF Invocation
<1>9. v.step = "load" /\ v.job = i /\ v.sent = 0 /\ v.failed = 0 /\ v.since = 0
  BY <1>2, <1>3, <1>8, HasJob DEF Invocation, InvocationOK
<1>10. worker' = [worker EXCEPT ![w] = v]
  BY <1>8 DEF ClaimJob, Goto
<1>11. TypeOK'
  BY <1>1, <1>7, <1>10 DEF CInv, TypeOK
<1>12. InvocationOK(v)'
  BY <1>4, <1>5, <1>9 DEF InvocationOK, CInv, TypeOK
<1> QED BY <1>7, <1>10, <1>11, <1>12, StepKeeps

LEMMA LoadKeeps ==
  ASSUME CInv, NEW w \in Workers, LoadJob(w)
  PROVE  CInv'
<1>1. UNCHANGED <<job, verified, crashes, audience, handled>>
  BY DEF LoadJob
<1>2. worker[w].step = "load" /\ worker[w].job \in Jobs
  BY HasJob DEF LoadJob
<1>3. PICK i \in Jobs, row \in EmailCampaignJob : i = worker[w].job /\ row = job[i]
  BY <1>2, HasJob DEF LoadJob
<1>4. row.userIds \in SUBSET Users
  BY DEF EmailCampaignJob
<1>5. PICK left \in SUBSET Users : left = row.userIds \cap verified
  BY <1>4
<1>6. PICK v \in Invocation :
        v = [worker[w] EXCEPT !.step = "loop", !.row = row, !.left = left, !.users = Cardinality(left)]
  BY <1>3, HasJob, Counted DEF Invocation
<1>7. /\ v.step = "loop" /\ v.job = i /\ v.row = row /\ v.left = left
      /\ v.users = Cardinality(left) /\ v.sent = 0 /\ v.failed = 0 /\ v.since = 0
  BY <1>2, <1>3, <1>6, HasJob DEF Invocation, InvocationOK
<1>8. worker' = [worker EXCEPT ![w] = v]
  BY <1>3, <1>5, <1>6 DEF LoadJob, Goto, Loop
<1>9. TypeOK'
  BY <1>1, <1>8 DEF CInv, TypeOK
<1>10. Cardinality(left) \in Nat /\ 0 < FlushEvery
  <2>1. Cardinality(left) \in Nat
    BY Counted
  <2> QED BY <2>1, CampaignAssumption
<1>11. JobOK(i) /\ job[i].status # "NONE"
  BY <1>2, <1>3, HasJob DEF CInv, InvocationOK
<1>12. InvocationOK(v)'
  BY <1>1, <1>3, <1>5, <1>7, <1>10, <1>11 DEF InvocationOK, JobOK, Covered, CountsOK
<1> QED BY <1>1, <1>8, <1>9, <1>12, TablesStay, StepKeeps

(***************************************************************************)
(* The loop over the users.                                                *)
(***************************************************************************)
\* What worker w holds in the loop, as numbers.
LEMMA InLoop ==
  ASSUME CInv, NEW w \in Workers, worker[w].step \in {"loop", "flush"}
  PROVE  LET v == worker[w] IN
         /\ v.sent \in Nat /\ v.failed \in Nat /\ v.since \in 0..FlushEvery
         /\ v.users \in Nat /\ v.users \in Counts /\ Cardinality(v.left) \in Nat
         /\ v.left \in SUBSET Users /\ v.row \in EmailCampaignJob
         /\ v.sent + v.failed + Cardinality(v.left) <= v.users
         /\ v.sent \in Counts /\ v.failed \in Counts
<1>1. worker[w] \in Invocation /\ InvocationOK(worker[w])
  BY HasJob
<1>2. worker[w].left \in SUBSET Users
  BY <1>1 DEF Invocation
<1>3. Cardinality(worker[w].left) \in Counts
  BY <1>2, Counted
<1> QED BY <1>1, <1>2, <1>3, Counted DEF Invocation, InvocationOK

\* A user leaves the list of worker w.
LEMMA OneLess ==
  ASSUME CInv, NEW w \in Workers, NEW u \in Users, worker[w].step = "loop", u \in worker[w].left,
         NEW v \in Invocation, worker' = [worker EXCEPT ![w] = v],
         v.step \in {"loop", "flush"}, v.step = "loop" => v.since < FlushEvery,
         v.job = worker[w].job, v.row = worker[w].row, v.users = worker[w].users,
         v.left = worker[w].left \ {u},
         v.sent + v.failed <= worker[w].sent + worker[w].failed + 1,
         handled' = [handled EXCEPT ![worker[w].job] = @ \cup {u}],
         UNCHANGED <<job, verified, crashes, audience>>
  PROVE  CInv'
<1>1. PICK i \in Jobs : i = worker[w].job /\ job[i].status # "NONE"
  BY HasJob DEF InvocationOK
<1>2. /\ handled' \in [Jobs -> SUBSET Users] /\ Evolves /\ \A j \in Jobs : JobOK(j)'
      /\ handled'[i] = handled[i] \cup {u}
  BY <1>1, UserHandled DEF CInv, TypeOK
<1>3. TypeOK'
  BY <1>2 DEF CInv, TypeOK
<1>4. v.sent + v.failed + Cardinality(v.left) <= v.users
  <2>1. Cardinality(worker[w].left \ {u}) + 1 = Cardinality(worker[w].left)
    BY InLoop, Counted
  <2>2. Cardinality(v.left) \in Nat /\ v.sent \in Nat /\ v.failed \in Nat
    BY Counted DEF Invocation
  <2> QED BY <2>1, <2>2, InLoop
<1>5. InvocationOK(v)'
  BY <1>1, <1>2, <1>4, HasJob DEF InvocationOK, Covered, CountsOK
<1> QED BY <1>2, <1>3, <1>5, StepKeeps

LEMMA UsersKeep ==
  ASSUME CInv, NEW w \in Workers, NEW u \in Users,
         SkipUser(w, u) \/ \E sent \in BOOLEAN : MailUser(w, u, sent)
  PROVE  CInv'
<1>1. /\ worker[w].step = "loop" /\ u \in worker[w].left
      /\ handled' = [handled EXCEPT ![worker[w].job] = @ \cup {u}]
      /\ UNCHANGED <<job, verified, crashes, audience>>
  BY DEF SkipUser, MailUser
<1>2. worker[w] \in Invocation /\ worker[w].since < FlushEvery
  BY <1>1, HasJob DEF InvocationOK
<1>3. CASE SkipUser(w, u)
  <2>1. PICK v \in Invocation : v = [worker[w] EXCEPT !.left = @ \ {u}]
    BY <1>2 DEF Invocation
  <2>2. /\ v.step = "loop" /\ v.since = worker[w].since /\ v.left = worker[w].left \ {u}
        /\ v.job = worker[w].job /\ v.row = worker[w].row /\ v.users = worker[w].users
        /\ v.sent = worker[w].sent /\ v.failed = worker[w].failed
    BY <1>1, <1>2, <2>1 DEF Invocation
  <2>3. worker' = [worker EXCEPT ![w] = v]
    BY <1>3, <2>1 DEF SkipUser, Goto
  <2>4. v.sent + v.failed <= worker[w].sent + worker[w].failed + 1
    BY <1>1, <2>2, InLoop
  <2> QED BY <1>1, <1>2, <2>2, <2>3, <2>4, OneLess
<1>4. ASSUME NEW sent \in BOOLEAN, MailUser(w, u, sent) PROVE CInv'
  <2>1. /\ worker[w].sent \in Nat /\ worker[w].failed \in Nat /\ worker[w].since \in Nat
        /\ worker[w].users \in Nat /\ worker[w].users \in Counts
        /\ worker[w].sent + worker[w].failed + 1 <= worker[w].users
    <3>1. Cardinality(worker[w].left \ {u}) + 1 = Cardinality(worker[w].left)
          /\ Cardinality(worker[w].left \ {u}) \in Nat
      BY <1>1, InLoop, Counted
    <3> QED BY <1>1, <3>1, InLoop, CampaignAssumption
  <2> DEFINE v0 == [worker[w] EXCEPT
                      !.left = @ \ {u}, !.since = @ + 1,
                      !.sent = IF sent THEN @ + 1 ELSE @, !.failed = IF sent THEN @ ELSE @ + 1,
                      !.step = IF worker[w].since + 1 >= FlushEvery THEN "flush" ELSE "loop"]
  <2>2. worker' = [worker EXCEPT ![w] = v0]
    BY <1>4 DEF MailUser, Goto
  <2>3. /\ v0.step = IF worker[w].since + 1 >= FlushEvery THEN "flush" ELSE "loop"
        /\ v0.since = worker[w].since + 1 /\ v0.left = worker[w].left \ {u}
        /\ v0.job = worker[w].job /\ v0.row = worker[w].row /\ v0.users = worker[w].users
        /\ v0.sent = IF sent THEN worker[w].sent + 1 ELSE worker[w].sent
        /\ v0.failed = IF sent THEN worker[w].failed ELSE worker[w].failed + 1
    BY <1>2 DEF Invocation
  <2>4. v0 \in Invocation
    <3>1. /\ (IF sent THEN worker[w].sent + 1 ELSE worker[w].sent) \in Counts
          /\ (IF sent THEN worker[w].failed ELSE worker[w].failed + 1) \in Counts
      BY <2>1, Counted DEF Counts
    <3>2. worker[w].since + 1 \in 0..FlushEvery
      BY <1>2, <2>1, CampaignAssumption
    <3> QED BY <1>2, <3>1, <3>2 DEF Invocation
  <2>5. PICK v \in Invocation : v = v0
    BY <2>4
  <2>6. /\ v.step \in {"loop", "flush"}
        /\ v.step = "loop" => v.since < FlushEvery
        /\ v.sent + v.failed <= worker[w].sent + worker[w].failed + 1
    <3> HIDE DEF v0
    <3> QED BY <2>1, <2>3, <2>5, CampaignAssumption
  <2>7. /\ v.left = worker[w].left \ {u} /\ v.job = worker[w].job /\ v.row = worker[w].row
        /\ v.users = worker[w].users /\ worker' = [worker EXCEPT ![w] = v]
    <3> HIDE DEF v0
    <3> QED BY <2>2, <2>3, <2>5
  <2> HIDE DEF v0
  <2> QED BY <1>1, <1>2, <2>6, <2>7, OneLess
<1> QED BY <1>3, <1>4

\* The rows that a save of the loop writes.
LEMMA SavedRows ==
  ASSUME CInv, NEW w \in Workers, worker[w].step \in {"loop", "flush"}
  PROVE  LET v == worker[w] IN
         \A row \in {InProgress(v), Completed(v)} :
           /\ row \in EmailCampaignJob /\ row.status # "NONE"
           /\ row.userIds = v.row.userIds /\ row.userIds = job[v.job].userIds
           /\ CountsOK(row)
           /\ row = InProgress(v) => row.status = v.row.status
<1> DEFINE v == worker[w]
<1>1. v \in Invocation /\ InvocationOK(v) /\ v.row \in EmailCampaignJob
  BY HasJob, InLoop
<1>2. \A row \in {InProgress(v), Completed(v)} :
        /\ row \in EmailCampaignJob /\ row.userIds = v.row.userIds
        /\ row.emailsSent = v.sent /\ row.emailsFailed = v.failed
        /\ row = InProgress(v) => row.status = v.row.status
        /\ row.status \in {v.row.status, "COMPLETED"}
  BY <1>1, InLoop DEF InProgress, Completed, EmailCampaignJob, EmailCampaignStatus
<1>3. v.sent + v.failed <= Cardinality(v.row.userIds \cap verified)
  <2>1. v.row.userIds \cap verified \in SUBSET Users
    BY <1>1 DEF EmailCampaignJob
  <2>2. Cardinality(v.row.userIds \cap verified) \in Nat
    BY <2>1, Counted
  <2>3. v.users <= Cardinality(v.row.userIds \cap verified)
    BY <1>1 DEF InvocationOK
  <2> QED BY <2>2, <2>3, InLoop
<1> QED BY <1>1, <1>2, <1>3 DEF InvocationOK, CountsOK

LEMMA FlushKeeps ==
  ASSUME CInv, NEW w \in Workers, FlushProgress(w)
  PROVE  CInv'
<1>1. /\ worker[w].step = "flush" /\ job' = [job EXCEPT ![worker[w].job] = InProgress(worker[w])]
      /\ UNCHANGED <<verified, crashes, audience, handled>>
  BY DEF FlushProgress
<1>2. PICK i \in Jobs, row \in EmailCampaignJob :
        /\ i = worker[w].job /\ row = InProgress(worker[w]) /\ row.status # "NONE"
        /\ row.userIds = worker[w].row.userIds /\ row.userIds = job[i].userIds /\ CountsOK(row)
        /\ row.status = "COMPLETED" => worker[w].row.status = "COMPLETED"
  BY <1>1, SavedRows, HasJob
<1>3. /\ audience[i] \subseteq handled[i] \cup worker[w].left
      /\ row.status = "COMPLETED" => Covered(i)
  BY <1>1, <1>2, HasJob DEF InvocationOK
<1>4. job' \in [Jobs -> EmailCampaignJob] /\ Evolves /\ \A j \in Jobs : JobOK(j)'
  BY <1>1, <1>2, <1>3, RowSaved
<1>5. 0 \in 0..FlushEvery /\ 0 < FlushEvery
  BY CampaignAssumption
<1>6. PICK v \in Invocation : v = [worker[w] EXCEPT !.step = "loop", !.row = row, !.since = 0]
  BY <1>5, HasJob DEF Invocation
<1>7. /\ v.step = "loop" /\ v.row = row /\ v.since = 0 /\ v.job = i /\ v.left = worker[w].left
      /\ v.users = worker[w].users /\ v.sent = worker[w].sent /\ v.failed = worker[w].failed
  BY <1>2, <1>6, HasJob DEF Invocation
<1>8. worker' = [worker EXCEPT ![w] = v]
  BY <1>2, <1>6 DEF FlushProgress, Goto
<1>9. TypeOK'
  BY <1>1, <1>4, <1>8 DEF CInv, TypeOK
<1>10. job'[i] = row
  BY <1>1, <1>2 DEF CInv, TypeOK
<1>11. /\ v.sent + v.failed + Cardinality(v.left) <= v.users
       /\ v.users <= Cardinality(row.userIds \cap verified)
  BY <1>1, <1>2, <1>7, HasJob, InLoop DEF InvocationOK
<1>12. InvocationOK(v)'
  BY <1>1, <1>2, <1>3, <1>5, <1>7, <1>10, <1>11 DEF InvocationOK, Covered, CountsOK
<1> QED BY <1>4, <1>8, <1>9, <1>12, StepKeeps

LEMMA CompleteKeeps ==
  ASSUME CInv, NEW w \in Workers, CompleteJob(w)
  PROVE  CInv'
<1>1. /\ worker[w].step = "loop" /\ worker[w].left = {} /\ Finish(w)
      /\ job' = [job EXCEPT ![worker[w].job] = Completed(worker[w])]
      /\ UNCHANGED <<verified, crashes, audience, handled>>
  BY DEF CompleteJob
<1>2. PICK i \in Jobs, row \in EmailCampaignJob :
        /\ i = worker[w].job /\ row = Completed(worker[w]) /\ row.status # "NONE"
        /\ row.userIds = job[i].userIds /\ CountsOK(row)
  BY <1>1, SavedRows, HasJob
<1>3. Covered(i)
  BY <1>1, <1>2, HasJob DEF InvocationOK, Covered
<1>4. job' \in [Jobs -> EmailCampaignJob] /\ Evolves /\ \A j \in Jobs : JobOK(j)'
  BY <1>1, <1>2, <1>3, RowSaved
<1> QED BY <1>1, <1>4, FinishKeeps DEF CInv, TypeOK

LEMMA CatchKeeps ==
  ASSUME CInv, NEW w \in Workers, CatchError(w)
  PROVE  CInv'
<1>1. /\ worker[w].step \in {"loop", "flush"} /\ crashes < MaxCrashes /\ crashes' = crashes + 1
      /\ UNCHANGED <<job, verified, audience, handled>>
  BY DEF CatchError
<1> DEFINE kept == CASE worker[w].step = "flush" -> InProgress(worker[w])
                     [] worker[w].step = "loop" /\ worker[w].left = {} -> Completed(worker[w])
                     [] OTHER -> worker[w].row
<1>2. PICK i \in Jobs : i = worker[w].job /\ job[i].status # "NONE"
  BY <1>1, HasJob DEF InvocationOK
<1>3. /\ kept \in EmailCampaignJob /\ kept.status # "NONE" /\ kept.userIds = job[i].userIds
      /\ CountsOK(kept)
  <2>1. kept \in {InProgress(worker[w]), Completed(worker[w]), worker[w].row}
    BY <1>1
  <2>2. /\ worker[w].row \in EmailCampaignJob /\ worker[w].row.status # "NONE"
        /\ worker[w].row.userIds = job[i].userIds /\ CountsOK(worker[w].row)
    BY <1>1, <1>2, HasJob, InLoop DEF InvocationOK
  <2> HIDE DEF kept
  <2> QED BY <1>1, <1>2, <2>1, <2>2, SavedRows
<1>4. worker' = [worker EXCEPT ![w] = [worker[w] EXCEPT !.step = "failed", !.row = kept]]
  BY DEF CatchError, Goto
<1> HIDE DEF kept
<1>5. PICK row \in EmailCampaignJob : row = kept
  BY <1>3
<1>6. PICK v \in Invocation : v = [worker[w] EXCEPT !.step = "failed", !.row = row]
  BY HasJob DEF Invocation
<1>7. v.step = "failed" /\ v.row = row /\ v.job = i
  BY <1>2, <1>6, HasJob DEF Invocation
<1>8. TypeOK'
  BY <1>1, <1>4, <1>5, <1>6, CampaignAssumption DEF CInv, TypeOK
<1>9. InvocationOK(v)'
  BY <1>1, <1>2, <1>3, <1>5, <1>7 DEF InvocationOK, CountsOK
<1> QED BY <1>1, <1>4, <1>5, <1>6, <1>8, <1>9, TablesStay, StepKeeps

LEMMA FailKeeps ==
  ASSUME CInv, NEW w \in Workers, FailJob(w)
  PROVE  CInv'
<1>1. /\ worker[w].step = "failed" /\ Finish(w)
      /\ job' = [job EXCEPT ![worker[w].job] = [worker[w].row EXCEPT !.status = "FAILED"]]
      /\ UNCHANGED <<verified, crashes, audience, handled>>
  BY DEF FailJob
<1>2. /\ worker[w].row \in EmailCampaignJob /\ worker[w].row.userIds = job[worker[w].job].userIds
      /\ CountsOK(worker[w].row) /\ worker[w].job \in Jobs
  BY <1>1, HasJob DEF InvocationOK, Invocation
<1>3. PICK row \in EmailCampaignJob : row = [worker[w].row EXCEPT !.status = "FAILED"]
  BY <1>2 DEF EmailCampaignJob, EmailCampaignStatus
<1>4. /\ row.status = "FAILED" /\ row.userIds = worker[w].row.userIds
      /\ row.emailsSent = worker[w].row.emailsSent
      /\ row.emailsFailed = worker[w].row.emailsFailed
  BY <1>2, <1>3 DEF EmailCampaignJob
<1>5. PICK i \in Jobs : i = worker[w].job
  BY <1>2
<1>6. CountsOK(row)
  BY <1>2, <1>4 DEF CountsOK
<1>7. job' \in [Jobs -> EmailCampaignJob] /\ Evolves /\ \A j \in Jobs : JobOK(j)'
  BY <1>1, <1>2, <1>3, <1>4, <1>5, <1>6, RowSaved
<1> QED BY <1>1, <1>7, FinishKeeps DEF CInv, TypeOK

LEMMA CrashKeeps ==
  ASSUME CInv, NEW w \in Workers, Crash(w)
  PROVE  CInv'
<1>1. crashes' \in 0..MaxCrashes
  BY CampaignAssumption DEF Crash, CInv, TypeOK
<1> QED BY <1>1, TablesStay, FinishKeeps DEF Crash, CInv, TypeOK

(***************************************************************************)
(* The world.                                                              *)
(***************************************************************************)
LEMMA QueueKeeps ==
  ASSUME CInv, NEW targets \in SUBSET Users, SendRecommendationEmails(targets)
  PROVE  CInv'
<1> DEFINE reached == targets \cap verified
           row == [NoJob EXCEPT !.status = "PENDING", !.userIds = targets,
                                !.totalUsers = Cardinality(reached)]
<1>1. PICK i \in Jobs : /\ job[i].status = "NONE" /\ job' = [job EXCEPT ![i] = row]
                        /\ audience' = [audience EXCEPT ![i] = reached]
  BY DEF SendRecommendationEmails
<1>2. UNCHANGED <<verified, worker, crashes, handled>>
  BY DEF SendRecommendationEmails
<1>3. reached \in SUBSET Users /\ reached \in SUBSET verified /\ Cardinality(reached) \in Counts
  BY Counted
<1>4. /\ row \in EmailCampaignJob /\ row.status = "PENDING" /\ row.userIds = targets
      /\ row.emailsSent = 0 /\ row.emailsFailed = 0
  BY <1>3, IdleOK DEF NoJob, EmailCampaignJob, EmailCampaignStatus
<1>5. reached = row.userIds \cap verified
  BY <1>4
<1> HIDE DEF row
<1>6. /\ job' \in [Jobs -> EmailCampaignJob] /\ job'[i] = row
      /\ audience' \in [Jobs -> SUBSET Users] /\ audience'[i] = reached
      /\ \A j \in Jobs \ {i} : job'[j] = job[j] /\ audience'[j] = audience[j]
  BY <1>1, <1>3, <1>4 DEF CInv, TypeOK
<1>7. TypeOK'
  BY <1>2, <1>6 DEF CInv, TypeOK
<1>8. Evolves
  BY <1>1, <1>2, <1>6 DEF Evolves
<1>9. 0 + 0 <= Cardinality(reached)
  BY <1>3, Counted
<1> HIDE DEF reached
<1>10. ASSUME NEW j \in Jobs PROVE JobOK(j)'
  <2>1. CASE j = i
    BY <1>2, <1>4, <1>5, <1>6, <1>9, <2>1 DEF JobOK, CountsOK
  <2>2. CASE j # i
    BY <1>2, <1>6, <2>2 DEF CInv, JobOK, CountsOK, Covered
  <2> QED BY <2>1, <2>2
<1> QED BY <1>2, <1>7, <1>8, <1>10, WorldKeeps

LEMMA AgeKeeps ==
  ASSUME CInv, NEW i \in Jobs, Age(i)
  PROVE  CInv'
<1>1. PICK row \in EmailCampaignJob : row = [job[i] EXCEPT !.stale = TRUE]
  BY DEF CInv, TypeOK, EmailCampaignJob
<1>2. /\ row.status = job[i].status /\ row.userIds = job[i].userIds
      /\ row.emailsSent = job[i].emailsSent /\ row.emailsFailed = job[i].emailsFailed
  BY <1>1 DEF CInv, TypeOK, EmailCampaignJob
<1>3. job' = [job EXCEPT ![i] = row] /\ UNCHANGED <<verified, worker, crashes, audience, handled>>
  BY <1>1 DEF Age, CInv, TypeOK
<1>4. CountsOK(row) /\ (row.status = "COMPLETED" => Covered(i))
  BY <1>2 DEF CInv, JobOK, CountsOK
<1>5. job' \in [Jobs -> EmailCampaignJob] /\ Evolves /\ \A j \in Jobs : JobOK(j)'
  BY <1>2, <1>3, <1>4, RowSaved
<1>6. TypeOK'
  BY <1>3, <1>5 DEF CInv, TypeOK
<1> QED BY <1>3, <1>5, <1>6, WorldKeeps

LEMMA VerifyKeeps ==
  ASSUME CInv, NEW u \in Users, VerifyEmail(u)
  PROVE  CInv'
<1>1. verified' = verified \cup {u} /\ UNCHANGED <<job, worker, crashes, audience, handled>>
  BY DEF VerifyEmail
<1>2. TypeOK'
  BY <1>1 DEF CInv, TypeOK
<1>3. Evolves
  BY <1>1 DEF Evolves
<1>4. ASSUME NEW j \in Jobs PROVE JobOK(j)'
  <2>1. /\ job[j].userIds \cap verified \in SUBSET Users
        /\ job[j].userIds \cap verified' \in SUBSET Users
        /\ job[j].userIds \cap verified \subseteq job[j].userIds \cap verified'
        /\ job[j].emailsSent \in Nat /\ job[j].emailsFailed \in Nat
    BY <1>1, Counted DEF CInv, TypeOK, EmailCampaignJob
  <2> DEFINE before == Cardinality(job[j].userIds \cap verified)
             after == Cardinality(job[j].userIds \cap verified')
  <2>2. before \in Nat /\ after \in Nat /\ before <= after
    BY <2>1, Counted
  <2>3. job[j].emailsSent + job[j].emailsFailed <= before
    BY DEF CInv, JobOK, CountsOK
  <2> HIDE DEF before, after
  <2>4. job[j].emailsSent + job[j].emailsFailed <= after
    BY <2>1, <2>2, <2>3
  <2> QED BY <1>1, <2>4 DEF CInv, JobOK, CountsOK, Covered, after
<1> QED BY <1>1, <1>2, <1>3, <1>4, WorldKeeps

(***************************************************************************)
(* Every behaviour.                                                        *)
(***************************************************************************)
LEMMA InitKeeps ==
  ASSUME Init
  PROVE  CInv
<1>1. TypeOK
  BY IdleOK, CampaignAssumption DEF Init, TypeOK
<1>2. ASSUME NEW j \in Jobs PROVE JobOK(j)
  <2>1. {} \cap verified = {} /\ job[j] = NoJob /\ audience[j] = {}
    BY DEF Init
  <2> QED BY <2>1, Counted DEF JobOK, CountsOK, NoJob
<1>3. \A w \in Workers : InvocationOK(worker[w])
  BY IdleOK DEF Init
<1> QED BY <1>1, <1>2, <1>3 DEF CInv

LEMMA NextKeeps ==
  ASSUME CInv, [Next]_cvars
  PROVE  CInv'
<1>1. CASE UNCHANGED cvars
  <2>1. UNCHANGED <<job, verified, worker, crashes, audience, handled>>
    BY <1>1 DEF cvars
  <2>2. TypeOK'
    BY <2>1 DEF CInv, TypeOK
  <2> QED BY <2>1, <2>2, TablesStay, WorldKeeps
<1>2. CASE Next
  BY <1>2, QueueKeeps, RecoverKeeps, PickKeeps, ClaimKeeps, LoadKeeps, UsersKeep, FlushKeeps,
     CompleteKeeps, FailKeeps, CatchKeeps, CrashKeeps, AgeKeeps, VerifyKeeps DEF Next, Work
<1> QED BY <1>1, <1>2

THEOREM CampaignInvariant == Spec => []CInv
<1> QED BY InitKeeps, NextKeeps, PTL DEF Spec

\* The state always has its types: no count exceeds the number of users.
THEOREM CampaignTypeCorrect == Spec => []TypeOK
<1>1. CInv => TypeOK
  BY DEF CInv
<1> QED BY <1>1, CampaignInvariant, PTL

\* A job is COMPLETED only when everybody who was to be mailed when it was queued
\* has been mailed, tried or skipped.
THEOREM AudienceCovered == Spec => []CompletedCoversAudience
<1>1. CInv => CompletedCoversAudience
  BY DEF CInv, JobOK, Covered, CompletedCoversAudience
<1> QED BY <1>1, CampaignInvariant, PTL

\* The counts of a job are those of one pass over its users.
THEOREM OnePassCounted == Spec => []CountsOfOnePass
<1>1. CInv => CountsOfOnePass
  BY DEF CInv, JobOK, CountsOK, CountsOfOnePass
<1> QED BY <1>1, CampaignInvariant, PTL
===============================================================================
