--------------------------- MODULE LwtJobsProofs ----------------------------
(***************************************************************************)
(* Theorems about LwtJobs, for every value of its constants.               *)
(*                                                                         *)
(* IInv is the inductive invariant.  Its parts say where a job can be at   *)
(* each place of a thread and of the OCaml code; each action has a lemma   *)
(* that it preserves IInv, and the theorems at the end follow from it.     *)
(***************************************************************************)
EXTENDS LwtJobs, SequenceTheorems, FiniteSetTheorems, TLAPS

(* The inductive invariant, beyond the properties themselves.              *)

Busy     == {"altsignal"} \cup Executing
MlHolds  == {"sync", "detach", "switch", "leaving"}
Idle     == {"off", "ml", "loop", "waiting"}

Pending(j) == job[j].life = "alive" /\ job[j].state = "Pending" /\ job[j].mutex = "nobody"
Over(j)    == job[j].life = "alive" /\ job[j].state = "Done" /\ job[j].mutex = "nobody"

\* A thread between two jobs has none; one with a job is somewhere on its way.
ThreadInv ==
    \A t \in Threads :
        /\ thr[t].pc \in Idle => thr[t].job = "none" /\ ~thr[t].alt
        /\ thr[t].pc \notin Idle => thr[t].job \in Jobs
        /\ thr[t].pc \in {"altsignal", "altend"} => thr[t].alt

\* The OCaml code runs on main_thread, or it is blocked there in a call made by
\* the switch method until another thread takes over.
MainInv ==
    /\ main_state = "Blocked" <=> ml.pc = "blocked"
    /\ main_state = "Running" => thr[main_thread].pc = "ml"
    /\ main_state = "Blocked" => thr[main_thread].alt /\ thr[main_thread].job = ml.job
    /\ \A t \in Threads : thr[t].pc = "ml" => t = main_thread

\* What is true of a job on each step of execute_job.
BusyInv ==
    /\ \A t \in Threads :
        LET j == thr[t].job IN
        /\ thr[t].pc \in {"altsignal", "begin"} => Pending(j)
        /\ thr[t].pc = "work" => job[j].life = "alive" /\ job[j].state = "Running" /\ job[j].mutex = "nobody"
        /\ thr[t].pc = "marked" => job[j].life = "alive" /\ job[j].state = "Done" /\ job[j].mutex = t
        /\ thr[t].pc = "notify" => Over(j) /\ ~job[j].fast
    /\ \A t, u \in Threads :
        thr[t].pc \in Busy /\ thr[u].pc \in Busy /\ thr[t].job = thr[u].job => t = u
    /\ \A j \in Jobs : job[j].mutex # "nobody" =>
        thr[job[j].mutex].pc = "marked" /\ thr[job[j].mutex].job = j

QueueInv ==
    /\ \A i \in DOMAIN pool_queue :
        /\ Pending(pool_queue[i])
        /\ \A t \in Threads : thr[t].pc \in Busy => thr[t].job # pool_queue[i]
    /\ \A i, k \in DOMAIN pool_queue : pool_queue[i] = pool_queue[k] => i = k

NotifyInv ==
    \A i \in DOMAIN notifications : notifications[i] # "signal" =>
        /\ Over(notifications[i]) /\ ~job[notifications[i]].fast
        /\ \A t \in Threads : thr[t].pc \in Busy => thr[t].job # notifications[i]

MlInv ==
    /\ ml.pc \in {"run", "alloc"} <=> ml.job = "none"
    /\ ml.job \in Jobs => job[ml.job].life = "alive" /\ job[ml.job].fast /\ ml.job \notin notifiers
    /\ ml.pc \in MlHolds =>
        /\ Pending(ml.job)
        /\ \A t \in Threads : thr[t].pc \in Busy => thr[t].job # ml.job
        /\ \A i \in DOMAIN pool_queue : pool_queue[i] # ml.job
    /\ ml.pc \in {"started", "joining", "blocked"} => job[ml.job].state # "none"
    /\ ml.pc = "joining" => job[ml.job].state = "Done"
    /\ ml.pc = "blocked" /\ thr[main_thread].pc = "altend" => Over(ml.job)
    /\ ml.pc \in {"detach", "switch"} => thread_waiting_count > 0 \/ thread_count < pool_size

WaitInv ==
    /\ paused \subseteq notifiers
    /\ \A j \in notifiers \cap Jobs :
        job[j].life = "alive" /\ job[j].state # "none" /\ (job[j].fast <=> j \in paused)
    /\ \A j \in Jobs : job[j].life # "twice"

HeldInv ==
    \A j \in Jobs :
        /\ job[j].life = "alive"
        /\ job[j].state \in {"Pending", "Running"}
        /\ ~(ml.job = j /\ ml.pc \in MlHolds)
        => \/ \E i \in DOMAIN pool_queue : pool_queue[i] = j
           \/ \E t \in Threads : thr[t].job = j /\ thr[t].pc \in {"altsignal", "begin", "work"}

PoolInv ==
    /\ thread_waiting_count > 0 => \E t \in Threads : t # main_thread /\ thr[t].pc # "off"
    /\ pool_queue # <<>> => \E t \in Threads : t # main_thread /\ thr[t].pc \notin {"off", "waiting"}

IInv ==
    /\ TypeOK /\ ThreadInv /\ MainInv /\ BusyInv /\ QueueInv /\ NotifyInv /\ MlInv /\ WaitInv
    /\ HeldInv /\ PoolInv
    /\ WaitersCovered /\ CheckpointLeft /\ NotificationsSignalled

-----------------------------------------------------------------------------
(* What the steps are made of.                                             *)

LEMMA FinThreads == IsFiniteSet(Threads)
  BY JobsAssumption

\* The types, by element.
LEMMA Types ==
    ASSUME TypeOK
    PROVE  /\ main_thread \in Threads /\ main_state \in {"Running", "Blocked"}
           /\ \A t \in Threads : thr[t].pc \in Places /\ thr[t].job \in Jobs \cup {"none"}
           /\ \A j \in Jobs : job[j].mutex \in Threads \cup {"nobody"}
           /\ \A i \in DOMAIN notifications : notifications[i] \in Jobs \cup {"signal"}
           /\ \A i \in DOMAIN pool_queue : pool_queue[i] \in Jobs
           /\ ml.pc \in MlPlaces /\ ml.job \in Jobs \cup {"none"}
           /\ notifiers \subseteq Jobs \cup {"signal"} /\ paused \subseteq Jobs
           /\ thread_waiting_count \in Nat /\ thread_count \in Nat
           /\ "none" \notin Jobs /\ "signal" \notin Jobs /\ "nobody" \notin Threads
  BY JobsAssumption DEF TypeOK, Thread, Job

\* One thread moves.
LEMMA GoEffect ==
    ASSUME TypeOK, NEW t \in Threads, NEW place \in Places, Go(t, place)
    PROVE  /\ thr' \in [Threads -> Thread]
           /\ \A u \in Threads : u # t => thr'[u] = thr[u]
           /\ thr'[t].pc = place /\ thr'[t].job = thr[t].job /\ thr'[t].alt = thr[t].alt
  BY DEF TypeOK, Go, Thread

LEMMA ThreadEffect ==
    ASSUME TypeOK, NEW t \in Threads, NEW r \in Thread, thr' = [thr EXCEPT ![t] = r]
    PROVE  /\ thr' \in [Threads -> Thread]
           /\ \A u \in Threads : u # t => thr'[u] = thr[u]
           /\ thr'[t] = r
  BY DEF TypeOK

\* One job changes.
LEMMA JobEffect ==
    ASSUME TypeOK, NEW j \in Jobs, NEW f \in Job, SetJob(j, f)
    PROVE  /\ job' \in [Jobs -> Job]
           /\ \A k \in Jobs : k # j => job'[k] = job[k]
           /\ job'[j] = f
  BY DEF TypeOK, SetJob

\* The counts stay as they are if no thread begins to wait and none enters or
\* leaves the alternative stack.
LEMMA CountsKept ==
    ASSUME TypeOK, WaitersCovered, CheckpointLeft,
           thread_waiting_count' = thread_waiting_count,
           become_worker' = become_worker, main_thread' = main_thread,
           \A u \in Threads : (thr'[u].alt <=> thr[u].alt) /\ (thr'[u].pc = "waiting" => thr[u].pc = "waiting")
    PROVE  WaitersCovered' /\ CheckpointLeft'
<1>1. Waiters' \subseteq Waiters /\ Waiters \subseteq Threads
  BY DEF Waiters, At
<1>2. IsFiniteSet(Waiters) /\ IsFiniteSet(Waiters')
  BY <1>1, FinThreads, FS_Subset
<1>3. Cardinality(Waiters') <= Cardinality(Waiters)
  BY <1>1, <1>2, FS_Subset
<1>4. Cardinality(Waiters) \in Nat /\ Cardinality(Waiters') \in Nat
  BY <1>2, FS_CardinalityType
<1>5. WaitersCovered'
  BY <1>3, <1>4 DEF TypeOK, WaitersCovered
<1>6. {u \in Threads : thr'[u].alt /\ u # main_thread'} = {u \in Threads : thr[u].alt /\ u # main_thread}
  OBVIOUS
<1> QED BY <1>5, <1>6 DEF CheckpointLeft

\* An id is added, and the receiver will look at it.
LEMMA SendEffect ==
    ASSUME TypeOK, NotificationsSignalled, NEW id \in Jobs \cup {"signal"}, Send(id)
    PROVE  /\ notifications' \in Seq(Jobs \cup {"signal"}) /\ notification_count' \in Nat /\ fd' \in Nat
           /\ \A i \in DOMAIN notifications' :
                 notifications'[i] = id \/ \E k \in DOMAIN notifications : notifications'[i] = notifications[k]
           /\ fd' > 0 \/ MlAt("alloc")
<1>1. notifications' = Append(notifications, id)
  BY DEF Send
<1>2. notifications' \in Seq(Jobs \cup {"signal"})
  BY <1>1, AppendProperties DEF TypeOK
<1>3. \A i \in DOMAIN notifications' :
          notifications'[i] = id \/ \E k \in DOMAIN notifications : notifications'[i] = notifications[k]
  BY <1>1, AppendProperties DEF TypeOK
<1>4. notification_count' \in Nat /\ fd' \in Nat /\ (fd' > 0 \/ MlAt("alloc"))
  BY DEF TypeOK, Send, Resize, NotificationsSignalled
<1> QED BY <1>2, <1>3, <1>4

\* A signal wakes one of those that wait, if any do.
SignalLooks(th) ==
    /\ thr' \in [Threads -> Thread]
    /\ \A u \in Threads : /\ thr'[u].job = th[u].job /\ thr'[u].alt = th[u].alt
                          /\ thr'[u].pc = th[u].pc \/ (u \in Waiters /\ thr'[u].pc = "loop")
    /\ Waiters # {} => \E w \in Waiters : thr'[w].pc = "loop"

LEMMA SignalEffect ==
    ASSUME NEW th \in [Threads -> Thread], Signal(th)
    PROVE  SignalLooks(th)
<1>1. CASE Waiters = {}
  BY <1>1 DEF Signal, SignalLooks
<1>2. CASE Waiters # {}
  <2>1. PICK w \in Waiters : thr' = [th EXCEPT ![w].pc = "loop"]
    BY <1>2 DEF Signal
  <2>2. w \in Threads
    BY DEF Waiters
  <2>3. th[w] \in Thread
    BY <2>2
  <2>4. /\ thr' \in [Threads -> Thread]
        /\ \A u \in Threads : u # w => thr'[u] = th[u]
        /\ thr'[w].pc = "loop" /\ thr'[w].job = th[w].job /\ thr'[w].alt = th[w].alt
    BY <2>1, <2>2, <2>3 DEF Thread, Places
  <2> QED BY <2>2, <2>4 DEF SignalLooks
<1> QED BY <1>1, <1>2

\* The result of a job is read and its memory freed, once.
FreedIn(j) ==
    /\ job' \in [Jobs -> Job]
    /\ \A k \in Jobs : k # j => job'[k] = job[k]
    /\ job'[j].state = "none" /\ job'[j].mutex = "nobody" /\ job'[j].life = "freed"

LEMMA DeliverEffect ==
    ASSUME TypeOK, NEW j \in Jobs, Deliver(j), job[j].life = "alive", job[j].mutex = "nobody"
    PROVE  FreedIn(j)
<1>1. Freed(j) \in Job /\ Freed(j).state = "none" /\ Freed(j).mutex = "nobody" /\ Freed(j).life = "freed"
  BY DEF Freed, Fresh, Job
<1>2. SetJob(j, Freed(j))
  BY DEF Deliver
<1> QED BY <1>1, <1>2, JobEffect DEF FreedIn

LEMMA MlRunEffect ==
    ASSUME MlRun
    PROVE  /\ ml' \in [pc : MlPlaces, job : Jobs \cup {"none"}, n : Nat]
           /\ ml'.pc = "run" /\ ml'.job = "none"
  BY DEF MlRun, MlPlaces

-----------------------------------------------------------------------------
(* execute_job.                                                            *)

\* The job is marked as running.
LEMMA ExecBeginPreserves ==
    ASSUME IInv, NEW t \in Threads, ExecBegin(t)
    PROVE  IInv'
<1> USE DEF IInv
<1> DEFINE j == thr[t].job
<1>1. thr[t].pc = "begin" /\ j \in Jobs /\ Pending(j)
  BY DEF ExecBegin, ThreadInv, BusyInv, At, Idle
<1>2. /\ thr' \in [Threads -> Thread]
      /\ \A u \in Threads : u # t => thr'[u] = thr[u]
      /\ thr'[t].pc = "work" /\ thr'[t].job = j /\ thr'[t].alt = thr[t].alt
  BY GoEffect DEF ExecBegin, Places
<1>3. /\ job' \in [Jobs -> Job]
      /\ \A k \in Jobs : k # j => job'[k] = job[k]
      /\ job'[j].state = "Running" /\ job'[j].mutex = job[j].mutex
      /\ job'[j].life = job[j].life /\ job'[j].fast = job[j].fast
  <2>1. job[j] \in Job
    BY <1>1 DEF TypeOK
  <2>2. [job[j] EXCEPT !.state = "Running"] \in Job
    BY <2>1 DEF Job
  <2> QED BY <1>1, <2>1, <2>2, JobEffect DEF ExecBegin, Job
<1>4. UNCHANGED <<notifyVars, poolVars, switchVars, mlVars, ml, pool_size, signals>>
  BY DEF ExecBegin
<1>5. NotificationsSignalled'
  BY <1>4 DEF NotificationsSignalled, notifyVars, MlAt
<1>6. TypeOK'
  BY <1>1, <1>2, <1>3, <1>4, Types DEF TypeOK, notifyVars, poolVars, switchVars, mlVars
<1>7. ThreadInv'
  BY <1>1, <1>2, <1>3, <1>4, Types DEF ThreadInv, Idle
<1>8. MainInv'
  BY <1>1, <1>2, <1>3, <1>4, Types DEF MainInv, ThreadInv, Idle, switchVars
<1>9. BusyInv'
  BY <1>1, <1>2, <1>3, <1>4, Types, SMTT(60)
     DEF BusyInv, Pending, Over, Busy, Executing, ThreadInv, Idle
<1>10. QueueInv'
  BY <1>1, <1>2, <1>3, <1>4, Types DEF QueueInv, Pending, Over, Busy, Executing, poolVars
<1>11. NotifyInv'
  BY <1>1, <1>2, <1>3, <1>4, Types DEF NotifyInv, Pending, Over, Busy, Executing, notifyVars
<1>12. MlInv'
  BY <1>1, <1>2, <1>3, <1>4, Types DEF MlInv, Pending, Over, Busy, Executing, MlHolds, mlVars,
     poolVars, switchVars
<1>13. WaitInv'
  BY <1>1, <1>2, <1>3, <1>4, Types DEF WaitInv, mlVars, Pending
<1>14. HeldInv'
  BY <1>1, <1>2, <1>3, <1>4, Types DEF HeldInv, Pending, MlHolds, mlVars, poolVars
<1>15. PoolInv'
  BY <1>1, <1>2, <1>3, <1>4, Types DEF PoolInv, poolVars, switchVars
<1>16. WaitersCovered' /\ CheckpointLeft'
  BY <1>1, <1>2, <1>3, <1>4, CountsKept DEF poolVars, switchVars
<1> QED BY <1>5, <1>6, <1>7, <1>8, <1>9, <1>10, <1>11, <1>12, <1>13, <1>14, <1>15, <1>16

\* The job is marked as done, and its mutex is held.
LEMMA MarkDonePreserves ==
    ASSUME IInv, NEW t \in Threads, MarkDone(t)
    PROVE  IInv'
<1> USE DEF IInv
<1> DEFINE j == thr[t].job
<1>1. /\ thr[t].pc = "work" /\ j \in Jobs
      /\ job[j].life = "alive" /\ job[j].state = "Running" /\ job[j].mutex = "nobody"
  BY DEF MarkDone, ThreadInv, BusyInv, At, Idle
<1>2. /\ thr' \in [Threads -> Thread]
      /\ \A u \in Threads : u # t => thr'[u] = thr[u]
      /\ thr'[t].pc = "marked" /\ thr'[t].job = j /\ thr'[t].alt = thr[t].alt
  BY GoEffect DEF MarkDone, Places
<1>3. /\ job' \in [Jobs -> Job]
      /\ \A k \in Jobs : k # j => job'[k] = job[k]
      /\ job'[j].state = "Done" /\ job'[j].mutex = t
      /\ job'[j].life = job[j].life /\ job'[j].fast = job[j].fast
  <2>1. job[j] \in Job
    BY <1>1 DEF TypeOK
  <2> DEFINE f == [job[j] EXCEPT !.state = "Done", !.mutex = t]
  <2>2. /\ f \in Job /\ f.state = "Done" /\ f.mutex = t
        /\ f.life = job[j].life /\ f.fast = job[j].fast
    BY <2>1 DEF Job
  <2>3. SetJob(j, f)
    BY DEF MarkDone
  <2> HIDE DEF f
  <2> QED BY <1>1, <2>2, <2>3, JobEffect
<1>4. UNCHANGED <<notifyVars, poolVars, switchVars, mlVars, ml, pool_size, signals>>
  BY DEF MarkDone
<1>5. NotificationsSignalled'
  BY <1>4 DEF NotificationsSignalled, notifyVars, MlAt
<1>6. TypeOK'
  BY <1>1, <1>2, <1>3, <1>4, Types DEF TypeOK, notifyVars, poolVars, switchVars, mlVars
<1>7. ThreadInv'
  BY <1>1, <1>2, <1>3, <1>4, Types DEF ThreadInv, Idle
<1>8. MainInv'
  BY <1>1, <1>2, <1>3, <1>4, Types DEF MainInv, ThreadInv, Idle, switchVars
<1>9. BusyInv'
  BY <1>1, <1>2, <1>3, <1>4, Types, SMTT(60)
     DEF BusyInv, Pending, Over, Busy, Executing, ThreadInv, Idle
<1>10. QueueInv'
  BY <1>1, <1>2, <1>3, <1>4, Types DEF QueueInv, Pending, Over, Busy, Executing, poolVars
<1>11. NotifyInv'
  BY <1>1, <1>2, <1>3, <1>4, Types DEF NotifyInv, Pending, Over, Busy, Executing, notifyVars
<1>12. MlInv'
  BY <1>1, <1>2, <1>3, <1>4, Types DEF MlInv, Pending, Over, Busy, Executing, MlHolds, mlVars,
     poolVars, switchVars
<1>13. WaitInv'
  BY <1>1, <1>2, <1>3, <1>4, Types DEF WaitInv, mlVars, Pending
<1>14. HeldInv'
  BY <1>1, <1>2, <1>3, <1>4, Types DEF HeldInv, Pending, MlHolds, mlVars, poolVars
<1>15. PoolInv'
  BY <1>1, <1>2, <1>3, <1>4, Types DEF PoolInv, poolVars, switchVars
<1>16. WaitersCovered' /\ CheckpointLeft'
  BY <1>1, <1>2, <1>3, <1>4, CountsKept DEF poolVars, switchVars
<1> QED BY <1>5, <1>6, <1>7, <1>8, <1>9, <1>10, <1>11, <1>12, <1>13, <1>14, <1>15, <1>16

\* The mutex is given up.  A job that OCaml still watches ends without more ado.
LEMMA MarkEndPreserves ==
    ASSUME IInv, NEW t \in Threads, MarkEnd(t)
    PROVE  IInv'
<1> USE DEF IInv
<1> DEFINE j == thr[t].job
<1>1. /\ thr[t].pc = "marked" /\ j \in Jobs
      /\ job[j].life = "alive" /\ job[j].state = "Done" /\ job[j].mutex = t
  BY DEF MarkEnd, ThreadInv, BusyInv, At, Idle
<1>2. /\ thr' \in [Threads -> Thread]
      /\ \A u \in Threads : u # t => thr'[u] = thr[u]
      /\ thr'[t].pc = (IF ~job[j].fast THEN "notify" ELSE IF thr[t].alt THEN "altend" ELSE "loop")
      /\ thr'[t].job = (IF thr'[t].pc = "loop" THEN "none" ELSE j) /\ thr'[t].alt = thr[t].alt
  <2> DEFINE r == IF job[j].fast THEN Finished(t) ELSE [thr[t] EXCEPT !.pc = "notify"]
  <2>1. thr[t] \in Thread
    BY DEF TypeOK
  <2>2. /\ r \in Thread
        /\ r.pc = (IF ~job[j].fast THEN "notify" ELSE IF thr[t].alt THEN "altend" ELSE "loop")
        /\ r.job = (IF r.pc = "loop" THEN "none" ELSE j) /\ r.alt = thr[t].alt
    BY <2>1 DEF Thread, Places, Finished
  <2>3. thr' = [thr EXCEPT ![t] = r]
    BY DEF MarkEnd, TypeOK
  <2> HIDE DEF r
  <2> QED BY <2>2, <2>3, ThreadEffect
<1>3. /\ job' \in [Jobs -> Job]
      /\ \A k \in Jobs : k # j => job'[k] = job[k]
      /\ job'[j].state = "Done" /\ job'[j].mutex = "nobody"
      /\ job'[j].life = job[j].life /\ job'[j].fast = job[j].fast
  <2>1. job[j] \in Job
    BY <1>1 DEF TypeOK
  <2>2. [job[j] EXCEPT !.mutex = "nobody"] \in Job
    BY <2>1 DEF Job
  <2> QED BY <1>1, <2>1, <2>2, JobEffect DEF MarkEnd, Job
<1>4. UNCHANGED <<notifyVars, poolVars, switchVars, mlVars, ml, pool_size, signals>>
  BY DEF MarkEnd
<1>5. NotificationsSignalled'
  BY <1>4 DEF NotificationsSignalled, notifyVars, MlAt
<1>6. TypeOK'
  BY <1>1, <1>2, <1>3, <1>4, Types DEF TypeOK, notifyVars, poolVars, switchVars, mlVars
<1>7. ThreadInv'
  BY <1>1, <1>2, <1>3, <1>4, Types DEF ThreadInv, Idle
<1>8. MainInv'
  BY <1>1, <1>2, <1>3, <1>4, Types DEF MainInv, ThreadInv, Idle, switchVars
<1>9. BusyInv'
  <2>1. \A u \in Threads : thr[u].pc \in Busy /\ u # t => thr[u].job # j
    BY <1>1 DEF BusyInv, Busy, Executing
  <2>2. ASSUME NEW u \in Threads
        PROVE  LET k == thr'[u].job IN
               /\ thr'[u].pc \in {"altsignal", "begin"} =>
                     job'[k].life = "alive" /\ job'[k].state = "Pending" /\ job'[k].mutex = "nobody"
               /\ thr'[u].pc = "work" =>
                     job'[k].life = "alive" /\ job'[k].state = "Running" /\ job'[k].mutex = "nobody"
               /\ thr'[u].pc = "marked" =>
                     job'[k].life = "alive" /\ job'[k].state = "Done" /\ job'[k].mutex = u
               /\ thr'[u].pc = "notify" =>
                     job'[k].life = "alive" /\ job'[k].state = "Done" /\ job'[k].mutex = "nobody" /\ ~job'[k].fast
    <3>1. CASE u = t
      BY <1>1, <1>2, <1>3, <3>1 DEF Pending, Over
    <3>2. CASE u # t
      <4>1. thr'[u] = thr[u]
        BY <1>1, <1>2, <1>3, <3>2
      <4>2. thr[u].pc \in Executing \cup {"altsignal"} => thr[u].job \in Jobs /\ thr[u].job # j
        BY <2>1, <3>2 DEF Busy, Executing, ThreadInv, Idle
      <4> QED BY <1>1, <1>2, <1>3, <4>1, <4>2 DEF BusyInv, Pending, Over, Executing
    <3> QED BY <3>1, <3>2
  <2>3. ASSUME NEW u \in Threads, NEW v \in Threads, thr'[u].pc \in Busy, thr'[v].pc \in Busy,
               thr'[u].job = thr'[v].job
        PROVE  u = v
    BY <1>1, <1>2, <1>3, <2>1, <2>3 DEF BusyInv, Busy, Executing
  <2>4. ASSUME NEW k \in Jobs, job'[k].mutex # "nobody"
        PROVE  thr'[job'[k].mutex].pc = "marked" /\ thr'[job'[k].mutex].job = k
    BY <1>1, <1>2, <1>3, <2>4, Types DEF BusyInv, Pending
  <2> QED BY <2>2, <2>3, <2>4 DEF BusyInv, Pending, Over
<1>10. QueueInv'
  BY <1>1, <1>2, <1>3, <1>4, Types DEF QueueInv, Pending, Over, Busy, Executing, poolVars
<1>11. NotifyInv'
  BY <1>1, <1>2, <1>3, <1>4, Types DEF NotifyInv, Pending, Over, Busy, Executing, notifyVars
<1>12. MlInv'
  BY <1>1, <1>2, <1>3, <1>4, Types DEF MlInv, Pending, Over, Busy, Executing, MlHolds, mlVars,
     poolVars, switchVars, MainInv
<1>13. WaitInv'
  BY <1>1, <1>2, <1>3, <1>4, Types DEF WaitInv, mlVars, Pending
<1>14. HeldInv'
  BY <1>1, <1>2, <1>3, <1>4, Types DEF HeldInv, Pending, MlHolds, mlVars, poolVars
<1>15. PoolInv'
  BY <1>1, <1>2, <1>3, <1>4, Types DEF PoolInv, poolVars, switchVars
<1>16. WaitersCovered' /\ CheckpointLeft'
  BY <1>1, <1>2, <1>3, <1>4, CountsKept DEF poolVars, switchVars
<1> QED BY <1>5, <1>6, <1>7, <1>8, <1>9, <1>10, <1>11, <1>12, <1>13, <1>14, <1>15, <1>16

\* The id is sent.  The job is over and OCaml waits for it.
LEMMA NotifyPreserves ==
    ASSUME IInv, NEW t \in Threads, Notify(t)
    PROVE  IInv'
<1> USE DEF IInv
<1> DEFINE j == thr[t].job
<1>1. thr[t].pc = "notify" /\ j \in Jobs /\ Over(j) /\ ~job[j].fast
  BY DEF Notify, ThreadInv, BusyInv, At, Idle
<1>2. /\ thr' \in [Threads -> Thread]
      /\ \A u \in Threads : u # t => thr'[u] = thr[u]
      /\ thr'[t].pc = (IF thr[t].alt THEN "altend" ELSE "loop")
      /\ thr'[t].job = (IF thr[t].alt THEN j ELSE "none") /\ thr'[t].alt = thr[t].alt
  <2>1. thr[t] \in Thread
    BY DEF TypeOK
  <2>2. /\ Finished(t) \in Thread
        /\ Finished(t).pc = (IF thr[t].alt THEN "altend" ELSE "loop")
        /\ Finished(t).job = (IF thr[t].alt THEN j ELSE "none") /\ Finished(t).alt = thr[t].alt
    BY <2>1 DEF Thread, Places, Finished
  <2> QED BY <2>2, ThreadEffect DEF Notify
<1>3. Send(j)
  BY DEF Notify
<1>4. /\ notifications' \in Seq(Jobs \cup {"signal"}) /\ notification_count' \in Nat /\ fd' \in Nat
      /\ \A i \in DOMAIN notifications' : notifications'[i] = j \/ \E k \in DOMAIN notifications : notifications'[i] = notifications[k]
      /\ fd' > 0 \/ MlAt("alloc")
  BY <1>3, <1>1, SendEffect
<1>5. UNCHANGED <<poolVars, switchVars, mlVars, ml, pool_size, job, signals>>
  BY DEF Notify
<1>6. WaitInv'
  BY <1>5 DEF WaitInv, mlVars, Pending
<1>7. TypeOK'
  BY <1>1, <1>2, <1>3, <1>4, <1>5, Types DEF TypeOK, notifyVars, poolVars, switchVars, mlVars
<1>8. ThreadInv'
  BY <1>1, <1>2, <1>3, <1>4, <1>5, Types DEF ThreadInv, Idle
<1>9. MainInv'
  BY <1>1, <1>2, <1>3, <1>4, <1>5, Types DEF MainInv, ThreadInv, Idle, switchVars
<1>10. BusyInv'
  BY <1>1, <1>2, <1>3, <1>4, <1>5, Types DEF BusyInv, Pending, Over, Busy, Executing,
     ThreadInv, Idle
<1>11. QueueInv'
  BY <1>1, <1>2, <1>3, <1>4, <1>5, Types DEF QueueInv, Pending, Over, Busy, Executing, poolVars
<1>12. NotifyInv'
  <2>1. \A u \in Threads : thr'[u].pc \in Busy => thr[u].pc \in Busy /\ thr'[u].job = thr[u].job /\ thr[u].job # j
    BY <1>1, <1>2, <1>3, <1>4, <1>5 DEF BusyInv, Busy, Executing
  <2> SUFFICES ASSUME NEW i \in DOMAIN notifications', notifications'[i] # "signal"
               PROVE  /\ Over(notifications'[i]) /\ ~job[notifications'[i]].fast
                      /\ \A u \in Threads : thr'[u].pc \in Busy => thr'[u].job # notifications'[i]
    BY <1>1, <1>2, <1>3, <1>4, <1>5 DEF NotifyInv, Over
  <2>2. CASE notifications'[i] = j
    BY <1>1, <1>2, <1>3, <1>4, <1>5, <2>1, <2>2
  <2>3. CASE \E k \in DOMAIN notifications : notifications'[i] = notifications[k]
    BY <2>1, <2>3 DEF NotifyInv
  <2> QED BY <1>1, <1>2, <1>3, <1>4, <1>5, <2>2, <2>3
<1>13. MlInv'
  BY <1>1, <1>2, <1>3, <1>4, <1>5, Types DEF MlInv, Pending, Over, Busy, Executing, MlHolds,
     mlVars, poolVars, switchVars, MainInv
<1>14. HeldInv'
  BY <1>1, <1>2, <1>3, <1>4, <1>5, Types DEF HeldInv, Pending, MlHolds, mlVars, poolVars
<1>15. PoolInv'
  BY <1>1, <1>2, <1>3, <1>4, <1>5, Types DEF PoolInv, poolVars, switchVars
<1>16. WaitersCovered' /\ CheckpointLeft'
  BY <1>1, <1>2, <1>3, <1>4, <1>5, CountsKept DEF poolVars, switchVars
<1>17. NotificationsSignalled'
  BY <1>1, <1>2, <1>3, <1>4, <1>5 DEF NotificationsSignalled, MlAt
<1> QED BY <1>6, <1>7, <1>8, <1>9, <1>10, <1>11, <1>12, <1>13, <1>14, <1>15, <1>16, <1>17

-----------------------------------------------------------------------------
(* worker_loop.                                                            *)

\* A thread waits, and counts itself.
LEMMA WaitPreserves ==
    ASSUME IInv, NEW t \in Threads, Wait(t)
    PROVE  IInv'
<1> USE DEF IInv
<1>1. thr[t].pc = "loop" /\ pool_queue = <<>> /\ t # main_thread
  BY Types DEF Wait, At, MainInv, ThreadInv, Idle
<1>2. /\ thr' \in [Threads -> Thread]
      /\ \A u \in Threads : u # t => thr'[u] = thr[u]
      /\ thr'[t].pc = "waiting" /\ thr'[t].job = thr[t].job /\ thr'[t].alt = thr[t].alt
  BY GoEffect DEF Wait, Places
<1>3. UNCHANGED <<notifyVars, switchVars, mlVars, ml, pool_size, job, signals, pool_queue, thread_count>>
  BY DEF Wait
<1>4. thread_waiting_count' = thread_waiting_count + 1
  BY DEF Wait
<1>5. WaitInv' /\ NotificationsSignalled'
  BY <1>3 DEF WaitInv, mlVars, Pending, NotificationsSignalled, notifyVars, MlAt
<1>6. TypeOK'
  BY <1>1, <1>2, <1>3, <1>4, Types DEF TypeOK, notifyVars, poolVars, switchVars, mlVars
<1>7. ThreadInv'
  BY <1>1, <1>2, <1>3, <1>4, Types DEF ThreadInv, Idle
<1>8. MainInv'
  BY <1>1, <1>2, <1>3, <1>4, Types DEF MainInv, ThreadInv, Idle, switchVars
<1>9. BusyInv'
  BY <1>1, <1>2, <1>3, <1>4, Types DEF BusyInv, Pending, Over, Busy, Executing, ThreadInv, Idle
<1>10. QueueInv'
  BY <1>1, <1>2, <1>3, <1>4, Types DEF QueueInv, Pending, Over, Busy, Executing, poolVars
<1>11. NotifyInv'
  BY <1>1, <1>2, <1>3, <1>4, Types DEF NotifyInv, Pending, Over, Busy, Executing, notifyVars
<1>12. MlInv'
  BY <1>1, <1>2, <1>3, <1>4, Types DEF MlInv, Pending, Over, Busy, Executing, MlHolds, mlVars,
     poolVars, switchVars
<1>13. HeldInv'
  BY <1>1, <1>2, <1>3, <1>4, Types DEF HeldInv, Pending, MlHolds, mlVars, poolVars
<1>14. PoolInv'
  BY <1>1, <1>2, <1>3, <1>4, Types DEF PoolInv, poolVars, switchVars
<1>15. WaitersCovered' /\ CheckpointLeft'
  <2>1. Waiters' = Waiters \cup {t} /\ t \notin Waiters /\ Waiters \subseteq Threads
    BY <1>1, <1>2, <1>3, <1>4 DEF Waiters, At
  <2>2. Cardinality(Waiters') = Cardinality(Waiters) + 1 /\ Cardinality(Waiters) \in Nat
    BY <2>1, FinThreads, FS_Subset, FS_AddElement, FS_CardinalityType
  <2>3. WaitersCovered'
    BY <1>1, <1>2, <1>3, <1>4, <2>2 DEF WaitersCovered, TypeOK
  <2>4. {u \in Threads : thr'[u].alt /\ u # main_thread'} = {u \in Threads : thr[u].alt /\ u # main_thread}
    BY <1>1, <1>2, <1>3, <1>4 DEF switchVars
  <2> QED BY <1>1, <1>2, <1>3, <1>4, <2>3, <2>4 DEF CheckpointLeft, switchVars
<1> QED BY <1>5, <1>6, <1>7, <1>8, <1>9, <1>10, <1>11, <1>12, <1>13, <1>14, <1>15

\* A thread wakes for nothing.
LEMMA SpuriousPreserves ==
    ASSUME IInv, NEW t \in Threads, Spurious(t)
    PROVE  IInv'
<1> USE DEF IInv
<1>1. thr[t].pc = "waiting" /\ t # main_thread
  BY Types DEF Spurious, At, MainInv, ThreadInv, Idle
<1>2. /\ thr' \in [Threads -> Thread]
      /\ \A u \in Threads : u # t => thr'[u] = thr[u]
      /\ thr'[t].pc = "loop" /\ thr'[t].job = thr[t].job /\ thr'[t].alt = thr[t].alt
  BY GoEffect DEF Spurious, Places
<1>3. UNCHANGED <<notifyVars, poolVars, switchVars, mlVars, ml, pool_size, job, signals>>
  BY DEF Spurious
<1>4. WaitInv' /\ NotificationsSignalled'
  BY <1>3 DEF WaitInv, mlVars, Pending, NotificationsSignalled, notifyVars, MlAt
<1>5. TypeOK'
  BY <1>1, <1>2, <1>3, Types DEF TypeOK, notifyVars, poolVars, switchVars, mlVars
<1>6. ThreadInv'
  BY <1>1, <1>2, <1>3, Types DEF ThreadInv, Idle
<1>7. MainInv'
  BY <1>1, <1>2, <1>3, Types DEF MainInv, ThreadInv, Idle, switchVars
<1>8. BusyInv'
  BY <1>1, <1>2, <1>3, Types DEF BusyInv, Pending, Over, Busy, Executing, ThreadInv, Idle
<1>9. QueueInv'
  BY <1>1, <1>2, <1>3, Types DEF QueueInv, Pending, Over, Busy, Executing, poolVars
<1>10. NotifyInv'
  BY <1>1, <1>2, <1>3, Types DEF NotifyInv, Pending, Over, Busy, Executing, notifyVars
<1>11. MlInv'
  BY <1>1, <1>2, <1>3, Types DEF MlInv, Pending, Over, Busy, Executing, MlHolds, mlVars,
     poolVars, switchVars
<1>12. HeldInv'
  BY <1>1, <1>2, <1>3, Types DEF HeldInv, Pending, MlHolds, mlVars, poolVars
<1>13. PoolInv'
  BY <1>1, <1>2, <1>3, Types DEF PoolInv, poolVars, switchVars
<1>14. WaitersCovered' /\ CheckpointLeft'
  BY <1>1, <1>2, <1>3, CountsKept DEF poolVars, switchVars
<1> QED BY <1>4, <1>5, <1>6, <1>7, <1>8, <1>9, <1>10, <1>11, <1>12, <1>13, <1>14

\* A thread takes the OCaml code over from the one that is blocked.
LEMMA BecomeMainPreserves ==
    ASSUME IInv, NEW t \in Threads, BecomeMain(t)
    PROVE  IInv'
<1> USE DEF IInv
<1>1. /\ thr[t].pc = "loop" /\ thr[t].job = "none" /\ ~thr[t].alt
      /\ main_state = "Blocked" /\ ml.pc = "blocked" /\ ml.job \in Jobs /\ ml.job # "none"
      /\ main_thread \in Threads /\ main_thread # t /\ thr[main_thread].alt
      /\ thr[main_thread].pc \in Busy \cup {"altend"}
  <2>1. thr[t].pc = "loop" /\ thr[t].job = "none" /\ ~thr[t].alt
    BY DEF BecomeMain, At, ThreadInv, Idle
  <2>2. main_state = "Blocked" /\ ml.pc = "blocked" /\ main_thread \in Threads /\ thr[main_thread].alt
    BY Types DEF BecomeMain, MainInv
  <2>3. ml.job \in Jobs /\ ml.job # "none"
    BY <2>2, Types DEF MlInv
  <2> QED BY <2>1, <2>2, <2>3, Types DEF ThreadInv, Idle, Busy, Executing, Places
<1>2. /\ thr' \in [Threads -> Thread]
      /\ \A u \in Threads : u # t => thr'[u] = thr[u]
      /\ thr'[t].pc = "ml" /\ thr'[t].job = thr[t].job /\ thr'[t].alt = thr[t].alt
  BY GoEffect DEF BecomeMain, Places
<1>3. /\ ml' \in [pc : MlPlaces, job : Jobs \cup {"none"}, n : Nat]
      /\ ml'.pc = "started" /\ ml'.job = ml.job
      /\ main_thread' = t /\ main_state' = "Running" /\ become_worker' = become_worker + 1
  BY DEF BecomeMain, TypeOK, MlGo, MlPlaces
<1>4. UNCHANGED <<notifyVars, poolVars, mlVars, pool_size, job, signals>>
  BY DEF BecomeMain
<1>5. WaitInv'
  BY <1>4 DEF WaitInv, mlVars, Pending
<1>6. TypeOK'
  BY <1>1, <1>2, <1>3, <1>4, Types DEF TypeOK, notifyVars, poolVars, switchVars, mlVars
<1>7. ThreadInv'
  BY <1>1, <1>2, <1>3, <1>4, Types DEF ThreadInv, Idle
<1>8. MainInv'
  BY <1>1, <1>2, <1>3, <1>4, Types DEF MainInv, ThreadInv, Idle, switchVars
<1>9. BusyInv'
  BY <1>1, <1>2, <1>3, <1>4, Types DEF BusyInv, Pending, Over, Busy, Executing, ThreadInv, Idle
<1>10. QueueInv'
  BY <1>1, <1>2, <1>3, <1>4, Types DEF QueueInv, Pending, Over, Busy, Executing, poolVars
<1>11. NotifyInv'
  BY <1>1, <1>2, <1>3, <1>4, Types DEF NotifyInv, Pending, Over, Busy, Executing, notifyVars
<1>12. MlInv'
  BY <1>1, <1>2, <1>3, <1>4, Types DEF MlInv, Pending, Over, Busy, Executing, MlHolds, mlVars,
     poolVars, switchVars
<1>13. HeldInv'
  BY <1>1, <1>2, <1>3, <1>4, Types DEF HeldInv, Pending, MlHolds, mlVars, poolVars
<1>14. PoolInv'
  BY <1>1, <1>2, <1>3, <1>4, Types DEF PoolInv, poolVars, switchVars, Busy, Executing
<1>15. WaitersCovered' /\ CheckpointLeft'
  <2> DEFINE A == {u \in Threads : thr[u].alt /\ u # main_thread}
             B == {u \in Threads : thr'[u].alt /\ u # main_thread'}
  <2>1. B = A \cup {main_thread} /\ main_thread \notin A /\ A \subseteq Threads
    BY <1>1, <1>2, <1>3, <1>4
  <2>2. IsFiniteSet(A)
    BY <2>1, FinThreads, FS_Subset
  <2>3. Cardinality(B) = Cardinality(A) + 1
    BY <2>1, <2>2, FS_AddElement
  <2>4. CheckpointLeft'
    BY <1>1, <1>2, <1>3, <1>4, <2>3 DEF CheckpointLeft
  <2>5. Waiters' = Waiters
    BY <1>1, <1>2, <1>3, <1>4 DEF Waiters, At
  <2> QED BY <1>1, <1>2, <1>3, <1>4, <2>4, <2>5 DEF WaitersCovered, poolVars
<1>16. NotificationsSignalled'
  BY <1>1, <1>2, <1>3, <1>4, Types DEF NotificationsSignalled, notifyVars, MlAt
<1> QED BY <1>5, <1>6, <1>7, <1>8, <1>9, <1>10, <1>11, <1>12, <1>13, <1>14, <1>15, <1>16

\* A thread takes the first job of the queue.
LEMMA TakePreserves ==
    ASSUME IInv, NEW t \in Threads, Take(t)
    PROVE  IInv'
<1> USE DEF IInv
<1>1. PICK j \in Jobs :
          /\ thr' = [thr EXCEPT ![t].pc = "begin", ![t].job = j]
          /\ j = pool_queue[1] /\ 1 \in DOMAIN pool_queue /\ Pending(j)
          /\ pool_queue # <<>> /\ pool_queue' = Tail(pool_queue)
  <2>1. pool_queue # <<>> /\ pool_queue \in Seq(Jobs)
    BY DEF Take, TypeOK
  <2>2. Head(pool_queue) \in Jobs /\ Head(pool_queue) = pool_queue[1] /\ 1 \in DOMAIN pool_queue
    BY <2>1
  <2>3. Pending(pool_queue[1])
    BY <2>2 DEF QueueInv
  <2> QED BY <2>1, <2>2, <2>3 DEF Take
<1>2. thr[t].pc = "loop" /\ ~thr[t].alt /\ t # main_thread
  BY Types DEF Take, At, MainInv, ThreadInv, Idle
<1>3. /\ thr' \in [Threads -> Thread]
      /\ \A u \in Threads : u # t => thr'[u] = thr[u]
      /\ thr'[t].pc = "begin" /\ thr'[t].job = j /\ thr'[t].alt = FALSE
  <2> DEFINE r == [thr[t] EXCEPT !.pc = "begin", !.job = j]
  <2>1. thr[t] \in Thread
    BY DEF TypeOK
  <2>2. r \in Thread /\ r.pc = "begin" /\ r.job = j /\ r.alt = FALSE
    BY <1>2, <2>1 DEF Thread, Places
  <2>3. thr' = [thr EXCEPT ![t] = r]
    BY <1>1 DEF TypeOK
  <2> HIDE DEF r
  <2> QED BY <2>2, <2>3, ThreadEffect
<1>4. /\ pool_queue' \in Seq(Jobs) /\ Len(pool_queue') = Len(pool_queue) - 1
      /\ \A i \in DOMAIN pool_queue' : i + 1 \in DOMAIN pool_queue /\ pool_queue'[i] = pool_queue[i + 1]
      /\ \A i \in DOMAIN pool_queue : i # 1 => i - 1 \in DOMAIN pool_queue' /\ pool_queue'[i - 1] = pool_queue[i]
  <2>1. pool_queue \in Seq(Jobs)
    BY DEF TypeOK
  <2> QED BY <1>1, <2>1, HeadTailProperties
<1>5. /\ \A u \in Threads : thr[u].pc \in Busy => thr[u].job # j
      /\ \A i \in DOMAIN pool_queue : i # 1 => pool_queue[i] # j
      /\ ml.pc \in MlHolds => ml.job # j
  BY <1>1 DEF QueueInv, MlInv
<1>6. UNCHANGED <<notifyVars, switchVars, mlVars, ml, pool_size, job, signals, thread_waiting_count, thread_count>>
  BY DEF Take
<1>7. WaitInv' /\ NotificationsSignalled'
  BY <1>6 DEF WaitInv, mlVars, Pending, NotificationsSignalled, notifyVars, MlAt
<1>8. TypeOK'
  BY <1>1, <1>2, <1>3, <1>4, <1>5, <1>6, Types DEF TypeOK, notifyVars, poolVars, switchVars,
     mlVars
<1>9. ThreadInv'
  BY <1>1, <1>2, <1>3, <1>4, <1>5, <1>6, Types DEF ThreadInv, Idle
<1>10. MainInv'
  BY <1>1, <1>2, <1>3, <1>4, <1>5, <1>6, Types DEF MainInv, ThreadInv, Idle, switchVars
<1>11. BusyInv'
  <2>1. \A u \in Threads : thr[u].pc \in Busy /\ u # t => thr[u].job # j
    BY <1>5
  <2>2. ASSUME NEW u \in Threads
        PROVE  LET k == thr'[u].job IN
               /\ thr'[u].pc \in {"altsignal", "begin"} =>
                     job'[k].life = "alive" /\ job'[k].state = "Pending" /\ job'[k].mutex = "nobody"
               /\ thr'[u].pc = "work" =>
                     job'[k].life = "alive" /\ job'[k].state = "Running" /\ job'[k].mutex = "nobody"
               /\ thr'[u].pc = "marked" =>
                     job'[k].life = "alive" /\ job'[k].state = "Done" /\ job'[k].mutex = u
               /\ thr'[u].pc = "notify" =>
                     job'[k].life = "alive" /\ job'[k].state = "Done" /\ job'[k].mutex = "nobody" /\ ~job'[k].fast
    <3>1. CASE u = t
      BY <1>1, <1>3, <1>6, <3>1 DEF Pending, Over
    <3>2. CASE u # t
      <4>1. thr'[u] = thr[u]
        BY <1>1, <1>3, <1>6, <3>2
      <4>2. thr[u].pc \in Executing \cup {"altsignal"} => thr[u].job \in Jobs /\ thr[u].job # j
        BY <2>1, <3>2 DEF Busy, Executing, ThreadInv, Idle
      <4> QED BY <1>1, <1>3, <1>6, <4>1, <4>2 DEF BusyInv, Pending, Over, Executing
    <3> QED BY <3>1, <3>2
  <2>3. ASSUME NEW u \in Threads, NEW v \in Threads, thr'[u].pc \in Busy, thr'[v].pc \in Busy,
               thr'[u].job = thr'[v].job
        PROVE  u = v
    BY <1>1, <1>3, <1>6, <2>1, <2>3 DEF BusyInv, Busy, Executing
  <2>4. ASSUME NEW k \in Jobs, job'[k].mutex # "nobody"
        PROVE  thr'[job'[k].mutex].pc = "marked" /\ thr'[job'[k].mutex].job = k
    <3>1. job[k].mutex # "nobody" /\ job'[k].mutex = job[k].mutex /\ job[k].mutex \in Threads
      BY <1>6, <2>4 DEF TypeOK, Job
    <3>2. thr[job[k].mutex].pc = "marked" /\ thr[job[k].mutex].job = k
      BY <3>1 DEF BusyInv
    <3>3. job[k].mutex # t
      BY <1>2, <3>2
    <3> QED BY <1>3, <3>1, <3>2, <3>3
  <2> QED BY <2>2, <2>3, <2>4 DEF BusyInv, Pending, Over
<1>12. QueueInv'
  BY <1>1, <1>2, <1>3, <1>4, <1>5, <1>6, Types DEF QueueInv, Pending, Over, Busy, Executing,
     poolVars
<1>13. NotifyInv'
  BY <1>1, <1>2, <1>3, <1>4, <1>5, <1>6, Types DEF NotifyInv, Pending, Over, Busy, Executing,
     notifyVars
<1>14. MlInv'
  BY <1>1, <1>2, <1>3, <1>4, <1>5, <1>6, Types DEF MlInv, Pending, Over, Busy, Executing,
     MlHolds, mlVars, poolVars, switchVars
<1>15. HeldInv'
  <2> SUFFICES ASSUME NEW k \in Jobs,
                      job[k].life = "alive", job[k].state \in {"Pending", "Running"},
                      ~(ml.job = k /\ ml.pc \in MlHolds)
               PROVE  \/ \E i \in DOMAIN pool_queue' : pool_queue'[i] = k
                      \/ \E u \in Threads : thr'[u].job = k /\ thr'[u].pc \in {"altsignal", "begin", "work"}
    BY <1>6 DEF HeldInv
  <2>1. CASE k = j
    BY <2>1, <1>3
  <2>2. CASE k # j /\ \E i \in DOMAIN pool_queue : pool_queue[i] = k
    BY <2>2, <1>1, <1>4
  <2>3. CASE \E u \in Threads : thr[u].job = k /\ thr[u].pc \in {"altsignal", "begin", "work"}
    BY <2>3, <1>2, <1>3
  <2> QED BY <2>1, <2>2, <2>3 DEF HeldInv
<1>16. PoolInv'
  BY <1>1, <1>2, <1>3, <1>4, <1>5, <1>6, Types DEF PoolInv, poolVars, switchVars
<1>17. WaitersCovered' /\ CheckpointLeft'
  BY <1>1, <1>2, <1>3, <1>4, <1>5, <1>6, CountsKept DEF poolVars, switchVars
<1> QED BY <1>7, <1>8, <1>9, <1>10, <1>11, <1>12, <1>13, <1>14, <1>15, <1>16, <1>17

-----------------------------------------------------------------------------
(* altstack_worker.                                                        *)

\* A waiting thread, if there is one, is woken.
LEMMA AltSignalPreserves ==
    ASSUME IInv, NEW t \in Threads, AltSignal(t)
    PROVE  IInv'
<1> USE DEF IInv
<1>1. thr[t].pc = "altsignal" /\ thr[t].job \in Jobs /\ Pending(thr[t].job)
  BY DEF AltSignal, At, ThreadInv, BusyInv, Idle
<1>2. /\ thr' \in [Threads -> Thread]
      /\ thr'[t].pc = "begin" /\ thr'[t].job = thr[t].job /\ thr'[t].alt = thr[t].alt
      /\ \A u \in Threads : /\ thr'[u].job = thr[u].job /\ thr'[u].alt = thr[u].alt
                            /\ u # t => thr'[u].pc = thr[u].pc \/ (thr[u].pc = "waiting" /\ thr'[u].pc = "loop")
  <2> DEFINE th == [thr EXCEPT ![t].pc = "begin"]
  <2>1. /\ th \in [Threads -> Thread]
        /\ \A u \in Threads : u # t => th[u] = thr[u]
        /\ th[t].pc = "begin" /\ th[t].job = thr[t].job /\ th[t].alt = thr[t].alt
    BY DEF TypeOK, Thread, Places
  <2>2. Signal(th)
    BY DEF AltSignal
  <2> HIDE DEF th
  <2>3. SignalLooks(th)
    BY <2>1, <2>2, <1>1, SignalEffect DEF Waiters, At
  <2> QED BY <2>1, <2>3, <1>1 DEF SignalLooks, Waiters, At
<1>3. UNCHANGED <<notifyVars, poolVars, switchVars, mlVars, ml, pool_size, job, signals>>
  BY DEF AltSignal
<1>4. WaitInv' /\ NotificationsSignalled'
  BY <1>3 DEF WaitInv, mlVars, Pending, NotificationsSignalled, notifyVars, MlAt
<1>5. TypeOK'
  BY <1>1, <1>2, <1>3, Types DEF TypeOK, notifyVars, poolVars, switchVars, mlVars
<1>6. ThreadInv'
  BY <1>1, <1>2, <1>3, Types DEF ThreadInv, Idle
<1>7. MainInv'
  BY <1>1, <1>2, <1>3, Types DEF MainInv, ThreadInv, Idle, switchVars
<1>8. BusyInv'
  BY <1>1, <1>2, <1>3, Types DEF BusyInv, Pending, Over, Busy, Executing, ThreadInv, Idle
<1>9. QueueInv'
  BY <1>1, <1>2, <1>3, Types DEF QueueInv, Pending, Over, Busy, Executing, poolVars
<1>10. NotifyInv'
  BY <1>1, <1>2, <1>3, Types DEF NotifyInv, Pending, Over, Busy, Executing, notifyVars
<1>11. MlInv'
  BY <1>1, <1>2, <1>3, Types DEF MlInv, Pending, Over, Busy, Executing, MlHolds, mlVars,
     poolVars, switchVars, MainInv, ThreadInv, Idle
<1>12. HeldInv'
  BY <1>1, <1>2, <1>3, Types DEF HeldInv, Pending, MlHolds, mlVars, poolVars
<1>13. PoolInv'
  BY <1>1, <1>2, <1>3, Types DEF PoolInv, poolVars, switchVars
<1>14. WaitersCovered' /\ CheckpointLeft'
  BY <1>1, <1>2, <1>3, CountsKept DEF poolVars, switchVars
<1> QED BY <1>4, <1>5, <1>6, <1>7, <1>8, <1>9, <1>10, <1>11, <1>12, <1>13, <1>14

\* The call is over and its result read: the OCaml code goes on here.
LEMMA AltStayPreserves ==
    ASSUME IInv, NEW t \in Threads, AltStay(t)
    PROVE  IInv'
<1> USE DEF IInv
<1> DEFINE j == thr[t].job
<1>1. /\ thr[t].pc = "altend" /\ thr[t].alt /\ t = main_thread /\ ml.pc = "blocked" /\ ml.job = j
      /\ j \in Jobs /\ Over(j) /\ job[j].fast /\ j \notin notifiers
  <2>1. thr[t].pc = "altend" /\ thr[t].alt /\ t = main_thread
    BY DEF AltStay, At, ThreadInv
  <2>2. main_state = "Blocked" /\ ml.pc = "blocked" /\ ml.job = j
    BY <2>1, Types DEF MainInv
  <2> QED BY <2>1, <2>2 DEF MlInv, ThreadInv, Idle
<1>2. /\ thr' \in [Threads -> Thread]
      /\ \A u \in Threads : u # t => thr'[u] = thr[u]
      /\ thr'[t].pc = "ml" /\ thr'[t].job = "none" /\ thr'[t].alt = FALSE
  <2> DEFINE r == [pc |-> "ml", job |-> "none", alt |-> FALSE]
  <2>1. r \in Thread /\ r.pc = "ml" /\ r.job = "none" /\ r.alt = FALSE
    BY DEF Thread, Places
  <2>2. thr' = [thr EXCEPT ![t] = r]
    BY DEF AltStay
  <2> HIDE DEF r
  <2> QED BY <2>1, <2>2, ThreadEffect
<1>3. FreedIn(j)
  BY <1>1, DeliverEffect DEF AltStay, Over
<1>4. /\ ml' \in [pc : MlPlaces, job : Jobs \cup {"none"}, n : Nat]
      /\ ml'.pc = "run" /\ ml'.job = "none" /\ main_state' = "Running"
  BY MlRunEffect DEF AltStay
<1>5. UNCHANGED <<notifyVars, poolVars, main_thread, become_worker, notifiers, paused, pool_size, signals>>
  BY DEF AltStay
<1>6. \A u \in Threads : thr[u].pc \in Busy => thr[u].job # j
  BY <1>1, Types DEF BusyInv, Busy, Executing, Over, Pending
<1>7. TypeOK'
  BY <1>1, <1>2, <1>3, <1>4, <1>5, <1>6, Types DEF TypeOK, notifyVars, poolVars, switchVars,
     mlVars, FreedIn
<1>8. ThreadInv'
  BY <1>1, <1>2, <1>3, <1>4, <1>5, <1>6, Types DEF ThreadInv, Idle
<1>9. MainInv'
  BY <1>1, <1>2, <1>3, <1>4, <1>5, <1>6, Types DEF MainInv, ThreadInv, Idle, switchVars
<1>10. BusyInv'
  BY <1>1, <1>2, <1>3, <1>4, <1>5, <1>6, Types DEF BusyInv, Pending, Over, Busy, Executing,
     ThreadInv, Idle, FreedIn
<1>11. QueueInv'
  BY <1>1, <1>2, <1>3, <1>4, <1>5, <1>6, Types DEF QueueInv, Pending, Over, Busy, Executing,
     poolVars, FreedIn
<1>12. NotifyInv'
  BY <1>1, <1>2, <1>3, <1>4, <1>5, <1>6, Types DEF NotifyInv, Pending, Over, Busy, Executing,
     notifyVars, FreedIn
<1>13. MlInv'
  BY <1>1, <1>2, <1>3, <1>4, <1>5, <1>6, Types DEF MlInv, Pending, Over, Busy, Executing,
     MlHolds, mlVars, poolVars, switchVars, FreedIn
<1>14. WaitInv'
  BY <1>1, <1>2, <1>3, <1>4, <1>5, <1>6, Types DEF WaitInv, mlVars, Pending, FreedIn
<1>15. HeldInv'
  BY <1>1, <1>2, <1>3, <1>4, <1>5, <1>6, Types DEF HeldInv, Pending, MlHolds, mlVars, poolVars,
     FreedIn
<1>16. PoolInv'
  BY <1>1, <1>2, <1>3, <1>4, <1>5, <1>6, Types DEF PoolInv, poolVars, switchVars
<1>17. WaitersCovered' /\ CheckpointLeft'
  <2>1. {u \in Threads : thr'[u].alt /\ u # main_thread'} = {u \in Threads : thr[u].alt /\ u # main_thread}
    BY <1>1, <1>2, <1>3, <1>4, <1>5, <1>6
  <2>2. Waiters' = Waiters
    BY <1>1, <1>2, <1>3, <1>4, <1>5, <1>6 DEF Waiters, At
  <2> QED BY <1>1, <1>2, <1>3, <1>4, <1>5, <1>6, <2>1, <2>2 DEF CheckpointLeft, WaitersCovered, poolVars
<1>18. NotificationsSignalled'
  BY <1>1, <1>2, <1>3, <1>4, <1>5, <1>6, Types DEF NotificationsSignalled, notifyVars, MlAt
<1> QED BY <1>7, <1>8, <1>9, <1>10, <1>11, <1>12, <1>13, <1>14, <1>15, <1>16, <1>17, <1>18

\* The call is over, and the thread takes the other's place in worker_loop.
LEMMA AltWorkerPreserves ==
    ASSUME IInv, NEW t \in Threads, AltWorker(t)
    PROVE  IInv'
<1> USE DEF IInv
<1>1. thr[t].pc = "altend" /\ thr[t].alt /\ t # main_thread /\ become_worker > 0
  BY DEF AltWorker, At, ThreadInv
<1>2. /\ thr' \in [Threads -> Thread]
      /\ \A u \in Threads : u # t => thr'[u] = thr[u]
      /\ thr'[t].pc = "loop" /\ thr'[t].job = "none" /\ thr'[t].alt = FALSE
  <2> DEFINE r == [pc |-> "loop", job |-> "none", alt |-> FALSE]
  <2>1. r \in Thread /\ r.pc = "loop" /\ r.job = "none" /\ r.alt = FALSE
    BY DEF Thread, Places
  <2>2. thr' = [thr EXCEPT ![t] = r]
    BY DEF AltWorker
  <2> HIDE DEF r
  <2> QED BY <2>1, <2>2, ThreadEffect
<1>3. /\ UNCHANGED <<notifyVars, poolVars, mlVars, main_thread, main_state, ml, pool_size, job, signals>>
      /\ become_worker' = become_worker - 1
  BY DEF AltWorker
<1>4. WaitInv' /\ NotificationsSignalled'
  BY <1>3 DEF WaitInv, mlVars, Pending, NotificationsSignalled, notifyVars, MlAt
<1>5. TypeOK'
  BY <1>1, <1>2, <1>3, Types DEF TypeOK, notifyVars, poolVars, switchVars, mlVars
<1>6. ThreadInv'
  BY <1>1, <1>2, <1>3, Types DEF ThreadInv, Idle
<1>7. MainInv'
  BY <1>1, <1>2, <1>3, Types DEF MainInv, ThreadInv, Idle, switchVars
<1>8. BusyInv'
  BY <1>1, <1>2, <1>3, Types DEF BusyInv, Pending, Over, Busy, Executing, ThreadInv, Idle
<1>9. QueueInv'
  BY <1>1, <1>2, <1>3, Types DEF QueueInv, Pending, Over, Busy, Executing, poolVars
<1>10. NotifyInv'
  BY <1>1, <1>2, <1>3, Types DEF NotifyInv, Pending, Over, Busy, Executing, notifyVars
<1>11. MlInv'
  BY <1>1, <1>2, <1>3, Types DEF MlInv, Pending, Over, Busy, Executing, MlHolds, mlVars,
     poolVars, switchVars
<1>12. HeldInv'
  BY <1>1, <1>2, <1>3, Types DEF HeldInv, Pending, MlHolds, mlVars, poolVars
<1>13. PoolInv'
  BY <1>1, <1>2, <1>3, Types DEF PoolInv, poolVars, switchVars
<1>14. WaitersCovered' /\ CheckpointLeft'
  <2> DEFINE A == {u \in Threads : thr[u].alt /\ u # main_thread}
             B == {u \in Threads : thr'[u].alt /\ u # main_thread'}
  <2>1. B = A \ {t} /\ t \in A /\ A \subseteq Threads
    BY <1>1, <1>2, <1>3
  <2>2. IsFiniteSet(A)
    BY <2>1, FinThreads, FS_Subset
  <2>3. Cardinality(B) = Cardinality(A) - 1
    BY <2>1, <2>2, FS_RemoveElement
  <2>4. CheckpointLeft'
    BY <1>1, <1>2, <1>3, <2>3 DEF CheckpointLeft
  <2>5. Waiters' = Waiters
    BY <1>1, <1>2, <1>3 DEF Waiters, At
  <2> QED BY <1>1, <1>2, <1>3, <2>4, <2>5 DEF WaitersCovered, poolVars
<1> QED BY <1>4, <1>5, <1>6, <1>7, <1>8, <1>9, <1>10, <1>11, <1>12, <1>13, <1>14

-----------------------------------------------------------------------------
(* start_job, and run_job_aux around it.                                   *)

\* A job is created, and nobody but OCaml has it.
LEMMA StartJobPreserves ==
    ASSUME IInv, NEW j \in Jobs, NEW asked \in Methods, StartJob(j, asked)
    PROVE  IInv'
<1> USE DEF IInv
<1>1. ml.pc = "run" /\ ml.job = "none" /\ job[j].life = "unborn"
  BY DEF StartJob, MlAt, MlInv
<1>2. /\ job' \in [Jobs -> Job]
      /\ \A k \in Jobs : k # j => job'[k] = job[k]
      /\ job'[j].state = "Pending" /\ job'[j].mutex = "nobody"
      /\ job'[j].life = "alive" /\ job'[j].fast
  <2> DEFINE f == [Fresh EXCEPT !.state = "Pending", !.life = "alive"]
  <2>1. f \in Job /\ f.state = "Pending" /\ f.mutex = "nobody" /\ f.life = "alive" /\ f.fast
    BY DEF Fresh, Job
  <2>2. SetJob(j, f)
    BY DEF StartJob
  <2> HIDE DEF f
  <2> QED BY <2>1, <2>2, JobEffect
<1>3. /\ ml' \in [pc : MlPlaces, job : Jobs \cup {"none"}, n : Nat]
      /\ ml'.pc \in {"sync", "detach", "switch"} /\ ml'.job = j
      /\ ml'.pc # "sync" => thread_waiting_count > 0 \/ thread_count < pool_size
  <2>1. asked \in {"None", "Detach", "Switch"} /\ pool_size \in Nat /\ thread_count \in Nat /\ thread_waiting_count \in Nat
    BY JobsAssumption DEF TypeOK
  <2>2. /\ MethodUsed(asked) \in {"None", "Detach", "Switch"}
        /\ MethodUsed(asked) # "None" => thread_waiting_count > 0 \/ thread_count < pool_size
    BY <2>1 DEF MethodUsed, NoRoom
  <2> QED BY <2>2 DEF StartJob, TypeOK, MlPlaces
<1>4. UNCHANGED <<notifyVars, poolVars, switchVars, mlVars, thr, pool_size, signals>>
  BY DEF StartJob
<1>5. /\ \A t \in Threads : thr[t].pc \in Busy => thr[t].job # j
      /\ \A i \in DOMAIN pool_queue : pool_queue[i] # j
      /\ j \notin notifiers
  BY <1>1 DEF BusyInv, QueueInv, WaitInv, Busy, Executing, Over, Pending
<1>6. ThreadInv' /\ PoolInv' /\ WaitersCovered' /\ CheckpointLeft'
  BY <1>4 DEF ThreadInv, Idle, PoolInv, poolVars, switchVars, WaitersCovered, CheckpointLeft,
     Waiters, At
<1>7. TypeOK'
  BY <1>1, <1>2, <1>3, <1>4, <1>5, Types DEF TypeOK, notifyVars, poolVars, switchVars, mlVars
<1>8. MainInv'
  BY <1>1, <1>2, <1>3, <1>4, <1>5, Types DEF MainInv, ThreadInv, Idle, switchVars
<1>9. BusyInv'
  BY <1>1, <1>2, <1>3, <1>4, <1>5, Types DEF BusyInv, Pending, Over, Busy, Executing,
     ThreadInv, Idle
<1>10. QueueInv'
  BY <1>1, <1>2, <1>3, <1>4, <1>5, Types DEF QueueInv, Pending, Over, Busy, Executing, poolVars
<1>11. NotifyInv'
  BY <1>1, <1>2, <1>3, <1>4, <1>5, Types DEF NotifyInv, Pending, Over, Busy, Executing,
     notifyVars
<1>12. MlInv'
  BY <1>1, <1>2, <1>3, <1>4, <1>5, Types DEF MlInv, Pending, Over, Busy, Executing, MlHolds,
     mlVars, poolVars, switchVars
<1>13. WaitInv'
  BY <1>1, <1>2, <1>3, <1>4, <1>5, Types DEF WaitInv, mlVars, Pending
<1>14. HeldInv'
  BY <1>1, <1>2, <1>3, <1>4, <1>5, Types DEF HeldInv, Pending, MlHolds, mlVars, poolVars
<1>15. NotificationsSignalled'
  BY <1>1, <1>2, <1>3, <1>4, <1>5, Types DEF NotificationsSignalled, notifyVars, MlAt
<1> QED BY <1>6, <1>7, <1>8, <1>9, <1>10, <1>11, <1>12, <1>13, <1>14, <1>15

\* The call is made, and its result read.
LEMMA SyncPreserves ==
    ASSUME IInv, Sync
    PROVE  IInv'
<1> USE DEF IInv
<1> DEFINE j == ml.job
<1>1. ml.pc = "sync" /\ j \in Jobs /\ Pending(j) /\ job[j].fast /\ j \notin notifiers
  BY Types DEF Sync, MlAt, MlInv, MlHolds
<1>2. FreedIn(j)
  BY <1>1, DeliverEffect DEF Sync, Pending
<1>3. /\ ml' \in [pc : MlPlaces, job : Jobs \cup {"none"}, n : Nat]
      /\ ml'.pc = "run" /\ ml'.job = "none"
  BY MlRunEffect DEF Sync
<1>4. UNCHANGED <<notifyVars, poolVars, switchVars, notifiers, paused, thr, pool_size, signals>>
  BY DEF Sync
<1>5. /\ \A t \in Threads : thr[t].pc \in Busy => thr[t].job # j
      /\ \A i \in DOMAIN pool_queue : pool_queue[i] # j
  BY <1>1 DEF MlInv, MlHolds
<1>6. ThreadInv' /\ PoolInv' /\ WaitersCovered' /\ CheckpointLeft'
  BY <1>4 DEF ThreadInv, Idle, PoolInv, poolVars, switchVars, WaitersCovered, CheckpointLeft,
     Waiters, At
<1>7. TypeOK'
  BY <1>1, <1>2, <1>3, <1>4, <1>5, Types DEF TypeOK, notifyVars, poolVars, switchVars, mlVars,
     FreedIn
<1>8. MainInv'
  BY <1>1, <1>2, <1>3, <1>4, <1>5, Types DEF MainInv, ThreadInv, Idle, switchVars
<1>9. BusyInv'
  BY <1>1, <1>2, <1>3, <1>4, <1>5, Types DEF BusyInv, Pending, Over, Busy, Executing,
     ThreadInv, Idle, FreedIn
<1>10. QueueInv'
  BY <1>1, <1>2, <1>3, <1>4, <1>5, Types DEF QueueInv, Pending, Over, Busy, Executing,
     poolVars, FreedIn
<1>11. NotifyInv'
  BY <1>1, <1>2, <1>3, <1>4, <1>5, Types DEF NotifyInv, Pending, Over, Busy, Executing,
     notifyVars, FreedIn
<1>12. MlInv'
  BY <1>1, <1>2, <1>3, <1>4, <1>5, Types DEF MlInv, Pending, Over, Busy, Executing, MlHolds,
     mlVars, poolVars, switchVars, FreedIn
<1>13. WaitInv'
  BY <1>1, <1>2, <1>3, <1>4, <1>5, Types DEF WaitInv, mlVars, Pending, FreedIn
<1>14. HeldInv'
  BY <1>1, <1>2, <1>3, <1>4, <1>5, Types DEF HeldInv, Pending, MlHolds, mlVars, poolVars,
     FreedIn
<1>15. NotificationsSignalled'
  BY <1>1, <1>2, <1>3, <1>4, <1>5, Types DEF NotificationsSignalled, notifyVars, MlAt
<1> QED BY <1>6, <1>7, <1>8, <1>9, <1>10, <1>11, <1>12, <1>13, <1>14, <1>15

\* No thread can be started: the job is dropped.
LEMMA LaunchFailsPreserves ==
    ASSUME IInv, LaunchFails
    PROVE  IInv'
<1> USE DEF IInv
<1> DEFINE j == ml.job
<1>1. ml.pc \in {"detach", "switch"} /\ j \in Jobs /\ Pending(j) /\ job[j].fast /\ j \notin notifiers
  BY Types DEF LaunchFails, MlAt, MlInv, MlHolds
<1>2. /\ job' \in [Jobs -> Job]
      /\ \A k \in Jobs : k # j => job'[k] = job[k]
      /\ job'[j].state = "none" /\ job'[j].mutex = "nobody" /\ job'[j].life = "raised"
  <2> DEFINE f == [Fresh EXCEPT !.life = "raised"]
  <2>1. f \in Job /\ f.state = "none" /\ f.mutex = "nobody" /\ f.life = "raised"
    BY DEF Fresh, Job
  <2>2. SetJob(j, f)
    BY DEF LaunchFails
  <2> HIDE DEF f
  <2> QED BY <1>1, <2>1, <2>2, JobEffect
<1>3. /\ ml' \in [pc : MlPlaces, job : Jobs \cup {"none"}, n : Nat]
      /\ ml'.pc = "run" /\ ml'.job = "none"
  BY MlRunEffect DEF LaunchFails
<1>4. UNCHANGED <<notifyVars, poolVars, switchVars, notifiers, paused, thr, pool_size, signals>>
  BY DEF LaunchFails
<1>5. /\ \A t \in Threads : thr[t].pc \in Busy => thr[t].job # j
      /\ \A i \in DOMAIN pool_queue : pool_queue[i] # j
  BY <1>1 DEF MlInv, MlHolds
<1>6. ThreadInv' /\ PoolInv' /\ WaitersCovered' /\ CheckpointLeft'
  BY <1>4 DEF ThreadInv, Idle, PoolInv, poolVars, switchVars, WaitersCovered, CheckpointLeft,
     Waiters, At
<1>7. TypeOK'
  BY <1>1, <1>2, <1>3, <1>4, <1>5, Types DEF TypeOK, notifyVars, poolVars, switchVars, mlVars
<1>8. MainInv'
  BY <1>1, <1>2, <1>3, <1>4, <1>5, Types DEF MainInv, ThreadInv, Idle, switchVars
<1>9. BusyInv'
  BY <1>1, <1>2, <1>3, <1>4, <1>5, Types DEF BusyInv, Pending, Over, Busy, Executing,
     ThreadInv, Idle
<1>10. QueueInv'
  BY <1>1, <1>2, <1>3, <1>4, <1>5, Types DEF QueueInv, Pending, Over, Busy, Executing, poolVars
<1>11. NotifyInv'
  BY <1>1, <1>2, <1>3, <1>4, <1>5, Types DEF NotifyInv, Pending, Over, Busy, Executing,
     notifyVars
<1>12. MlInv'
  BY <1>1, <1>2, <1>3, <1>4, <1>5, Types DEF MlInv, Pending, Over, Busy, Executing, MlHolds,
     mlVars, poolVars, switchVars
<1>13. WaitInv'
  BY <1>1, <1>2, <1>3, <1>4, <1>5, Types DEF WaitInv, mlVars, Pending
<1>14. HeldInv'
  BY <1>1, <1>2, <1>3, <1>4, <1>5, Types DEF HeldInv, Pending, MlHolds, mlVars, poolVars
<1>15. NotificationsSignalled'
  BY <1>1, <1>2, <1>3, <1>4, <1>5, Types DEF NotificationsSignalled, notifyVars, MlAt
<1> QED BY <1>6, <1>7, <1>8, <1>9, <1>10, <1>11, <1>12, <1>13, <1>14, <1>15

\* A new thread for the job.
LEMMA DetachLaunchPreserves ==
    ASSUME IInv, DetachLaunch
    PROVE  IInv'
<1> USE DEF IInv
<1> DEFINE j == ml.job
<1>1. ml.pc = "detach" /\ j \in Jobs /\ j # "none" /\ Pending(j)
  BY Types DEF DetachLaunch, MlAt, MlInv, MlHolds
<1>2. /\ \A t \in Threads : thr[t].pc \in Busy => thr[t].job # j
      /\ \A i \in DOMAIN pool_queue : pool_queue[i] # j
  BY <1>1 DEF MlInv, MlHolds
<1>3. PICK w \in Threads : Launch(w, j)
  BY DEF DetachLaunch
<1>4. thr[w].pc = "off" /\ w # main_thread /\ ~thr[w].alt /\ thr[w].job = "none"
  BY <1>3, Types DEF Launch, At, ThreadInv, MainInv, Idle
<1>5. /\ thr' \in [Threads -> Thread]
      /\ \A u \in Threads : u # w => thr'[u] = thr[u]
      /\ thr'[w].pc = "begin" /\ thr'[w].job = j /\ thr'[w].alt = FALSE
      /\ thread_count' = thread_count + 1
  <2> DEFINE r == [pc |-> "begin", job |-> j, alt |-> FALSE]
  <2>1. r \in Thread /\ r.pc = "begin" /\ r.job = j /\ r.alt = FALSE
    BY <1>1 DEF Thread, Places
  <2>2. thr' = [thr EXCEPT ![w] = r] /\ thread_count' = thread_count + 1
    BY <1>1, <1>3 DEF Launch
  <2> HIDE DEF r
  <2> QED BY <2>1, <2>2, ThreadEffect
<1>6. /\ ml' \in [pc : MlPlaces, job : Jobs \cup {"none"}, n : Nat]
      /\ ml'.pc = "started" /\ ml'.job = j
  BY DEF DetachLaunch, TypeOK, MlGo, MlPlaces
<1>7. UNCHANGED <<notifyVars, switchVars, mlVars, pool_queue, thread_waiting_count, pool_size, job, signals>>
  BY DEF DetachLaunch
<1>8. WaitInv'
  BY <1>7 DEF WaitInv, mlVars, Pending
<1>9. TypeOK'
  BY <1>1, <1>2, <1>3, <1>4, <1>5, <1>6, <1>7, Types DEF TypeOK, notifyVars, poolVars,
     switchVars, mlVars
<1>10. ThreadInv'
  BY <1>1, <1>2, <1>3, <1>4, <1>5, <1>6, <1>7, Types DEF ThreadInv, Idle
<1>11. MainInv'
  BY <1>1, <1>2, <1>3, <1>4, <1>5, <1>6, <1>7, Types DEF MainInv, ThreadInv, Idle, switchVars
<1>12. BusyInv'
  BY <1>1, <1>2, <1>3, <1>4, <1>5, <1>6, <1>7, Types DEF BusyInv, Pending, Over, Busy,
     Executing, ThreadInv, Idle
<1>13. QueueInv'
  BY <1>1, <1>2, <1>3, <1>4, <1>5, <1>6, <1>7, Types DEF QueueInv, Pending, Over, Busy,
     Executing, poolVars
<1>14. NotifyInv'
  BY <1>1, <1>2, <1>3, <1>4, <1>5, <1>6, <1>7, Types DEF NotifyInv, Pending, Over, Busy,
     Executing, notifyVars
<1>15. MlInv'
  BY <1>1, <1>2, <1>3, <1>4, <1>5, <1>6, <1>7, Types DEF MlInv, Pending, Over, Busy, Executing,
     MlHolds, mlVars, poolVars, switchVars
<1>16. HeldInv'
  BY <1>1, <1>2, <1>3, <1>4, <1>5, <1>6, <1>7, Types DEF HeldInv, Pending, MlHolds, mlVars,
     poolVars
<1>17. PoolInv'
  BY <1>1, <1>2, <1>3, <1>4, <1>5, <1>6, <1>7, Types DEF PoolInv, poolVars, switchVars
<1>18. WaitersCovered' /\ CheckpointLeft'
  BY <1>1, <1>2, <1>3, <1>4, <1>5, <1>6, <1>7, CountsKept DEF poolVars, switchVars
<1>19. NotificationsSignalled'
  BY <1>1, <1>2, <1>3, <1>4, <1>5, <1>6, <1>7, Types DEF NotificationsSignalled, notifyVars,
     MlAt
<1> QED BY <1>8, <1>9, <1>10, <1>11, <1>12, <1>13, <1>14, <1>15, <1>16, <1>17, <1>18, <1>19

\* The job is queued and a waiting thread, if there is one, is woken.
LEMMA DetachQueuePreserves ==
    ASSUME IInv, DetachQueue
    PROVE  IInv'
<1> USE DEF IInv
<1> DEFINE j == ml.job
<1>1. /\ ml.pc = "detach" /\ j \in Jobs /\ Pending(j) /\ thread_waiting_count > 0
      /\ thr[main_thread].pc = "ml"
  BY Types DEF DetachQueue, MlAt, MlInv, MlHolds, MainInv
<1>2. /\ \A t \in Threads : thr[t].pc \in Busy => thr[t].job # j
      /\ \A i \in DOMAIN pool_queue : pool_queue[i] # j
  BY <1>1 DEF MlInv, MlHolds
<1>3. /\ thr' \in [Threads -> Thread]
      /\ \A u \in Threads : /\ thr'[u].job = thr[u].job /\ thr'[u].alt = thr[u].alt
                            /\ thr'[u].pc = thr[u].pc \/ (thr[u].pc = "waiting" /\ thr'[u].pc = "loop")
      /\ Waiters # {} => \E w \in Waiters : thr'[w].pc = "loop"
  BY SignalEffect DEF DetachQueue, TypeOK, SignalLooks, Waiters, At
<1>4. /\ pool_queue' \in Seq(Jobs) /\ Len(pool_queue') = Len(pool_queue) + 1
      /\ pool_queue'[Len(pool_queue) + 1] = j
      /\ \A i \in DOMAIN pool_queue : i \in DOMAIN pool_queue' /\ pool_queue'[i] = pool_queue[i]
      /\ \A i \in DOMAIN pool_queue' : i # Len(pool_queue) + 1 => i \in DOMAIN pool_queue
      /\ Len(pool_queue) + 1 \in DOMAIN pool_queue'
  <2>1. pool_queue \in Seq(Jobs) /\ pool_queue' = Append(pool_queue, j)
    BY DEF DetachQueue, TypeOK
  <2> QED BY <1>1, <2>1, AppendProperties
<1>5. /\ ml' \in [pc : MlPlaces, job : Jobs \cup {"none"}, n : Nat]
      /\ ml'.pc = "started" /\ ml'.job = j
      /\ thread_waiting_count' = thread_waiting_count - 1
  BY DEF DetachQueue, TypeOK, MlGo, MlPlaces
<1>6. UNCHANGED <<notifyVars, switchVars, mlVars, thread_count, pool_size, job, signals>>
  BY DEF DetachQueue
<1>7. WaitInv'
  BY <1>6 DEF WaitInv, mlVars, Pending
<1>8. TypeOK'
  BY <1>1, <1>2, <1>3, <1>4, <1>5, <1>6, Types DEF TypeOK, notifyVars, poolVars, switchVars,
     mlVars
<1>9. ThreadInv'
  BY <1>1, <1>2, <1>3, <1>4, <1>5, <1>6, Types DEF ThreadInv, Idle
<1>10. MainInv'
  BY <1>1, <1>3, <1>5, <1>6, Types DEF MainInv, switchVars
<1>11. BusyInv'
  BY <1>3, <1>6, Types DEF BusyInv, Pending, Over, Busy, Executing, ThreadInv, Idle
<1>12. QueueInv'
  BY <1>1, <1>2, <1>3, <1>4, <1>6 DEF QueueInv, Pending, Busy, Executing
<1>13. NotifyInv'
  BY <1>1, <1>2, <1>3, <1>4, <1>5, <1>6, Types DEF NotifyInv, Pending, Over, Busy, Executing,
     notifyVars
<1>14. MlInv'
  BY <1>1, <1>2, <1>3, <1>4, <1>5, <1>6, Types DEF MlInv, Pending, Over, Busy, Executing,
     MlHolds, mlVars, poolVars, switchVars
<1>15. HeldInv'
  BY <1>1, <1>3, <1>4, <1>5, <1>6 DEF HeldInv, MlHolds, mlVars
<1>16. PoolInv'
  <2>1. PICK u \in Threads : u # main_thread /\ thr[u].pc # "off"
    BY <1>1 DEF PoolInv
  <2>2. \E v \in Threads : v # main_thread /\ thr'[v].pc \notin {"off", "waiting"}
    <3>1. CASE Waiters = {}
      BY <1>3, <2>1, <3>1 DEF Waiters, At
    <3>2. CASE Waiters # {}
      BY <1>1, <1>3, <3>2 DEF Waiters, At
    <3> QED BY <3>1, <3>2
  <2> QED BY <1>1, <1>2, <1>3, <1>4, <1>5, <1>6, <2>1, <2>2, Types DEF PoolInv, switchVars
<1>17. WaitersCovered' /\ CheckpointLeft'
  <2>1. Waiters' \subseteq Waiters /\ Waiters \subseteq Threads
    BY <1>1, <1>2, <1>3, <1>4, <1>5, <1>6 DEF Waiters, At
  <2>2. /\ Cardinality(Waiters) \in Nat /\ Cardinality(Waiters') \in Nat
        /\ Cardinality(Waiters') <= Cardinality(Waiters)
        /\ Cardinality(Waiters') = Cardinality(Waiters) => Waiters' = Waiters
        /\ Waiters = {} => Cardinality(Waiters) = 0
    BY <2>1, FinThreads, FS_Subset, FS_CardinalityType, FS_EmptySet
  <2>3. Waiters # {} => Waiters' # Waiters
    BY <1>1, <1>2, <1>3, <1>4, <1>5, <1>6 DEF Waiters, At
  <2>4. WaitersCovered'
    BY <1>1, <1>2, <1>3, <1>4, <1>5, <1>6, <2>2, <2>3, Types DEF WaitersCovered
  <2>5. {u \in Threads : thr'[u].alt /\ u # main_thread'} = {u \in Threads : thr[u].alt /\ u # main_thread}
    BY <1>1, <1>2, <1>3, <1>4, <1>5, <1>6 DEF switchVars
  <2> QED BY <1>1, <1>2, <1>3, <1>4, <1>5, <1>6, <2>4, <2>5 DEF CheckpointLeft, switchVars
<1>18. NotificationsSignalled'
  BY <1>1, <1>2, <1>3, <1>4, <1>5, <1>6, Types DEF NotificationsSignalled, notifyVars, MlAt
<1> QED BY <1>7, <1>8, <1>9, <1>10, <1>11, <1>12, <1>13, <1>14, <1>15, <1>16, <1>17, <1>18

\* OCaml looks whether the job is done.
LEMMA StartedPreserves ==
    ASSUME IInv, Started
    PROVE  IInv'
<1> USE DEF IInv
<1> DEFINE j == ml.job
<1>1. ml.pc = "started" /\ j \in Jobs /\ job[j].life = "alive" /\ job[j].fast /\ j \notin notifiers /\ job[j].state # "none"
  BY Types DEF Started, MlAt, MlInv
<1>2. /\ ml' \in [pc : MlPlaces, job : Jobs \cup {"none"}, n : Nat]
      /\ \/ /\ job[j].state = "Done" /\ ml'.pc = "joining" /\ ml'.job = j
            /\ UNCHANGED mlVars
         \/ /\ ml'.pc = "run" /\ ml'.job = "none"
            /\ notifiers' = notifiers \cup {j} /\ paused' = paused \cup {j}
  BY MlRunEffect DEF Started, Register, TypeOK, MlGo, MlPlaces
<1>3. UNCHANGED <<notifyVars, poolVars, switchVars, thr, pool_size, job, signals>>
  BY DEF Started
<1>4. /\ ThreadInv' /\ BusyInv' /\ QueueInv' /\ NotifyInv' /\ PoolInv'
      /\ WaitersCovered' /\ CheckpointLeft'
  BY <1>3 DEF ThreadInv, Idle, BusyInv, Pending, Over, Busy, Executing, QueueInv, poolVars,
     NotifyInv, notifyVars, PoolInv, switchVars, WaitersCovered, CheckpointLeft, Waiters, At
<1>5. TypeOK'
  BY <1>1, <1>2, <1>3, Types DEF TypeOK, notifyVars, poolVars, switchVars, mlVars
<1>6. MainInv'
  BY <1>1, <1>2, <1>3, Types DEF MainInv, ThreadInv, Idle, switchVars
<1>7. MlInv'
  BY <1>1, <1>2, <1>3, Types DEF MlInv, Pending, Over, Busy, Executing, MlHolds, mlVars,
     poolVars, switchVars
<1>8. WaitInv'
  BY <1>1, <1>2, <1>3, Types DEF WaitInv, mlVars, Pending
<1>9. HeldInv'
  BY <1>1, <1>2, <1>3, Types DEF HeldInv, Pending, MlHolds, mlVars, poolVars
<1>10. NotificationsSignalled'
  BY <1>1, <1>2, <1>3, Types DEF NotificationsSignalled, notifyVars, MlAt
<1> QED BY <1>4, <1>5, <1>6, <1>7, <1>8, <1>9, <1>10

\* The job is over: its result is read.
LEMMA JoinPreserves ==
    ASSUME IInv, Join
    PROVE  IInv'
<1> USE DEF IInv
<1> DEFINE j == ml.job
<1>1. ml.pc = "joining" /\ j \in Jobs /\ Over(j) /\ job[j].fast /\ j \notin notifiers
  BY Types DEF Join, MlAt, MlInv, Over
<1>2. /\ \A t \in Threads : thr[t].pc \in Busy => thr[t].job # j
      /\ \A i \in DOMAIN pool_queue : pool_queue[i] # j
  BY <1>1, Types DEF BusyInv, QueueInv, Busy, Executing, Over, Pending
<1>3. FreedIn(j)
  BY <1>1, DeliverEffect DEF Join, Over
<1>4. /\ ml' \in [pc : MlPlaces, job : Jobs \cup {"none"}, n : Nat]
      /\ ml'.pc = "run" /\ ml'.job = "none"
  BY MlRunEffect DEF Join
<1>5. UNCHANGED <<notifyVars, poolVars, switchVars, notifiers, paused, thr, pool_size, signals>>
  BY DEF Join
<1>6. ThreadInv' /\ PoolInv' /\ WaitersCovered' /\ CheckpointLeft'
  BY <1>5 DEF ThreadInv, Idle, PoolInv, poolVars, switchVars, WaitersCovered, CheckpointLeft,
     Waiters, At
<1>7. TypeOK'
  BY <1>1, <1>2, <1>3, <1>4, <1>5, Types DEF TypeOK, notifyVars, poolVars, switchVars, mlVars,
     FreedIn
<1>8. MainInv'
  BY <1>1, <1>2, <1>3, <1>4, <1>5, Types DEF MainInv, ThreadInv, Idle, switchVars
<1>9. BusyInv'
  BY <1>1, <1>2, <1>3, <1>4, <1>5, Types DEF BusyInv, Pending, Over, Busy, Executing,
     ThreadInv, Idle, FreedIn
<1>10. QueueInv'
  BY <1>1, <1>2, <1>3, <1>4, <1>5, Types DEF QueueInv, Pending, Over, Busy, Executing,
     poolVars, FreedIn
<1>11. NotifyInv'
  BY <1>1, <1>2, <1>3, <1>4, <1>5, Types DEF NotifyInv, Pending, Over, Busy, Executing,
     notifyVars, FreedIn
<1>12. MlInv'
  BY <1>1, <1>2, <1>3, <1>4, <1>5, Types DEF MlInv, Pending, Over, Busy, Executing, MlHolds,
     mlVars, poolVars, switchVars, FreedIn
<1>13. WaitInv'
  BY <1>1, <1>2, <1>3, <1>4, <1>5, Types DEF WaitInv, mlVars, Pending, FreedIn
<1>14. HeldInv'
  BY <1>1, <1>2, <1>3, <1>4, <1>5, Types DEF HeldInv, Pending, MlHolds, mlVars, poolVars,
     FreedIn
<1>15. NotificationsSignalled'
  BY <1>1, <1>2, <1>3, <1>4, <1>5, Types DEF NotificationsSignalled, notifyVars, MlAt
<1> QED BY <1>6, <1>7, <1>8, <1>9, <1>10, <1>11, <1>12, <1>13, <1>14, <1>15

\* A thread is launched for the OCaml code if none is counted as waiting.
LEMMA SwitchLaunchPreserves ==
    ASSUME IInv, SwitchLaunch
    PROVE  IInv'
<1> USE DEF IInv
<1> DEFINE j == ml.job
<1>1. ml.pc = "switch" /\ j \in Jobs /\ thread_count \in Nat
  BY Types DEF SwitchLaunch, MlAt, MlInv
<1>2. \/ UNCHANGED <<thr, thread_count>>
      \/ \E w \in Threads :
           /\ thr[w].pc = "off" /\ w # main_thread /\ ~thr[w].alt /\ thr[w].job = "none"
           /\ thr' \in [Threads -> Thread]
           /\ \A u \in Threads : u # w => thr'[u] = thr[u]
           /\ thr'[w].pc = "loop" /\ thr'[w].job = "none" /\ thr'[w].alt = FALSE
           /\ thread_count' = thread_count + 1
  <2>1. CASE thread_waiting_count # 0
    BY <2>1 DEF SwitchLaunch
  <2>2. CASE thread_waiting_count = 0
    <3>1. PICK w \in Threads : Launch(w, "none")
      BY <2>2 DEF SwitchLaunch
    <3>2. thr[w].pc = "off" /\ w # main_thread /\ ~thr[w].alt /\ thr[w].job = "none"
      BY <1>1, <3>1, Types DEF Launch, At, ThreadInv, MainInv, Idle
    <3> DEFINE r == [pc |-> "loop", job |-> "none", alt |-> FALSE]
    <3>3. r \in Thread /\ r.pc = "loop" /\ r.job = "none" /\ r.alt = FALSE
      BY DEF Thread, Places
    <3>4. thr' = [thr EXCEPT ![w] = r] /\ thread_count' = thread_count + 1
      BY <3>1 DEF Launch
    <3> HIDE DEF r
    <3> QED BY <3>2, <3>3, <3>4, ThreadEffect
  <2> QED BY <2>1, <2>2
<1>3. /\ ml' \in [pc : MlPlaces, job : Jobs \cup {"none"}, n : Nat]
      /\ ml'.pc = "leaving" /\ ml'.job = j
  BY DEF SwitchLaunch, TypeOK, MlGo, MlPlaces
<1>4. UNCHANGED <<notifyVars, switchVars, mlVars, pool_queue, thread_waiting_count, pool_size, job, signals>>
  BY DEF SwitchLaunch
<1>5. WaitInv'
  BY <1>4 DEF WaitInv, mlVars, Pending
<1>6. TypeOK'
  BY <1>1, <1>2, <1>3, <1>4, Types DEF TypeOK, notifyVars, poolVars, switchVars, mlVars
<1>7. ThreadInv'
  BY <1>1, <1>2, <1>3, <1>4, Types DEF ThreadInv, Idle
<1>8. MainInv'
  BY <1>1, <1>2, <1>3, <1>4, Types DEF MainInv, ThreadInv, Idle, switchVars
<1>9. BusyInv'
  BY <1>1, <1>2, <1>3, <1>4, Types, SMTT(60)
     DEF BusyInv, Pending, Over, Busy, Executing, ThreadInv, Idle
<1>10. QueueInv'
  BY <1>1, <1>2, <1>3, <1>4, Types DEF QueueInv, Pending, Over, Busy, Executing, poolVars
<1>11. NotifyInv'
  BY <1>1, <1>2, <1>3, <1>4, Types DEF NotifyInv, Pending, Over, Busy, Executing, notifyVars
<1>12. MlInv'
  BY <1>1, <1>2, <1>3, <1>4, Types DEF MlInv, Pending, Over, Busy, Executing, MlHolds, mlVars,
     poolVars, switchVars
<1>13. HeldInv'
  BY <1>1, <1>2, <1>3, <1>4, Types DEF HeldInv, Pending, MlHolds, mlVars, poolVars
<1>14. PoolInv'
  BY <1>1, <1>2, <1>3, <1>4, Types DEF PoolInv, poolVars, switchVars
<1>15. WaitersCovered' /\ CheckpointLeft'
  BY <1>1, <1>2, <1>3, <1>4, CountsKept DEF poolVars, switchVars
<1>16. NotificationsSignalled'
  BY <1>1, <1>2, <1>3, <1>4, Types DEF NotificationsSignalled, notifyVars, MlAt
<1> QED BY <1>5, <1>6, <1>7, <1>8, <1>9, <1>10, <1>11, <1>12, <1>13, <1>14, <1>15, <1>16

\* The call goes on on another stack, and blocks the main thread.
LEMMA SwitchPreserves ==
    ASSUME IInv, Switch
    PROVE  IInv'
<1> USE DEF IInv
<1> DEFINE j == ml.job
           t == main_thread
<1>1. /\ ml.pc = "leaving" /\ j \in Jobs /\ j # "none" /\ Pending(j) /\ t \in Threads
      /\ thr[t].pc = "ml" /\ ~thr[t].alt
  BY Types DEF Switch, MlAt, MlInv, MlHolds, MainInv, ThreadInv, Idle
<1>2. /\ \A u \in Threads : thr[u].pc \in Busy => thr[u].job # j
      /\ \A i \in DOMAIN pool_queue : pool_queue[i] # j
  BY <1>1 DEF MlInv, MlHolds
<1>3. /\ thr' \in [Threads -> Thread]
      /\ \A u \in Threads : u # t => thr'[u] = thr[u]
      /\ thr'[t].pc = "altsignal" /\ thr'[t].job = j /\ thr'[t].alt = TRUE
  <2> DEFINE r == [pc |-> "altsignal", job |-> j, alt |-> TRUE]
  <2>1. r \in Thread /\ r.pc = "altsignal" /\ r.job = j /\ r.alt = TRUE
    BY <1>1 DEF Thread, Places
  <2>2. thr' = [thr EXCEPT ![t] = r]
    BY DEF Switch
  <2> HIDE DEF r
  <2> QED BY <1>1, <2>1, <2>2, ThreadEffect
<1>4. /\ ml' \in [pc : MlPlaces, job : Jobs \cup {"none"}, n : Nat]
      /\ ml'.pc = "blocked" /\ ml'.job = j /\ main_state' = "Blocked"
  BY DEF Switch, TypeOK, MlGo, MlPlaces
<1>5. UNCHANGED <<notifyVars, poolVars, mlVars, main_thread, become_worker, pool_size, job, signals>>
  BY DEF Switch
<1>6. WaitInv'
  BY <1>5 DEF WaitInv, mlVars, Pending
<1>7. TypeOK'
  BY <1>1, <1>2, <1>3, <1>4, <1>5, Types DEF TypeOK, notifyVars, poolVars, switchVars, mlVars
<1>8. ThreadInv'
  BY <1>1, <1>2, <1>3, <1>4, <1>5, Types DEF ThreadInv, Idle
<1>9. MainInv'
  BY <1>1, <1>2, <1>3, <1>4, <1>5, Types DEF MainInv, ThreadInv, Idle, switchVars
<1>10. BusyInv'
  BY <1>1, <1>2, <1>3, <1>4, <1>5, Types DEF BusyInv, Pending, Over, Busy, Executing,
     ThreadInv, Idle
<1>11. QueueInv'
  BY <1>1, <1>2, <1>3, <1>4, <1>5, Types DEF QueueInv, Pending, Over, Busy, Executing, poolVars
<1>12. NotifyInv'
  BY <1>1, <1>2, <1>3, <1>4, <1>5, Types DEF NotifyInv, Pending, Over, Busy, Executing,
     notifyVars
<1>13. MlInv'
  BY <1>1, <1>2, <1>3, <1>4, <1>5, Types DEF MlInv, Pending, Over, Busy, Executing, MlHolds,
     mlVars, poolVars, switchVars
<1>14. HeldInv'
  BY <1>1, <1>2, <1>3, <1>4, <1>5, Types DEF HeldInv, Pending, MlHolds, mlVars, poolVars
<1>15. PoolInv'
  BY <1>1, <1>2, <1>3, <1>4, <1>5, Types DEF PoolInv, poolVars, switchVars
<1>16. WaitersCovered' /\ CheckpointLeft'
  <2>1. {u \in Threads : thr'[u].alt /\ u # main_thread'} = {u \in Threads : thr[u].alt /\ u # main_thread}
    BY <1>1, <1>2, <1>3, <1>4, <1>5
  <2>2. Waiters' = Waiters
    BY <1>1, <1>2, <1>3, <1>4, <1>5 DEF Waiters, At
  <2> QED BY <1>1, <1>2, <1>3, <1>4, <1>5, <2>1, <2>2 DEF CheckpointLeft, WaitersCovered, poolVars
<1>17. NotificationsSignalled'
  BY <1>1, <1>2, <1>3, <1>4, <1>5, Types DEF NotificationsSignalled, notifyVars, MlAt
<1> QED BY <1>6, <1>7, <1>8, <1>9, <1>10, <1>11, <1>12, <1>13, <1>14, <1>15, <1>16, <1>17

-----------------------------------------------------------------------------
(* The other entries from OCaml.                                           *)

\* A job that is done is over, and its result is read.  Of one that is not OCaml
\* will be told.
LEMMA CheckJobPreserves ==
    ASSUME IInv, NEW j \in Jobs, CheckJob(j)
    PROVE  IInv'
<1> USE DEF IInv
<1>1. /\ ml.pc = "run" /\ ml.job = "none" /\ j \in paused /\ job[j].life = "alive" /\ job[j].fast
      /\ job[j].mutex = "nobody" /\ job[j].state # "none" /\ paused' = paused \ {j}
  BY DEF CheckJob, MlAt, MlInv, WaitInv
<1>2. \/ /\ Over(j) /\ FreedIn(j) /\ notifiers' = notifiers \ {j}
         /\ \A t \in Threads : thr[t].pc \in Busy => thr[t].job # j
         /\ \A i \in DOMAIN pool_queue : pool_queue[i] # j
      \/ /\ job[j].state # "Done" /\ UNCHANGED notifiers
         /\ job' \in [Jobs -> Job]
         /\ \A k \in Jobs : k # j => job'[k] = job[k]
         /\ job'[j].state = job[j].state /\ job'[j].mutex = job[j].mutex
         /\ job'[j].life = "alive" /\ ~job'[j].fast
  <2>1. CASE job[j].state = "Done"
    <3>1. Over(j) /\ Deliver(j) /\ notifiers' = notifiers \ {j}
      BY <1>1, <2>1 DEF CheckJob, Over
    <3>2. FreedIn(j)
      BY <1>1, <3>1, DeliverEffect
    <3>3. /\ \A t \in Threads : thr[t].pc \in Busy => thr[t].job # j
          /\ \A i \in DOMAIN pool_queue : pool_queue[i] # j
      BY <1>1, <3>1, Types DEF BusyInv, QueueInv, Busy, Executing, Over, Pending
    <3> QED BY <3>1, <3>2, <3>3
  <2>2. CASE job[j].state # "Done"
    <3> DEFINE f == [job[j] EXCEPT !.fast = FALSE]
    <3>1. job[j] \in Job
      BY DEF TypeOK
    <3>2. f \in Job /\ f.state = job[j].state /\ f.mutex = job[j].mutex /\ f.life = job[j].life /\ f.fast = FALSE
      BY <3>1 DEF Job
    <3>3. SetJob(j, f) /\ UNCHANGED notifiers
      BY <2>2 DEF CheckJob
    <3> HIDE DEF f
    <3> QED BY <1>1, <2>2, <3>2, <3>3, JobEffect
  <2> QED BY <2>1, <2>2
<1>3. UNCHANGED <<notifyVars, poolVars, switchVars, thr, ml, pool_size, signals>>
  BY DEF CheckJob
<1>4. /\ ThreadInv' /\ MainInv' /\ PoolInv' /\ WaitersCovered' /\ CheckpointLeft'
      /\ NotificationsSignalled'
  BY <1>3 DEF ThreadInv, Idle, MainInv, switchVars, PoolInv, poolVars, WaitersCovered,
     CheckpointLeft, Waiters, At, NotificationsSignalled, notifyVars, MlAt
<1>5. TypeOK'
  BY <1>1, <1>2, <1>3, Types DEF TypeOK, notifyVars, poolVars, switchVars, mlVars, FreedIn
<1>6. BusyInv'
  BY <1>1, <1>2, <1>3, Types DEF BusyInv, Pending, Over, Busy, Executing, ThreadInv, Idle,
     FreedIn
<1>7. QueueInv'
  BY <1>1, <1>2, <1>3, Types DEF QueueInv, Pending, Over, Busy, Executing, poolVars, FreedIn
<1>8. NotifyInv'
  BY <1>1, <1>2, <1>3, Types DEF NotifyInv, Pending, Over, Busy, Executing, notifyVars, FreedIn
<1>9. MlInv'
  BY <1>1, <1>2, <1>3, Types DEF MlInv, Pending, Over, Busy, Executing, MlHolds, mlVars,
     poolVars, switchVars, FreedIn
<1>10. WaitInv'
  BY <1>1, <1>2, <1>3, Types DEF WaitInv, mlVars, Pending, FreedIn
<1>11. HeldInv'
  BY <1>1, <1>2, <1>3, Types DEF HeldInv, Pending, MlHolds, mlVars, poolVars, FreedIn
<1> QED BY <1>4, <1>5, <1>6, <1>7, <1>8, <1>9, <1>10, <1>11

\* OCaml reads from the descriptor.
LEMMA RecvPreserves ==
    ASSUME IInv, Recv
    PROVE  IInv'
<1> USE DEF IInv
<1>1. /\ ml' \in [pc : MlPlaces, job : Jobs \cup {"none"}, n : Nat]
      /\ ml.pc = "run" /\ ml.job = "none" /\ ml'.pc = "alloc" /\ ml'.job = "none"
      /\ fd' \in Nat /\ UNCHANGED <<notifications, notification_count>>
  <2>1. PICK n \in 0..Len(notifications) : RecvBegin(n) /\ ml' = [ml EXCEPT !.pc = "alloc", !.n = n]
    BY DEF Recv
  <2>2. n \in Nat
    BY DEF TypeOK
  <2>3. ml.pc = "run" /\ ml.job = "none"
    BY DEF Recv, MlAt, MlInv
  <2>4. ml' \in [pc : MlPlaces, job : Jobs \cup {"none"}, n : Nat] /\ ml'.pc = "alloc" /\ ml'.job = "none"
    BY <2>1, <2>2, <2>3 DEF TypeOK, MlPlaces
  <2>5. fd' \in Nat /\ UNCHANGED <<notifications, notification_count>>
    BY <2>1 DEF RecvBegin, Drained, TypeOK
  <2> QED BY <2>3, <2>4, <2>5
<1>2. UNCHANGED <<poolVars, switchVars, mlVars, thr, pool_size, job, signals>>
  BY DEF Recv
<1>3. /\ ThreadInv' /\ BusyInv' /\ QueueInv' /\ WaitInv' /\ PoolInv'
      /\ WaitersCovered' /\ CheckpointLeft'
  BY <1>2 DEF ThreadInv, Idle, BusyInv, Pending, Over, Busy, Executing, QueueInv, poolVars,
     WaitInv, mlVars, PoolInv, switchVars, WaitersCovered, CheckpointLeft, Waiters, At
<1>4. TypeOK'
  BY <1>1, <1>2, Types DEF TypeOK, notifyVars, poolVars, switchVars, mlVars
<1>5. MainInv'
  BY <1>1, <1>2, Types DEF MainInv, ThreadInv, Idle, switchVars
<1>6. NotifyInv'
  BY <1>1, <1>2, Types DEF NotifyInv, Pending, Over, Busy, Executing, notifyVars
<1>7. MlInv'
  BY <1>1, <1>2, Types DEF MlInv, Pending, Over, Busy, Executing, MlHolds, mlVars, poolVars,
     switchVars
<1>8. HeldInv'
  BY <1>1, <1>2, Types DEF HeldInv, Pending, MlHolds, mlVars, poolVars
<1>9. NotificationsSignalled'
  BY <1>1, <1>2, Types DEF NotificationsSignalled, notifyVars, MlAt
<1> QED BY <1>3, <1>4, <1>5, <1>6, <1>7, <1>8, <1>9

\* Ids have come while the array was allocated.
LEMMA RecvMorePreserves ==
    ASSUME IInv, RecvMore
    PROVE  IInv'
<1> USE DEF IInv
<1>1. /\ ml' \in [pc : MlPlaces, job : Jobs \cup {"none"}, n : Nat]
      /\ ml'.pc = "alloc" /\ ml.pc = "alloc" /\ ml'.job = ml.job /\ UNCHANGED notifyVars
  BY DEF RecvMore, RecvAgain, MlAt, TypeOK, MlPlaces
<1>2. UNCHANGED <<poolVars, switchVars, mlVars, thr, pool_size, job, signals>>
  BY DEF RecvMore
<1>3. /\ ThreadInv' /\ BusyInv' /\ QueueInv' /\ WaitInv' /\ PoolInv'
      /\ WaitersCovered' /\ CheckpointLeft'
  BY <1>2 DEF ThreadInv, Idle, BusyInv, Pending, Over, Busy, Executing, QueueInv, poolVars,
     WaitInv, mlVars, PoolInv, switchVars, WaitersCovered, CheckpointLeft, Waiters, At
<1>4. TypeOK'
  BY <1>1, <1>2, Types DEF TypeOK, notifyVars, poolVars, switchVars, mlVars
<1>5. MainInv'
  BY <1>1, <1>2, Types DEF MainInv, ThreadInv, Idle, switchVars
<1>6. NotifyInv'
  BY <1>1, <1>2, Types DEF NotifyInv, Pending, Over, Busy, Executing, notifyVars
<1>7. MlInv'
  BY <1>1, <1>2, Types DEF MlInv, Pending, Over, Busy, Executing, MlHolds, mlVars, poolVars,
     switchVars
<1>8. HeldInv'
  BY <1>1, <1>2, Types DEF HeldInv, Pending, MlHolds, mlVars, poolVars
<1>9. NotificationsSignalled'
  BY <1>1, <1>2, Types DEF NotificationsSignalled, notifyVars, MlAt
<1> QED BY <1>3, <1>4, <1>5, <1>6, <1>7, <1>8, <1>9

\* The jobs that have sent a notification are over, and their results are read.
LEMMA DispatchPreserves ==
    ASSUME IInv, Dispatch
    PROVE  IInv'
<1> USE DEF IInv
<1> DEFINE ids == {notifications[i] : i \in 1..ml.n} \cap notifiers \cap Jobs
<1>1. /\ ml.pc = "alloc" /\ ml.job = "none" /\ ml.n = Len(notifications)
      /\ notifications' = <<>> /\ UNCHANGED <<notification_count, fd>>
  BY DEF Dispatch, RecvEnd, MlAt, MlInv
<1>2. \A j \in ids :
          /\ j \in Jobs /\ j \in notifiers /\ Over(j) /\ ~job[j].fast
          /\ \A t \in Threads : thr[t].pc \in Busy => thr[t].job # j
          /\ \A i \in DOMAIN pool_queue : pool_queue[i] # j
  <2>1. DOMAIN notifications = 1..ml.n
    BY <1>1 DEF TypeOK
  <2> QED BY <2>1, Types DEF NotifyInv, QueueInv, Over, Pending
<1>3. /\ job' \in [Jobs -> Job]
      /\ \A k \in Jobs : k \notin ids => job'[k] = job[k]
      /\ \A k \in ids : job'[k].state = "none" /\ job'[k].mutex = "nobody" /\ job'[k].life = "freed"
  <2>1. job' = [j \in Jobs |-> IF j \notin ids THEN job[j] ELSE Freed(j)]
    BY DEF Dispatch
  <2>2. \A j \in ids : /\ Freed(j) \in Job /\ Freed(j).state = "none" /\ Freed(j).mutex = "nobody"
                        /\ Freed(j).life = "freed"
    BY <1>2 DEF Freed, Fresh, Job, Over
  <2>3. \A j \in Jobs : job[j] \in Job
    BY DEF TypeOK
  <2> HIDE DEF ids
  <2> QED BY <1>2, <2>1, <2>2, <2>3
<1>4. /\ ml' \in [pc : MlPlaces, job : Jobs \cup {"none"}, n : Nat]
      /\ ml'.pc = "run" /\ ml'.job = "none" /\ notifiers' = notifiers \ ids
  BY MlRunEffect DEF Dispatch
<1>5. UNCHANGED <<poolVars, switchVars, paused, thr, pool_size, signals>>
  BY DEF Dispatch
<1>6. \A j \in ids : j \notin paused
  BY <1>2 DEF WaitInv
<1> HIDE DEF ids
<1>7. ThreadInv' /\ PoolInv' /\ WaitersCovered' /\ CheckpointLeft'
  BY <1>5 DEF ThreadInv, Idle, PoolInv, poolVars, switchVars, WaitersCovered, CheckpointLeft,
     Waiters, At
<1>8. TypeOK'
  BY <1>1, <1>2, <1>3, <1>4, <1>5, <1>6, Types DEF TypeOK, notifyVars, poolVars, switchVars,
     mlVars
<1>9. MainInv'
  BY <1>1, <1>2, <1>3, <1>4, <1>5, <1>6, Types DEF MainInv, ThreadInv, Idle, switchVars
<1>10. BusyInv'
  BY <1>1, <1>2, <1>3, <1>4, <1>5, <1>6, Types DEF BusyInv, Pending, Over, Busy, Executing,
     ThreadInv, Idle
<1>11. QueueInv'
  BY <1>1, <1>2, <1>3, <1>4, <1>5, <1>6, Types DEF QueueInv, Pending, Over, Busy, Executing,
     poolVars
<1>12. NotifyInv'
  BY <1>1, <1>2, <1>3, <1>4, <1>5, <1>6, Types DEF NotifyInv, Pending, Over, Busy, Executing,
     notifyVars
<1>13. MlInv'
  BY <1>1, <1>2, <1>3, <1>4, <1>5, <1>6, Types DEF MlInv, Pending, Over, Busy, Executing,
     MlHolds, mlVars, poolVars, switchVars
<1>14. WaitInv'
  BY <1>1, <1>2, <1>3, <1>4, <1>5, <1>6, Types DEF WaitInv, mlVars, Pending
<1>15. HeldInv'
  BY <1>1, <1>2, <1>3, <1>4, <1>5, <1>6, Types DEF HeldInv, Pending, MlHolds, mlVars, poolVars
<1>16. NotificationsSignalled'
  BY <1>1, <1>2, <1>3, <1>4, <1>5, <1>6, Types DEF NotificationsSignalled, notifyVars, MlAt
<1> QED BY <1>7, <1>8, <1>9, <1>10, <1>11, <1>12, <1>13, <1>14, <1>15, <1>16

LEMMA SetPoolSizePreserves ==
    ASSUME IInv, SetPoolSize
    PROVE  IInv'
<1> USE DEF IInv
<1>1. ml.pc = "run" /\ ml.job = "none" /\ pool_size' \in PoolSizes
  BY DEF SetPoolSize, MlAt, MlInv
<1>2. UNCHANGED <<notifyVars, poolVars, switchVars, mlVars, thr, ml, job, signals>>
  BY DEF SetPoolSize
<1>3. /\ ThreadInv' /\ MainInv' /\ BusyInv' /\ QueueInv' /\ NotifyInv' /\ WaitInv'
      /\ HeldInv' /\ PoolInv' /\ WaitersCovered' /\ CheckpointLeft'
      /\ NotificationsSignalled'
  BY <1>2 DEF ThreadInv, Idle, MainInv, switchVars, BusyInv, Pending, Over, Busy, Executing,
     QueueInv, poolVars, NotifyInv, notifyVars, WaitInv, mlVars, HeldInv, MlHolds, PoolInv,
     WaitersCovered, CheckpointLeft, Waiters, At, NotificationsSignalled, MlAt
<1>4. TypeOK'
  BY <1>1, <1>2, Types DEF TypeOK, notifyVars, poolVars, switchVars, mlVars
<1>5. MlInv'
  BY <1>1, <1>2, Types DEF MlInv, Pending, Over, Busy, Executing, MlHolds, mlVars, poolVars,
     switchVars
<1> QED BY <1>3, <1>4, <1>5

LEMMA SetSignalPreserves ==
    ASSUME IInv, SetSignal
    PROVE  IInv'
<1> USE DEF IInv
<1>1. notifiers' = notifiers \cup {"signal"}
  BY DEF SetSignal
<1>2. UNCHANGED <<notifyVars, poolVars, switchVars, paused, thr, ml, pool_size, job, signals>>
  BY DEF SetSignal
<1>3. /\ ThreadInv' /\ MainInv' /\ BusyInv' /\ QueueInv' /\ NotifyInv' /\ HeldInv'
      /\ PoolInv' /\ WaitersCovered' /\ CheckpointLeft' /\ NotificationsSignalled'
  BY <1>2 DEF ThreadInv, Idle, MainInv, switchVars, BusyInv, Pending, Over, Busy, Executing,
     QueueInv, poolVars, NotifyInv, notifyVars, HeldInv, MlHolds, mlVars, PoolInv,
     WaitersCovered, CheckpointLeft, Waiters, At, NotificationsSignalled, MlAt
<1>4. TypeOK'
  BY <1>1, <1>2, Types DEF TypeOK, notifyVars, poolVars, switchVars, mlVars
<1>5. MlInv'
  BY <1>1, <1>2, Types DEF MlInv, Pending, Over, Busy, Executing, MlHolds, mlVars, poolVars,
     switchVars
<1>6. WaitInv'
  BY <1>1, <1>2, Types DEF WaitInv, mlVars, Pending
<1> QED BY <1>3, <1>4, <1>5, <1>6

LEMMA RemoveSignalPreserves ==
    ASSUME IInv, RemoveSignal
    PROVE  IInv'
<1> USE DEF IInv
<1>1. notifiers' = notifiers \ {"signal"}
  BY DEF RemoveSignal
<1>2. UNCHANGED <<notifyVars, poolVars, switchVars, paused, thr, ml, pool_size, job, signals>>
  BY DEF RemoveSignal
<1>3. /\ ThreadInv' /\ MainInv' /\ BusyInv' /\ QueueInv' /\ NotifyInv' /\ HeldInv'
      /\ PoolInv' /\ WaitersCovered' /\ CheckpointLeft' /\ NotificationsSignalled'
  BY <1>2 DEF ThreadInv, Idle, MainInv, switchVars, BusyInv, Pending, Over, Busy, Executing,
     QueueInv, poolVars, NotifyInv, notifyVars, HeldInv, MlHolds, mlVars, PoolInv,
     WaitersCovered, CheckpointLeft, Waiters, At, NotificationsSignalled, MlAt
<1>4. TypeOK'
  BY <1>1, <1>2, Types DEF TypeOK, notifyVars, poolVars, switchVars, mlVars
<1>5. MlInv'
  BY <1>1, <1>2, Types DEF MlInv, Pending, Over, Busy, Executing, MlHolds, mlVars, poolVars,
     switchVars
<1>6. WaitInv'
  BY <1>1, <1>2, Types DEF WaitInv, mlVars, Pending
<1> QED BY <1>3, <1>4, <1>5, <1>6

\* A signal is sent like any notification.
LEMMA HandleSignalPreserves ==
    ASSUME IInv, HandleSignal
    PROVE  IInv'
<1> USE DEF IInv
<1>1. /\ notifications' \in Seq(Jobs \cup {"signal"}) /\ notification_count' \in Nat /\ fd' \in Nat
      /\ \A i \in DOMAIN notifications' : notifications'[i] = "signal" \/ \E k \in DOMAIN notifications : notifications'[i] = notifications[k]
      /\ fd' > 0 \/ MlAt("alloc")
  BY SendEffect DEF HandleSignal
<1>2. signals' \in 0..MaxSignals
  BY JobsAssumption DEF HandleSignal, TypeOK
<1>3. UNCHANGED <<poolVars, switchVars, mlVars, thr, ml, pool_size, job>>
  BY DEF HandleSignal
<1>4. /\ ThreadInv' /\ MainInv' /\ BusyInv' /\ QueueInv' /\ MlInv' /\ WaitInv' /\ HeldInv'
      /\ PoolInv' /\ WaitersCovered' /\ CheckpointLeft'
  BY <1>3 DEF ThreadInv, Idle, MainInv, switchVars, BusyInv, Pending, Over, Busy, Executing,
     QueueInv, poolVars, MlInv, MlHolds, mlVars, WaitInv, HeldInv, PoolInv, WaitersCovered,
     CheckpointLeft, Waiters, At
<1>5. TypeOK'
  BY <1>1, <1>2, <1>3, Types DEF TypeOK, notifyVars, poolVars, switchVars, mlVars
<1>6. NotifyInv'
  BY <1>1, <1>2, <1>3, Types DEF NotifyInv, Pending, Over, Busy, Executing, notifyVars
<1>7. NotificationsSignalled'
  BY <1>1, <1>2, <1>3 DEF NotificationsSignalled, MlAt
<1> QED BY <1>4, <1>5, <1>6, <1>7
-----------------------------------------------------------------------------
(* The theorems.                                                           *)

LEMMA InitInv == Init => IInv
<1> SUFFICES ASSUME Init PROVE IInv
  OBVIOUS
<1>1. /\ \A t \in Threads : thr[t].pc = (IF t = Main THEN "ml" ELSE "off") /\ thr[t].job = "none" /\ ~thr[t].alt
      /\ thr \in [Threads -> Thread]
  BY DEF Init, Thread, Places
<1>2. job \in [Jobs -> Job] /\ \A j \in Jobs : job[j].life = "unborn" /\ job[j].mutex = "nobody"
  BY DEF Init, Fresh, Job
<1>3. /\ ml \in [pc : MlPlaces, job : Jobs \cup {"none"}, n : Nat] /\ ml.pc = "run" /\ ml.job = "none"
      /\ main_thread = Main /\ Main \in Threads /\ main_state = "Running"
  BY JobsAssumption DEF Init, MlPlaces
<1>4. notifications = <<>> /\ pool_queue = <<>> /\ notifiers = {} /\ paused = {}
  BY DEF Init, NotifyInit
<1>5. TypeOK
  BY <1>1, <1>2, <1>3, <1>4, NotifyAssumption, JobsAssumption DEF Init, NotifyInit, TypeOK
<1>6. ThreadInv /\ MainInv /\ BusyInv
  BY <1>1, <1>2, <1>3 DEF ThreadInv, MainInv, BusyInv, Idle, Busy, Executing
<1>7. QueueInv /\ NotifyInv /\ NotificationsSignalled
  BY <1>4 DEF QueueInv, NotifyInv, NotificationsSignalled
<1>8. MlInv /\ WaitInv /\ HeldInv
  BY <1>2, <1>3, <1>4, JobsAssumption DEF MlInv, WaitInv, HeldInv, MlHolds
<1>9. PoolInv
  BY <1>4 DEF Init, PoolInv
<1>10. WaitersCovered /\ CheckpointLeft
  <2>1. Waiters = {} /\ {t \in Threads : thr[t].alt /\ t # main_thread} = {}
    BY <1>1 DEF Waiters, At
  <2>2. Cardinality(Waiters) = 0 /\ Cardinality({t \in Threads : thr[t].alt /\ t # main_thread}) = 0
    BY <2>1, FS_EmptySet
  <2>3. thread_waiting_count = 0 /\ become_worker = 0
    BY DEF Init
  <2> QED BY <2>2, <2>3 DEF WaitersCovered, CheckpointLeft
<1> QED BY <1>5, <1>6, <1>7, <1>8, <1>9, <1>10 DEF IInv

LEMMA NextInv == IInv /\ [Next]_vars => IInv'
<1> SUFFICES ASSUME IInv, [Next]_vars PROVE IInv'
  OBVIOUS
<1>1. ASSUME NEW t \in Threads, ThreadStep(t)
      PROVE  IInv'
  BY <1>1, ExecBeginPreserves, MarkDonePreserves, MarkEndPreserves, NotifyPreserves, WaitPreserves, BecomeMainPreserves,
     TakePreserves, AltSignalPreserves, AltStayPreserves, AltWorkerPreserves
     DEF ThreadStep, Execute, WorkerLoop, Altstack
<1>2. ASSUME MlStep
      PROVE  IInv'
  BY <1>2, SyncPreserves, DetachLaunchPreserves, DetachQueuePreserves, StartedPreserves, JoinPreserves, SwitchLaunchPreserves,
     SwitchPreserves, CheckJobPreserves, RecvPreserves, RecvMorePreserves, DispatchPreserves DEF MlStep
<1>3. ASSUME User
      PROVE  IInv'
  BY <1>3, StartJobPreserves, LaunchFailsPreserves, SetPoolSizePreserves, SetSignalPreserves, RemoveSignalPreserves,
     HandleSignalPreserves, SpuriousPreserves DEF User
<1>4. CASE UNCHANGED vars
  <2> USE <1>4 DEF IInv, vars
  <2>1. TypeOK' /\ ThreadInv' /\ MainInv' /\ MlInv' /\ WaitInv'
    BY DEF TypeOK, ThreadInv, MainInv, MlInv, WaitInv, notifyVars, poolVars, switchVars, mlVars, Over, Pending
  <2>2. BusyInv' /\ QueueInv' /\ NotifyInv' /\ HeldInv' /\ PoolInv'
    BY DEF BusyInv, QueueInv, NotifyInv, HeldInv, PoolInv, notifyVars, poolVars, switchVars, Over, Pending
  <2>3. WaitersCovered' /\ CheckpointLeft' /\ NotificationsSignalled'
    BY DEF WaitersCovered, CheckpointLeft, NotificationsSignalled, Waiters, At, MlAt, notifyVars, poolVars, switchVars
  <2> QED BY <2>1, <2>2, <2>3
<1> QED BY <1>1, <1>2, <1>3, <1>4 DEF Next

LEMMA Inductive == Spec => []IInv
  BY InitInv, NextInv, PTL DEF Spec

\* The variables keep their types, on every step of every thread.
THEOREM TypeCorrect == Spec => []TypeOK
<1>1. IInv => TypeOK
  BY DEF IInv
<1> QED BY <1>1, Inductive, PTL

\* No id is left in the buffer without a signal that will make OCaml read it
\* (lwt_unix_send_notification, lwt_unix_recv_notifications).
THEOREM NothingUnsignalled == Spec => []NotificationsSignalled
<1>1. IInv => NotificationsSignalled
  BY DEF IInv
<1> QED BY <1>1, Inductive, PTL

\* A job is freed once and not while a thread still works on it or will take it
\* (execute_job, start_job, check_job).
THEOREM JobsAlive == Spec => []JobAlive
<1>1. IInv => JobAlive
  <2> SUFFICES ASSUME IInv PROVE JobAlive
    OBVIOUS
  <2>1. \A t \in Threads : thr[t].pc \in Executing => job[thr[t].job].life = "alive"
    BY DEF IInv, BusyInv, Executing, Pending, Over
  <2>2. \A i \in DOMAIN pool_queue : job[pool_queue[i]].life = "alive"
    BY DEF IInv, QueueInv, Pending
  <2>3. \A j \in Jobs : job[j].life # "twice"
    BY DEF IInv, WaitInv
  <2> QED BY <2>1, <2>2, <2>3 DEF JobAlive
<1> QED BY <1>1, Inductive, PTL

\* Where a job is in the queue, and with which threads; whether it is to be there.
Q(j) == {i \in DOMAIN pool_queue : pool_queue[i] = j}
H(j) == {t \in Threads : thr[t].job = j /\ thr[t].pc \in {"altsignal", "begin", "work"}}
Waits(j) == job[j].state \in {"Pending", "Running"} /\ ~(ml.job = j /\ ml.pc \in MlHolds) /\ job[j].life = "alive"

\* A job that is not done is in the queue once or with one thread, and no other
\* job is anywhere (start_job, worker_loop).
THEOREM JobsHeldOnce == Spec => []JobHeldOnce
<1>1. IInv => JobHeldOnce
  <2> SUFFICES ASSUME IInv, NEW j \in Jobs
               PROVE  Cardinality(Q(j)) + Cardinality(H(j)) = IF Waits(j) THEN 1 ELSE 0
    BY DEF JobHeldOnce, Q, H, Waits, MlHolds
  <2> USE DEF IInv
  <2>1. CASE Q(j) # {}
    <3>1. PICK i \in DOMAIN pool_queue : pool_queue[i] = j
      BY <2>1 DEF Q
    <3>2. Q(j) = {i} /\ H(j) = {}
      BY <3>1 DEF QueueInv, Busy, Executing, Q, H
    <3>3. Waits(j)
      BY <3>1 DEF QueueInv, Pending, MlInv, Waits
    <3>4. Cardinality(Q(j)) = 1 /\ Cardinality(H(j)) = 0
      BY <3>2, FS_Singleton, FS_EmptySet
    <3> QED BY <3>3, <3>4
  <2>2. CASE Q(j) = {} /\ H(j) # {}
    <3>1. PICK t \in Threads : thr[t].job = j /\ thr[t].pc \in {"altsignal", "begin", "work"}
      BY <2>2 DEF H
    <3>2. H(j) = {t}
      BY <3>1 DEF BusyInv, Busy, Executing, H
    <3>3. Waits(j)
      BY <3>1 DEF BusyInv, Pending, MlInv, Busy, Executing, Waits
    <3>4. Cardinality(Q(j)) = 0 /\ Cardinality(H(j)) = 1
      BY <2>2, <3>2, FS_Singleton, FS_EmptySet
    <3> QED BY <3>3, <3>4
  <2>3. CASE Q(j) = {} /\ H(j) = {}
    <3>1. ~Waits(j)
      BY <2>3 DEF HeldInv, Q, H, Waits
    <3>2. Cardinality(Q(j)) = 0 /\ Cardinality(H(j)) = 0
      BY <2>3, FS_EmptySet
    <3> QED BY <3>1, <3>2
  <2> QED BY <2>1, <2>2, <2>3
<1> QED BY <1>1, Inductive, PTL

\* No thread is launched, and no job run synchronously, while one of the pool
\* is idle (start_job, worker_loop).
THEOREM NoIdleWaiter == Spec => []WaitersCovered
<1>1. IInv => WaitersCovered
  BY DEF IInv
<1> QED BY <1>1, Inductive, PTL

\* While jobs are queued a thread is awake that will come to the queue, perhaps only
\* after a call that blocks.  It is not said that the job has a thread to itself as
\* long as the pool has room: it has not (start_job, worker_loop, altstack_worker).
THEOREM QueueAttended == Spec => []QueueNotAbandoned
<1>1. IInv => QueueNotAbandoned
  <2> SUFFICES ASSUME IInv, pool_queue # <<>>
               PROVE  \E t \in Threads : thr[t].pc \notin {"off", "ml", "waiting"}
    BY DEF QueueNotAbandoned
  <2> QED BY DEF IInv, PoolInv, MainInv
<1> QED BY <1>1, Inductive, PTL

\* The assertion of altstack_worker holds: a thread whose call is over, and that is
\* no longer the main thread, finds a checkpoint.
THEOREM CheckpointThere == Spec => []CheckpointLeft
<1>1. IInv => CheckpointLeft
  BY DEF IInv
<1> QED BY <1>1, Inductive, PTL

\* A thread is started only while there are fewer than pool_size (start_job).
THEOREM PoolIsBounded == Spec => PoolBounded
<1>1. IInv /\ [Next]_vars => [thread_count' > thread_count => thread_count < pool_size]_vars
  <2> SUFFICES ASSUME IInv, Next, thread_count' > thread_count
               PROVE  thread_count < pool_size
    BY DEF vars
  <2> USE DEF IInv
  <2>1. CASE DetachLaunch
    BY <2>1, Types DEF DetachLaunch, MlAt, MlInv
  <2>2. CASE SwitchLaunch
    BY <2>2, Types DEF SwitchLaunch, MlAt, MlInv
  <2>3. CASE ~DetachLaunch /\ ~SwitchLaunch
    <3>1. thread_count' = thread_count
      BY <2>3 DEF Next, ThreadStep, Execute, WorkerLoop, Altstack, MlStep, User, poolVars,
         ExecBegin, MarkDone, MarkEnd, Notify, Wait, BecomeMain, Take, AltSignal, AltStay, AltWorker,
         Sync, DetachQueue, Started, Join, Switch, CheckJob, Recv, RecvMore, Dispatch,
         StartJob, LaunchFails, SetPoolSize, SetSignal, RemoveSignal, HandleSignal, Spurious
    <3> QED BY <3>1, Types
  <2> QED BY <2>1, <2>2, <2>3
<1> QED BY <1>1, Inductive, PTL DEF Spec, PoolBounded

\* A step that leaves a job alone is right for it.
LEMMA JobStays ==
    ASSUME NEW j \in Jobs, job'[j] = job[j]
    PROVE  JobStep(j)
  BY DEF JobStep

\* A job is freed whose function has returned.
LEMMA JobReturns ==
    ASSUME NEW j \in Jobs, FreedIn(j), Over(j) \/ (Pending(j) /\ MlAt("sync") /\ ml.job = j)
    PROVE  \A k \in Jobs : JobStep(k)
<1>1. JobStep(j)
  BY DEF FreedIn, Over, Pending, JobStep
<1> QED BY <1>1, JobStays DEF FreedIn

\* The steps of execute_job.
LEMMA ExecuteStep ==
    ASSUME IInv, NEW t \in Threads, Execute(t)
    PROVE  \A k \in Jobs : JobStep(k)
<1> USE DEF IInv
<1> DEFINE j == thr[t].job
<1>1. CASE ExecBegin(t)
  <2>1. j \in Jobs /\ Pending(j)
    BY <1>1 DEF ExecBegin, ThreadInv, BusyInv, At, Idle
  <2>2. job[j] \in Job
    BY <2>1 DEF TypeOK
  <2>3. [job[j] EXCEPT !.state = "Running"] \in Job
    BY <2>2 DEF Job
  <2>4. /\ \A k \in Jobs : k # j => job'[k] = job[k]
        /\ job'[j] = [job[j] EXCEPT !.state = "Running"]
    BY <1>1, <2>1, <2>3, JobEffect DEF ExecBegin
  <2>5. JobStep(j)
    BY <2>1, <2>2, <2>4 DEF JobStep, Pending, Job
  <2> QED BY <2>4, <2>5, JobStays
<1>2. CASE MarkDone(t)
  <2>1. j \in Jobs /\ job[j].life = "alive" /\ job[j].state = "Running"
    BY <1>2 DEF MarkDone, ThreadInv, BusyInv, At, Idle
  <2>2. job[j] \in Job
    BY <2>1 DEF TypeOK
  <2>3. [job[j] EXCEPT !.state = "Done", !.mutex = t] \in Job
    BY <2>2 DEF Job
  <2>4. /\ \A k \in Jobs : k # j => job'[k] = job[k]
        /\ job'[j] = [job[j] EXCEPT !.state = "Done", !.mutex = t]
    BY <1>2, <2>1, <2>3, JobEffect DEF MarkDone
  <2>5. JobStep(j)
    BY <2>1, <2>2, <2>4 DEF JobStep, Job
  <2> QED BY <2>4, <2>5, JobStays
<1>3. CASE MarkEnd(t)
  <2>1. j \in Jobs /\ job[j].life = "alive" /\ job[j].state = "Done"
    BY <1>3 DEF MarkEnd, ThreadInv, BusyInv, At, Idle
  <2>2. job[j] \in Job
    BY <2>1 DEF TypeOK
  <2>3. [job[j] EXCEPT !.mutex = "nobody"] \in Job
    BY <2>2 DEF Job
  <2>4. /\ \A k \in Jobs : k # j => job'[k] = job[k]
        /\ job'[j] = [job[j] EXCEPT !.mutex = "nobody"]
    BY <1>3, <2>1, <2>3, JobEffect DEF MarkEnd
  <2>5. JobStep(j)
    BY <2>1, <2>2, <2>4 DEF JobStep, Job
  <2> QED BY <2>4, <2>5, JobStays
<1>4. CASE Notify(t)
  BY <1>4, JobStays DEF Notify
<1> QED BY <1>1, <1>2, <1>3, <1>4 DEF Execute

\* The steps after which a result has been read.
LEMMA ReturnStep ==
    ASSUME IInv, Sync \/ Join \/ (\E t \in Threads : AltStay(t)) \/ Dispatch
    PROVE  \A k \in Jobs : JobStep(k)
<1> USE DEF IInv
<1>1. CASE Sync
  <2>1. MlAt("sync") /\ ml.job \in Jobs /\ Pending(ml.job) /\ Deliver(ml.job)
    BY <1>1, Types DEF Sync, MlAt, MlInv, MlHolds
  <2>2. FreedIn(ml.job)
    BY <2>1, DeliverEffect DEF Pending
  <2> QED BY <2>1, <2>2, JobReturns
<1>2. CASE Join
  <2>1. ml.job \in Jobs /\ Over(ml.job) /\ Deliver(ml.job)
    BY <1>2, Types DEF Join, MlAt, MlInv, Over
  <2>2. FreedIn(ml.job)
    BY <2>1, DeliverEffect DEF Over
  <2> QED BY <2>1, <2>2, JobReturns
<1>3. ASSUME NEW t \in Threads, AltStay(t)
      PROVE  \A k \in Jobs : JobStep(k)
  <2>1. thr[t].pc = "altend" /\ thr[t].alt /\ t = main_thread /\ Deliver(thr[t].job)
    BY <1>3 DEF AltStay, At, ThreadInv
  <2>2. ml.pc = "blocked" /\ ml.job = thr[t].job
    BY <2>1, Types DEF MainInv
  <2>3. thr[t].job \in Jobs /\ Over(thr[t].job)
    BY <2>1, <2>2 DEF MlInv, ThreadInv, Idle
  <2>4. FreedIn(thr[t].job)
    BY <2>1, <2>3, DeliverEffect DEF Over
  <2> QED BY <2>3, <2>4, JobReturns
<1>4. CASE Dispatch
  <2> DEFINE ids == {notifications[i] : i \in 1..ml.n} \cap notifiers \cap Jobs
  <2>1. ml.n = Len(notifications)
    BY <1>4 DEF Dispatch, RecvEnd
  <2>2. DOMAIN notifications = 1..ml.n
    BY <2>1 DEF TypeOK
  <2>3. \A k \in ids : Over(k)
    BY <2>2, Types DEF NotifyInv
  <2>4. \A k \in Jobs : job'[k] = IF k \notin ids THEN job[k] ELSE Freed(k)
    BY <1>4 DEF Dispatch
  <2> HIDE DEF ids
  <2> SUFFICES ASSUME NEW k \in Jobs PROVE JobStep(k)
    OBVIOUS
  <2>5. CASE k \notin ids
    BY <2>4, <2>5, JobStays
  <2>6. CASE k \in ids
    <3>1. job'[k].life = "freed" /\ job'[k].state = "none"
      BY <2>3, <2>4, <2>6 DEF Freed, Fresh, Over
    <3> QED BY <2>3, <2>6, <3>1 DEF Over, JobStep
  <2> QED BY <2>5, <2>6
<1> QED BY <1>1, <1>2, <1>3, <1>4

\* check_job reads the result of a job that is done, and otherwise leaves the
\* job to notify.
LEMMA CheckStep ==
    ASSUME IInv, NEW j \in Jobs, CheckJob(j)
    PROVE  \A k \in Jobs : JobStep(k)
<1> USE DEF IInv
<1>1. job[j].life = "alive" /\ job[j].mutex = "nobody"
  BY DEF CheckJob, WaitInv
<1>2. CASE job[j].state = "Done"
  <2>1. Over(j) /\ Deliver(j)
    BY <1>1, <1>2 DEF CheckJob, Over
  <2>2. FreedIn(j)
    BY <1>1, <2>1, DeliverEffect
  <2> QED BY <2>1, <2>2, JobReturns
<1>3. CASE job[j].state # "Done"
  <2>1. job[j] \in Job
    BY DEF TypeOK
  <2>2. [job[j] EXCEPT !.fast = FALSE] \in Job
    BY <2>1 DEF Job
  <2>3. /\ \A k \in Jobs : k # j => job'[k] = job[k]
        /\ job'[j] = [job[j] EXCEPT !.fast = FALSE]
    BY <1>3, <2>2, JobEffect DEF CheckJob
  <2>4. JobStep(j)
    BY <1>1, <2>1, <2>3 DEF JobStep, Job
  <2> QED BY <2>3, <2>4, JobStays
<1> QED BY <1>2, <1>3

\* A job begins, or cannot be run.
LEMMA StartStep ==
    ASSUME IInv, (\E j \in Jobs, m \in Methods : StartJob(j, m)) \/ LaunchFails
    PROVE  \A k \in Jobs : JobStep(k)
<1> USE DEF IInv
<1>1. ASSUME NEW j \in Jobs, NEW m \in Methods, StartJob(j, m)
      PROVE  \A k \in Jobs : JobStep(k)
  <2> DEFINE f == [Fresh EXCEPT !.state = "Pending", !.life = "alive"]
  <2>1. f \in Job /\ f.state = "Pending" /\ f.life = "alive"
    BY DEF Fresh, Job
  <2>2. SetJob(j, f) /\ job[j].life = "unborn"
    BY <1>1 DEF StartJob
  <2> HIDE DEF f
  <2>3. (\A k \in Jobs : k # j => job'[k] = job[k]) /\ job'[j] = f
    BY <2>1, <2>2, JobEffect
  <2>4. JobStep(j)
    BY <2>1, <2>2, <2>3 DEF JobStep
  <2> QED BY <2>3, <2>4, JobStays
<1>2. CASE LaunchFails
  <2> DEFINE f == [Fresh EXCEPT !.life = "raised"]
  <2>1. f \in Job /\ f.life = "raised"
    BY DEF Fresh, Job
  <2>2. ml.job \in Jobs /\ Pending(ml.job) /\ SetJob(ml.job, f)
    BY <1>2, Types DEF LaunchFails, MlAt, MlInv, MlHolds
  <2> HIDE DEF f
  <2>3. (\A k \in Jobs : k # ml.job => job'[k] = job[k]) /\ job'[ml.job] = f
    BY <2>1, <2>2, JobEffect
  <2>4. JobStep(ml.job)
    BY <2>1, <2>2, <2>3 DEF JobStep, Pending
  <2> QED BY <2>3, <2>4, JobStays
<1> QED BY <1>1, <1>2

\* The function of a job is called once, its result is read once and after it has
\* returned, and a job that could not be launched has not run (start_job,
\* execute_job, check_job, run_job_aux).
THEOREM JobsRunOnce == Spec => JobRunsOnce
<1>1. IInv /\ [Next]_vars => [\A j \in Jobs : JobStep(j)]_vars
  <2> SUFFICES ASSUME IInv, Next PROVE \A j \in Jobs : JobStep(j)
    OBVIOUS
  <2>1. CASE \E t \in Threads : Execute(t)
    BY <2>1, ExecuteStep
  <2>2. CASE Sync \/ Join \/ (\E t \in Threads : AltStay(t)) \/ Dispatch
    BY <2>2, ReturnStep
  <2>3. CASE \E j \in Jobs : CheckJob(j)
    BY <2>3, CheckStep
  <2>4. CASE (\E j \in Jobs, m \in Methods : StartJob(j, m)) \/ LaunchFails
    BY <2>4, StartStep
  <2>5. CASE job' = job
    BY <2>5, JobStays
  <2>6. \/ \E t \in Threads : Execute(t)
        \/ Sync \/ Join \/ (\E t \in Threads : AltStay(t)) \/ Dispatch
        \/ \E j \in Jobs : CheckJob(j)
        \/ (\E j \in Jobs, m \in Methods : StartJob(j, m)) \/ LaunchFails
        \/ job' = job
    BY DEF Next, ThreadStep, WorkerLoop, Altstack, MlStep, User,
       Wait, BecomeMain, Take, AltSignal, AltWorker, DetachLaunch, DetachQueue, Started, SwitchLaunch, Switch,
       Recv, RecvMore, SetPoolSize, SetSignal, RemoveSignal, HandleSignal, Spurious
  <2> QED BY <2>1, <2>2, <2>3, <2>4, <2>5, <2>6
<1> QED BY <1>1, Inductive, PTL DEF Spec, JobRunsOnce

\* The ids always fit into the buffer: an id that comes when it is full makes it
\* grow before it is written, also while the receiver allocates its array
\* (lwt_unix_send_notification, resize_notifications).
BufferFits == Len(notifications) <= notification_count /\ notification_count > 0

THEOREM NeverOverrun == Spec => []BufferFits
<1>1. Init => BufferFits
  BY NotifyAssumption DEF Init, NotifyInit, BufferFits
<1>2. IInv /\ BufferFits /\ [Next]_vars => BufferFits'
  <2> SUFFICES ASSUME IInv, BufferFits, [Next]_vars PROVE BufferFits'
    OBVIOUS
  <2>1. TypeOK
    BY DEF IInv
  <2>2. notifications \in Seq(Jobs \cup {"signal"}) /\ notification_count \in Nat /\ Len(notifications) \in Nat
    BY <2>1 DEF TypeOK
  <2>3. ASSUME NEW id, Send(id)
        PROVE  BufferFits'
    <3>1. Len(notifications') = Len(notifications) + 1
      BY <2>2, <2>3 DEF Send
    <3>2. CASE notifications = <<>>
      BY <2>2, <2>3, <3>1, <3>2 DEF Send, BufferFits
    <3>3. CASE notifications # <<>>
      BY <2>2, <2>3, <3>1, <3>3 DEF Send, Resize, BufferFits
    <3> QED BY <3>2, <3>3
  <2>4. CASE Dispatch
    BY <2>2, <2>4 DEF Dispatch, RecvEnd, BufferFits
  <2>5. CASE (\E t \in Threads : Notify(t)) \/ HandleSignal
    BY <2>3, <2>5 DEF Notify, HandleSignal
  <2>6. CASE ~Dispatch /\ ~HandleSignal /\ ~(\E t \in Threads : Notify(t))
    <3>1. notifications' = notifications /\ notification_count' = notification_count
      BY <2>6 DEF Next, vars, ThreadStep, Execute, WorkerLoop, Altstack, MlStep, User, notifyVars,
         ExecBegin, MarkDone, MarkEnd, Wait, BecomeMain, Take, AltSignal, AltStay, AltWorker,
         Sync, DetachLaunch, DetachQueue, Started, Join, SwitchLaunch, Switch, CheckJob, Recv, RecvBegin,
         RecvMore, RecvAgain, StartJob, LaunchFails, SetPoolSize, SetSignal, RemoveSignal, Spurious
    <3> QED BY <3>1 DEF BufferFits
  <2> QED BY <2>4, <2>5, <2>6
<1> QED BY <1>1, <1>2, Inductive, PTL DEF Spec
=============================================================================
