------------------------------ MODULE LwtJobs -------------------------------
(***************************************************************************)
(* Blocking system calls of Lwt (lwt/src/unix): lwt_unix_stubs.c runs them *)
(* as jobs on a pool of system threads, lwt_unix.ml starts them and        *)
(* collects their results.                                                 *)
(*                                                                         *)
(*   run_job_aux      starts a job; if it has not ended at once, registers *)
(*                    a notification and pauses before check_job           *)
(*   start_job        Async_none runs the job in the OCaml thread; detach  *)
(*                    gives it to the pool; switch runs it in the OCaml    *)
(*                    thread on another stack, and if it blocks a thread   *)
(*                    of the pool takes over the OCaml code                *)
(*   worker_loop      a thread of the pool                                 *)
(*   execute_job      both run jobs with it                                *)
(*                                                                         *)
(* OCaml code runs on the thread main_thread; ml is where it is.  Every    *)
(* other thread has its place in thr.  What is done while pool_mutex or    *)
(* notification_mutex is held is one step.  The mutex of a job is modelled *)
(* as such: start_job looks at the job's state without it.                 *)
(***************************************************************************)
EXTENDS LwtNotify, FiniteSets

CONSTANTS
    Threads,     \* system threads
    Main,        \* the thread that starts the program, one of Threads
    Jobs,        \* the jobs of the run, each started at most once
    Methods,     \* async methods in use, of None, Detach and Switch
    PoolSizes,   \* the values pool_size takes
    MayFail,     \* pthread_create may fail
    MaxSignals,  \* bound: signals that arrive
    MaxWaiting   \* bound: no spurious wake-up beyond this thread_waiting_count

ASSUME JobsAssumption ==
    /\ Main \in Threads /\ IsFiniteSet(Threads) /\ "nobody" \notin Threads
    /\ Jobs \cap {"signal", "none"} = {}
    /\ Methods \subseteq {"None", "Detach", "Switch"}
    /\ PoolSizes # {} /\ \A n \in PoolSizes : n \in 0..(Cardinality(Threads) - 1)
    /\ MayFail \in BOOLEAN
    /\ MaxSignals \in Nat /\ MaxWaiting \in Nat

VARIABLES
    thr,                   \* where each thread is, and the job it runs
    ml,                    \* where the OCaml code is
    main_thread,
    main_state,
    become_worker,         \* how many checkpoints of workers are in the list
    pool_queue,
    thread_waiting_count,
    thread_count,
    pool_size,
    job,                   \* the lwt_unix_job structures
    notifiers,             \* the jobs and signals with a registered notification
    paused,                \* run_job_aux is in Lwt.pause, before check_job
    signals                \* how many signals have arrived

poolVars == <<pool_queue, thread_waiting_count, thread_count>>
switchVars == <<main_thread, main_state, become_worker>>
mlVars   == <<notifiers, paused>>
vars     == <<notifyVars, poolVars, switchVars, mlVars, thr, ml, pool_size, job, signals>>

\* The places of a thread: not started or gone; running OCaml code; in
\* execute_job, from begin to notify; in worker_loop, about to take pool_mutex or
\* in pthread_cond_wait; in altstack_worker before and after execute_job.
Places == {"off", "ml", "begin", "work", "marked", "notify", "loop", "waiting",
           "altsignal", "altend"}

\* The places of the OCaml code: running or idle; in start_job, in its order;
\* in recv_notifications; blocked in a call made by the switch method.
MlPlaces == {"run", "sync", "detach", "started", "switch", "leaving", "blocked", "joining", "alloc"}

Executing == {"begin", "work", "marked", "notify"}

Fresh == [state |-> "none", fast |-> TRUE, mutex |-> "nobody", life |-> "unborn"]

Init ==
    /\ NotifyInit
    /\ thr = [t \in Threads |-> [pc |-> IF t = Main THEN "ml" ELSE "off", job |-> "none", alt |-> FALSE]]
    /\ ml = [pc |-> "run", job |-> "none", n |-> 0]
    /\ main_thread = Main /\ main_state = "Running" /\ become_worker = 0
    /\ pool_queue = <<>>
    /\ thread_waiting_count = 0 /\ thread_count = 0
    /\ pool_size \in PoolSizes
    /\ job = [j \in Jobs |-> Fresh]
    /\ notifiers = {} /\ paused = {}
    /\ signals = 0

At(t, place)  == thr[t].pc = place
Go(t, place)  == thr' = [thr EXCEPT ![t].pc = place]
MlAt(place)   == ml.pc = place
MlGo(place)   == ml' = [ml EXCEPT !.pc = place]
MlRun         == ml' = [pc |-> "run", job |-> "none", n |-> 0]
Waiters       == {t \in Threads : At(t, "waiting")}
SetJob(j, f)  == job' = [job EXCEPT ![j] = f]

\* pthread_cond_signal on pool_condition, by a step that leaves th behind.
Signal(th) ==
    IF Waiters = {} THEN thr' = th
    ELSE \E w \in Waiters : thr' = [th EXCEPT ![w].pc = "loop"]

-----------------------------------------------------------------------------
(* execute_job, on a thread of the pool or on the alternative stack.       *)

\* It ends: worker_loop goes on, or altstack_worker does.
Finished(t) ==
    IF thr[t].alt THEN [thr[t] EXCEPT !.pc = "altend"] ELSE [thr[t] EXCEPT !.pc = "loop", !.job = "none"]

ExecBegin(t) ==
    LET j == thr[t].job IN
    /\ At(t, "begin") /\ job[j].mutex = "nobody"
    /\ SetJob(j, [job[j] EXCEPT !.state = "Running"])
    /\ Go(t, "work")
    /\ UNCHANGED <<notifyVars, poolVars, switchVars, mlVars, ml, pool_size, signals>>

\* job->worker returns, and the job is marked as done, which start_job may see
\* before the mutex is free.
MarkDone(t) ==
    LET j == thr[t].job IN
    /\ At(t, "work") /\ job[j].mutex = "nobody"
    /\ SetJob(j, [job[j] EXCEPT !.state = "Done", !.mutex = t])
    /\ Go(t, "marked")
    /\ UNCHANGED <<notifyVars, poolVars, switchVars, mlVars, ml, pool_size, signals>>

\* Nobody is told of a job that check_job has not asked for.
MarkEnd(t) ==
    LET j == thr[t].job IN
    /\ At(t, "marked")
    /\ SetJob(j, [job[j] EXCEPT !.mutex = "nobody"])
    /\ thr' = [thr EXCEPT ![t] = IF job[j].fast THEN Finished(t) ELSE [@ EXCEPT !.pc = "notify"]]
    /\ UNCHANGED <<notifyVars, poolVars, switchVars, mlVars, ml, pool_size, signals>>

\* It reads notification_id and sends it.
Notify(t) ==
    /\ At(t, "notify")
    /\ Send(thr[t].job)
    /\ thr' = [thr EXCEPT ![t] = Finished(t)]
    /\ UNCHANGED <<poolVars, switchVars, mlVars, ml, pool_size, job, signals>>

Execute(t) == ExecBegin(t) \/ MarkDone(t) \/ MarkEnd(t) \/ Notify(t)

-----------------------------------------------------------------------------
(* worker_loop.                                                            *)

\* Nothing to do.  A thread that waits again counts itself again.
Wait(t) ==
    /\ At(t, "loop") /\ pool_queue = <<>> /\ main_state = "Running"
    /\ thread_waiting_count' = thread_waiting_count + 1
    /\ Go(t, "waiting")
    /\ UNCHANGED <<notifyVars, switchVars, mlVars, ml, pool_size, job, signals, pool_queue, thread_count>>

\* pthread_cond_wait may return without a signal.
Spurious(t) ==
    /\ At(t, "waiting") /\ thread_waiting_count < MaxWaiting
    /\ Go(t, "loop")
    /\ UNCHANGED <<notifyVars, poolVars, switchVars, mlVars, ml, pool_size, job, signals>>

\* Mutant: the thread does not keep its checkpoint.
BecomeMainForgets(t) ==
    /\ At(t, "loop") /\ main_state = "Blocked"
    /\ main_thread' = t /\ main_state' = "Running" /\ UNCHANGED become_worker
    /\ Go(t, "ml")
    /\ MlGo("started")
    /\ UNCHANGED <<notifyVars, poolVars, mlVars, pool_size, job, signals>>

\* Mutant: the thread takes itself off the count of those that wait.
BecomeMainUncounted(t) ==
    /\ At(t, "loop") /\ main_state = "Blocked"
    /\ main_thread' = t /\ main_state' = "Running" /\ become_worker' = become_worker + 1
    /\ thread_waiting_count' = thread_waiting_count - 1
    /\ Go(t, "ml")
    /\ MlGo("started")
    /\ UNCHANGED <<notifyVars, mlVars, pool_queue, thread_count, pool_size, job, signals>>

\* The main thread is blocked: this one takes the OCaml code over, inside of
\* start_job, and keeps its place in the loop for the other.
BecomeMain(t) ==
    /\ At(t, "loop") /\ main_state = "Blocked"
    /\ main_thread' = t /\ main_state' = "Running" /\ become_worker' = become_worker + 1
    /\ Go(t, "ml")
    /\ MlGo("started")
    /\ UNCHANGED <<notifyVars, poolVars, mlVars, pool_size, job, signals>>

\* Mutant: the job stays in the queue.
TakeKeeps(t) ==
    /\ At(t, "loop") /\ pool_queue # <<>> /\ main_state = "Running"
    /\ thr' = [thr EXCEPT ![t].pc = "begin", ![t].job = Head(pool_queue)]
    /\ UNCHANGED <<notifyVars, poolVars, switchVars, mlVars, ml, pool_size, job, signals>>

\* It takes the first job of the queue.
Take(t) ==
    /\ At(t, "loop") /\ pool_queue # <<>> /\ main_state = "Running"
    /\ pool_queue' = Tail(pool_queue)
    /\ thr' = [thr EXCEPT ![t].pc = "begin", ![t].job = Head(pool_queue)]
    /\ UNCHANGED <<notifyVars, switchVars, mlVars, ml, pool_size, job, signals,
                   thread_waiting_count, thread_count>>

WorkerLoop(t) == Wait(t) \/ BecomeMain(t) \/ Take(t)

-----------------------------------------------------------------------------
(* altstack_worker: a call by the switch method.                           *)

\* Maybe a worker wakes and becomes the main thread.  It is not taken off
\* thread_waiting_count.
AltSignal(t) ==
    /\ At(t, "altsignal")
    /\ Signal([thr EXCEPT ![t].pc = "begin"])
    /\ UNCHANGED <<notifyVars, poolVars, switchVars, mlVars, ml, pool_size, job, signals>>

\* What is left of a job when its result function has read and freed it.
Freed(j) == [Fresh EXCEPT !.mutex = job[j].mutex, !.life = IF job[j].life = "alive" THEN "freed" ELSE "twice"]

\* The result of job j is read and its memory freed, also when abort_jobs or a
\* cancel has made its Lwt thread fail before: that leaves the job as it is.
Deliver(j) == SetJob(j, Freed(j))

\* The call is over and no other thread has become the main thread.
AltStay(t) ==
    /\ At(t, "altend") /\ main_thread = t
    /\ main_state' = "Running"
    /\ thr' = [thr EXCEPT ![t] = [pc |-> "ml", job |-> "none", alt |-> FALSE]]
    /\ MlRun
    /\ Deliver(thr[t].job)
    /\ UNCHANGED <<notifyVars, poolVars, main_thread, become_worker, notifiers, paused, pool_size, signals>>

\* Another has: this one becomes a worker in its place.
AltWorker(t) ==
    /\ At(t, "altend") /\ main_thread # t
    /\ become_worker > 0 /\ become_worker' = become_worker - 1
    /\ thr' = [thr EXCEPT ![t] = [pc |-> "loop", job |-> "none", alt |-> FALSE]]
    /\ UNCHANGED <<notifyVars, poolVars, mlVars, main_thread, main_state, ml, pool_size, job, signals>>

Altstack(t) == AltSignal(t) \/ AltStay(t) \/ AltWorker(t)

-----------------------------------------------------------------------------
(* start_job, and run_job_aux around it.                                   *)

NoRoom == thread_waiting_count = 0 /\ thread_count >= pool_size

\* Mutant: no fallback to a synchronous call.
MethodAsked(m) == m

\* It falls back to a synchronous call when no worker waits and no more threads
\* can be launched.  Neither count is protected here.
MethodUsed(m) == IF NoRoom THEN "None" ELSE m

StartJob(j, asked) ==
    LET m == MethodUsed(asked) IN
    /\ MlAt("run") /\ job[j].life = "unborn"
    /\ SetJob(j, [Fresh EXCEPT !.state = "Pending", !.life = "alive"])
    /\ ml' = [ml EXCEPT !.job = j, !.pc = CASE m = "None" -> "sync" [] m = "Detach" -> "detach"
                                            [] OTHER -> "switch"]
    /\ UNCHANGED <<notifyVars, poolVars, switchVars, mlVars, thr, pool_size, signals>>

\* Async_none: the worker function returns.
Sync ==
    /\ MlAt("sync")
    /\ Deliver(ml.job) /\ MlRun
    /\ UNCHANGED <<notifyVars, poolVars, switchVars, notifiers, paused, thr, pool_size, signals>>

\* pthread_create: a thread of the pool starts, with job j or none.
Launch(w, j) ==
    /\ At(w, "off")
    /\ thr' = [thr EXCEPT ![w] = [pc |-> IF j = "none" THEN "loop" ELSE "begin", job |-> j, alt |-> FALSE]]
    /\ thread_count' = thread_count + 1

\* pthread_create fails, and start_job raises: the job has not run.
LaunchFails ==
    /\ MayFail
    /\ MlAt("detach") \/ MlAt("switch")
    /\ thread_waiting_count = 0
    /\ SetJob(ml.job, [Fresh EXCEPT !.life = "raised"])
    /\ MlRun
    /\ UNCHANGED <<notifyVars, poolVars, switchVars, notifiers, paused, thr, pool_size, signals>>

\* Detach: a new thread for the job if none waits.
DetachLaunch ==
    /\ MlAt("detach") /\ thread_waiting_count = 0
    /\ \E w \in Threads : Launch(w, ml.job)
    /\ MlGo("started")
    /\ UNCHANGED <<notifyVars, switchVars, mlVars, pool_queue, thread_waiting_count,
                   pool_size, job, signals>>

\* Detach: the job is queued, and one worker woken.
DetachQueue ==
    /\ MlAt("detach") /\ thread_waiting_count > 0
    /\ pool_queue' = Append(pool_queue, ml.job)
    /\ thread_waiting_count' = thread_waiting_count - 1
    /\ Signal(thr)
    /\ MlGo("started")
    /\ UNCHANGED <<notifyVars, switchVars, mlVars, thread_count, pool_size, job, signals>>

\* start_job returns false: the job gets a notification, and run_job_aux pauses.
Register(j) ==
    /\ notifiers' = notifiers \cup {j} /\ paused' = paused \cup {j}
    /\ MlRun

\* Mutant: the job is freed without waiting for its mutex.
StartedNoJoin ==
    /\ MlAt("started")
    /\ IF job[ml.job].state = "Done"
       THEN Deliver(ml.job) /\ MlRun /\ UNCHANGED <<notifiers, paused>>
       ELSE Register(ml.job) /\ UNCHANGED job
    /\ UNCHANGED <<notifyVars, poolVars, switchVars, thr, pool_size, signals>>

\* The job may have ended in the meantime; its mutex is not held for the look.
Started ==
    /\ MlAt("started")
    /\ IF job[ml.job].state = "Done"
       THEN MlGo("joining") /\ UNCHANGED mlVars
       ELSE Register(ml.job)
    /\ UNCHANGED <<notifyVars, poolVars, switchVars, thr, pool_size, job, signals>>

\* It waits for the mutex, because the job is freed next.
Join ==
    /\ MlAt("joining") /\ job[ml.job].mutex = "nobody"
    /\ Deliver(ml.job) /\ MlRun
    /\ UNCHANGED <<notifyVars, poolVars, switchVars, notifiers, paused, thr, pool_size, signals>>

\* Switch: a thread is launched if none is counted as waiting.
SwitchLaunch ==
    /\ MlAt("switch")
    /\ IF thread_waiting_count = 0
       THEN \E w \in Threads : Launch(w, "none")
       ELSE UNCHANGED <<thr, thread_count>>
    /\ MlGo("leaving")
    /\ UNCHANGED <<notifyVars, switchVars, mlVars, pool_queue, thread_waiting_count,
                   pool_size, job, signals>>

\* The call goes on on another stack, which marks the main thread as blocked.
Switch ==
    /\ MlAt("leaving")
    /\ thr' = [thr EXCEPT ![main_thread] = [pc |-> "altsignal", job |-> ml.job, alt |-> TRUE]]
    /\ main_state' = "Blocked"
    /\ MlGo("blocked")
    /\ UNCHANGED <<notifyVars, poolVars, mlVars, main_thread, become_worker,
                   pool_size, job, signals>>

-----------------------------------------------------------------------------
(* The other entries from OCaml.                                           *)

\* Mutant: the job is looked at before it is told that nobody waits any more.
CheckStale(j) ==
    /\ MlAt("run") /\ j \in paused /\ job[j].mutex = "nobody"
    /\ paused' = paused \ {j}
    /\ IF job[j].state = "Done" THEN Deliver(j) /\ notifiers' = notifiers \ {j}
       ELSE SetJob(j, [job[j] EXCEPT !.fast = job[j].state # "Pending"]) /\ UNCHANGED notifiers
    /\ UNCHANGED <<notifyVars, poolVars, switchVars, thr, ml, pool_size, signals>>

\* check_job, after the pause: from now on the job notifies, or it is done.
CheckJob(j) ==
    /\ MlAt("run") /\ j \in paused /\ job[j].mutex = "nobody"
    /\ paused' = paused \ {j}
    /\ IF job[j].state = "Done"
       THEN Deliver(j) /\ notifiers' = notifiers \ {j}
       ELSE SetJob(j, [job[j] EXCEPT !.fast = FALSE]) /\ UNCHANGED notifiers
    /\ UNCHANGED <<notifyVars, poolVars, switchVars, thr, ml, pool_size, signals>>

\* handle_notifications: recv_notifications, and call_notification of each id.
Recv ==
    /\ MlAt("run")
    /\ \E n \in 0..Len(notifications) :
        RecvBegin(n) /\ ml' = [ml EXCEPT !.pc = "alloc", !.n = n]
    /\ UNCHANGED <<poolVars, switchVars, mlVars, thr, pool_size, job, signals>>

RecvMore ==
    /\ MlAt("alloc")
    /\ \E m \in 0..Len(notifications) : RecvAgain(ml.n, m) /\ ml' = [ml EXCEPT !.n = m]
    /\ UNCHANGED <<poolVars, switchVars, mlVars, thr, pool_size, job, signals>>

\* The notification of a job is stopped when it is called, a signal's is not.
Dispatch ==
    LET ids == {notifications[i] : i \in 1..ml.n} \cap notifiers \cap Jobs IN
    /\ MlAt("alloc") /\ RecvEnd(ml.n)
    /\ job' = [j \in Jobs |-> IF j \notin ids THEN job[j]
                ELSE Freed(j)]
    /\ notifiers' = notifiers \ ids
    /\ MlRun
    /\ UNCHANGED <<poolVars, switchVars, paused, thr, pool_size, signals>>

SetPoolSize ==
    /\ MlAt("run")
    /\ pool_size' \in PoolSizes \ {pool_size}
    /\ UNCHANGED <<notifyVars, poolVars, switchVars, mlVars, thr, ml, job, signals>>

\* The first handler of a signal is installed, the last one removed.
SetSignal ==
    /\ MlAt("run") /\ "signal" \notin notifiers /\ signals < MaxSignals
    /\ notifiers' = notifiers \cup {"signal"}
    /\ UNCHANGED <<notifyVars, poolVars, switchVars, paused, thr, ml, pool_size, job, signals>>

RemoveSignal ==
    /\ MlAt("run") /\ "signal" \in notifiers
    /\ notifiers' = notifiers \ {"signal"}
    /\ UNCHANGED <<notifyVars, poolVars, switchVars, paused, thr, ml, pool_size, job, signals>>

\* A signal comes in the OCaml thread, outside of the sections that block it,
\* or on a thread that is in a call by the switch method.
HandleSignal ==
    /\ signals < MaxSignals /\ "signal" \in notifiers
    /\ MlAt("alloc") => (\E t \in Threads : thr[t].alt)
    /\ signals' = signals + 1
    /\ Send("signal")
    /\ UNCHANGED <<poolVars, switchVars, mlVars, thr, ml, pool_size, job>>

\* Lwt_unix.fork, in the child: only the thread that called it is left.
\* reset_after_fork empties the pool, init_notification makes a new descriptor,
\* and the pending jobs are canceled.
Fork ==
    /\ MlAt("run")
    /\ thr' = [t \in Threads |-> IF t = main_thread THEN thr[t]
                                   ELSE [pc |-> "off", job |-> "none", alt |-> FALSE]]
    /\ ForkNotify
    /\ thread_waiting_count' = 0 /\ thread_count' = 0 /\ pool_queue' = <<>>
    /\ UNCHANGED <<switchVars, notifiers, paused, ml, pool_size, job, signals>>

-----------------------------------------------------------------------------
ThreadStep(t) == Execute(t) \/ WorkerLoop(t) \/ Altstack(t)

MlStep ==
    \/ Sync \/ DetachLaunch \/ DetachQueue \/ Started \/ Join \/ SwitchLaunch \/ Switch
    \/ \E j \in Jobs : CheckJob(j)
    \/ Recv \/ RecvMore \/ Dispatch

User ==
    \/ \E j \in Jobs, m \in Methods : StartJob(j, m)
    \/ LaunchFails \/ SetPoolSize \/ SetSignal \/ RemoveSignal \/ HandleSignal
    \/ \E t \in Threads : Spurious(t)

Next == (\E t \in Threads : ThreadStep(t)) \/ MlStep \/ User

Spec == Init /\ [][Next]_vars

\* The system's threads run, the jobs' functions return, and the OCaml code goes
\* back to Lwt's main loop.  No fairness for what the program chooses to do.
FairSpec == Spec /\ (\A t \in Threads : WF_vars(ThreadStep(t))) /\ WF_vars(MlStep)

-----------------------------------------------------------------------------
Thread == [pc : Places, job : Jobs \cup {"none"}, alt : BOOLEAN]

Job == [state : {"none", "Pending", "Running", "Done"}, fast : BOOLEAN,
        mutex : Threads \cup {"nobody"},
        life : {"unborn", "alive", "freed", "twice", "raised"}]

TypeOK ==
    /\ notifications \in Seq(Jobs \cup {"signal"})
    /\ notification_count \in Nat /\ fd \in Nat
    /\ thr \in [Threads -> Thread]
    /\ ml \in [pc : MlPlaces, job : Jobs \cup {"none"}, n : Nat]
    /\ main_thread \in Threads /\ main_state \in {"Running", "Blocked"}
    /\ become_worker \in Nat
    /\ pool_queue \in Seq(Jobs)
    /\ thread_waiting_count \in Nat /\ thread_count \in Nat /\ pool_size \in PoolSizes
    /\ job \in [Jobs -> Job]
    /\ notifiers \subseteq Jobs \cup {"signal"} /\ paused \subseteq Jobs
    /\ signals \in 0..MaxSignals

\* No notification is left in the buffer without a signal that will make the
\* OCaml thread read it: the descriptor is readable, or the thread is reading
\* (send_notification, recv_notifications).
NotificationsSignalled ==
    notifications # <<>> => (fd > 0 \/ MlAt("alloc"))

\* The memory of a job is freed once, and not before the last thread that works
\* on it has read its last field: the notification id, after the mutex has been
\* given up (execute_job, start_job, check_job).
JobAlive ==
    /\ \A t \in Threads : thr[t].pc \in Executing => job[thr[t].job].life = "alive"
    /\ \A i \in DOMAIN pool_queue : job[pool_queue[i]].life = "alive"
    /\ \A j \in Jobs : job[j].life # "twice"

\* A job that has been started and is not done is in the queue once or with one
\* thread, never both and never lost (start_job, worker_loop).
JobHeldOnce ==
    \A j \in Jobs :
        Cardinality({i \in DOMAIN pool_queue : pool_queue[i] = j})
            + Cardinality({t \in Threads : thr[t].job = j /\ thr[t].pc \in {"altsignal", "begin", "work"}})
        = IF job[j].state \in {"Pending", "Running"} /\ ~(ml.job = j /\ ml.pc \in {"sync", "detach", "switch", "leaving"})
             /\ job[j].life = "alive"
          THEN 1 ELSE 0

\* thread_waiting_count is never less than the number of threads that wait: no
\* thread is launched, and no job run synchronously, while one of them is idle.
\* It may be more: a thread that wakes for nothing counts itself again, and one
\* that becomes the main thread is not taken off.
WaitersCovered == Cardinality(Waiters) <= thread_waiting_count

\* A queued job is not abandoned: a thread is awake that will come to the queue,
\* if only after the call it is in (start_job).  That is less than what is documented,
\* that "the job is run in another system thread, unless the the maximum number of
\* worker threads has been reached" (lwt_unix.cppo.mli:1331-1333), which does not hold:
\* the count may say that a thread waits when none does, and then the job is queued
\* behind a call that blocks although the pool has room.
QueueNotAbandoned ==
    pool_queue # <<>> => \E t \in Threads : thr[t].pc \notin {"off", "ml", "waiting"}

\* altstack_worker asserts that there is a checkpoint left when a call is over
\* and another thread has become the main thread.
CheckpointLeft ==
    become_worker = Cardinality({t \in Threads : thr[t].alt /\ t # main_thread})

\* A thread is started only while there are fewer than pool_size, although the
\* counts are read before pool_mutex is taken and pool_size may change.
PoolBounded == [][thread_count' > thread_count => thread_count < pool_size]_vars

\* The function of a job is called once, and its result read after it has returned:
\* by nobody before, except for a synchronous call, whose result the caller reads.
\* A job whose thread could not be launched has not run (start_job, execute_job,
\* check_job, run_job_aux).
JobStep(j) ==
    LET was == job[j]
        is  == job'[j]
    IN  /\ is.life # was.life =>
            <<was.life, is.life>> \in {<<"unborn", "alive">>, <<"alive", "freed">>, <<"alive", "raised">>}
        /\ was.life = "unborn" /\ is.life = "alive" => is.state = "Pending"
        /\ was.life = "alive" /\ is.life = "alive" /\ is.state # was.state =>
            <<was.state, is.state>> \in {<<"Pending", "Running">>, <<"Running", "Done">>}
        /\ was.life = "alive" /\ is.life = "freed" =>
            /\ was.mutex = "nobody"
            /\ was.state = "Done" \/ (was.state = "Pending" /\ MlAt("sync") /\ ml.job = j)
        /\ was.life = "alive" /\ is.life = "raised" => was.state = "Pending"

JobRunsOnce == [][\A j \in Jobs : JobStep(j)]_vars

\* Every job that is started ends up with its result read and its memory freed,
\* whatever the order in which it ends, is checked and is notified.
JobFreed == \A j \in Jobs : job[j].life = "alive" ~> job[j].life # "alive"
=============================================================================
