------------------------------ MODULE DataPath ------------------------------
(***************************************************************************)
(* The asynchronous transfer pipeline: DataPath (datapath/data_path.cpp)   *)
(* with its bounded queue, condition variable, worker thread and           *)
(* destructor, over MooncakeTransferBackend                                *)
(* (adapter/mooncake_transfer_backend.cpp) with the task that allocates a  *)
(* batch, submits it and polls it up to a deadline, over the batches of    *)
(* the Transfer Engine (third_party/mooncake, multi_transport.cpp).        *)
(*                                                                         *)
(* Each request is one call of TransferAsync by a thread of its own, which *)
(* holds the guards of its source and target buffer until its future is    *)
(* ready, as the callers in tests/cpp/datapath_property_test.cpp do.       *)
(* Critical sections of mu_ are single steps; notify_one, called after the *)
(* unlock, is a step of its own, and so are the wait, the submission, each *)
(* engine call of the task and each stage of the destructor.               *)
(***************************************************************************)
EXTENDS Naturals, Sequences, FiniteSets

CONSTANTS
  Req,            \* transfer requests, one block key each
  NoReq,          \* no request
  Capacities      \* values of queue_capacity given to the constructor

ASSUME DataPathAssumption == NoReq \notin Req /\ Capacities \subseteq Nat

VARIABLES
  capacity,     \* queue_capacity_
  queue,        \* queue_, the requests in it
  shuttingDown, \* shutting_down_
  caller,       \* where each caller is
  registered,   \* requests whose two buffers are in live_registrations_
  future,       \* the future of each request: NoFuture, Pending or its value
  worker,       \* where WorkerLoop is
  item,         \* the request it took from the queue
  task,         \* where the std::async task of SubmitAsync is
  answer,       \* the value of backend_future once the task is "done"
  batch,        \* the engine's batch of each request
  engine,       \* what the engine does with the transfer of each request
  finished,     \* requests whose task the engine has marked is_finished
  owner,        \* where the owner of the DataPath is in its destructor
  accepted,     \* history: requests that entered the queue, in order
  submitted     \* history: requests handed to SubmitAsync, in order

queueVars == <<capacity, queue, shuttingDown>>
engineVars == <<batch, engine, finished>>
history == <<accepted, submitted>>
vars == <<queueVars, caller, registered, future, worker, item, task, answer,
          engineVars, owner, history>>

\* A Result: the key is the one its receipt or its error text names.
Answer(ok, reason, key) == [ok |-> ok, reason |-> reason, key |-> key]
Receipt(r) == Answer(TRUE, "receipt", r)
Failure(reason, key) == Answer(FALSE, reason, key)
NoFuture == Answer(FALSE, "no future", NoReq)
Pending == Answer(FALSE, "pending", NoReq)

Ready(r) == future[r] \notin {NoFuture, Pending}

Init ==
  /\ \E c \in Capacities : capacity = IF c = 0 THEN 1 ELSE c
  /\ queue = <<>> /\ shuttingDown = FALSE
  /\ caller = [r \in Req |-> "start"]
  /\ registered = {}
  /\ future = [r \in Req |-> NoFuture]
  /\ worker = "wait" /\ item = NoReq
  /\ task = "none" /\ answer = NoFuture
  /\ batch = [r \in Req |-> "none"]
  /\ engine = [r \in Req |-> "idle"]
  /\ finished = {}
  /\ owner = "alive"
  /\ accepted = <<>> /\ submitted = <<>>

----------------------------------------------------------------------------
(* Callers *)

\* RegisterBuffer of the two buffers, which the engine may refuse.
Register(r, ok) ==
  /\ caller[r] = "start" /\ caller' = [caller EXCEPT ![r] = "guarded"]
  /\ registered' = IF ok THEN registered \cup {r} ELSE registered
  /\ UNCHANGED <<queueVars, future, worker, item, task, answer, engineVars,
                 owner, history>>

Refused == Len(queue) >= capacity \/ shuttingDown

Call(r) ==
  /\ caller[r] = "guarded" /\ owner # "destroyed"
  /\ UNCHANGED <<capacity, shuttingDown, registered, worker, item, task, answer,
                 engineVars, owner, submitted>>

TransferAsync(r) ==
  /\ Call(r) /\ ~Refused
  /\ caller' = [caller EXCEPT ![r] = "notify"]
  /\ queue' = Append(queue, r)
  /\ future' = [future EXCEPT ![r] = Pending]
  /\ accepted' = Append(accepted, r)

TransferRefused(r) ==
  /\ Call(r) /\ Refused
  /\ caller' = [caller EXCEPT ![r] = "returned"]
  /\ future' = [future EXCEPT ![r] = Failure("backpressure", r)]
  /\ UNCHANGED <<queue, accepted>>

Woken == IF worker = "asleep" THEN "wait" ELSE worker

\* Mutant: the notification is dropped.
Notify_Never(r) ==
  /\ caller[r] = "notify" /\ caller' = [caller EXCEPT ![r] = "returned"]
  /\ UNCHANGED <<queueVars, registered, future, worker, item, task, answer,
                 engineVars, owner, history>>

\* cv_.notify_one()
Notify(r) ==
  /\ caller[r] = "notify" /\ caller' = [caller EXCEPT ![r] = "returned"]
  /\ worker' = Woken
  /\ UNCHANGED <<queueVars, registered, future, item, task, answer, engineVars,
                 owner, history>>

\* The caller has its answer and its guards release the buffers.
Release(r) ==
  /\ caller[r] = "returned" /\ Ready(r)
  /\ caller' = [caller EXCEPT ![r] = "released"]
  /\ registered' = registered \ {r}
  /\ UNCHANGED <<queueVars, future, worker, item, task, answer, engineVars,
                 owner, history>>

----------------------------------------------------------------------------
(* WorkerLoop *)

Worker(from, to) ==
  /\ worker = from /\ worker' = to
  /\ UNCHANGED <<capacity, shuttingDown, caller, registered, engineVars, owner,
                 accepted>>

WorkerSleep ==
  /\ Worker("wait", "asleep") /\ queue = <<>> /\ ~shuttingDown
  /\ UNCHANGED <<queue, future, item, task, answer, submitted>>

\* A condition variable may wake without a notification.
WorkerSpurious ==
  /\ Worker("asleep", "wait")
  /\ UNCHANGED <<queue, future, item, task, answer, submitted>>

\* Mutant: takes the newest request.
WorkerTake_Back ==
  /\ Worker("wait", "submit") /\ queue # <<>>
  /\ item' = queue[Len(queue)] /\ queue' = SubSeq(queue, 1, Len(queue) - 1)
  /\ UNCHANGED <<future, task, answer, submitted>>

WorkerTake ==
  /\ Worker("wait", "submit") /\ queue # <<>>
  /\ item' = Head(queue) /\ queue' = Tail(queue)
  /\ UNCHANGED <<future, task, answer, submitted>>

WorkerReturn ==
  /\ Worker("wait", "returned") /\ queue = <<>> /\ shuttingDown
  /\ UNCHANGED <<queue, future, item, task, answer, submitted>>

\* Mutant: the registrations are not checked.
WorkerSubmit_Unchecked ==
  /\ Worker("submit", "get")
  /\ submitted' = Append(submitted, item)
  /\ task' = "allocate"
  /\ UNCHANGED <<queue, future, item, answer>>

\* backend_.SubmitAsync(item.request): an error at once if a buffer is not
\* registered, else the task is started.
WorkerSubmit ==
  /\ Worker("submit", "get")
  /\ submitted' = Append(submitted, item)
  /\ IF item \in registered
       THEN task' = "allocate" /\ UNCHANGED answer
       ELSE task' = "done" /\ answer' = Failure("not registered", NoReq)
  /\ UNCHANGED <<queue, future, item>>

\* item.promise.set_value(backend_future.get())
WorkerForward ==
  /\ Worker("get", "wait") /\ task = "done"
  /\ future' = [future EXCEPT ![item] = answer]
  /\ task' = "none" /\ answer' = NoFuture /\ item' = NoReq
  /\ UNCHANGED <<queue, submitted>>

----------------------------------------------------------------------------
(* The task of SubmitAsync, for the request in item *)

Task(from, to) ==
  /\ task = from /\ task' = to
  /\ UNCHANGED <<queueVars, caller, registered, future, worker, item, owner,
                 history>>

\* freeBatchID is refused while the batch has an unfinished task.
FreeBatch(done) ==
  batch' = [batch EXCEPT ![item] = IF item \in done THEN "free" ELSE @]

AllocateBatch ==
  /\ Task("allocate", "submit")
  /\ batch' = [batch EXCEPT ![item] = "live"]
  /\ UNCHANGED <<answer, engine, finished>>

AllocateFails ==
  /\ Task("allocate", "done")
  /\ answer' = Failure("no batch", NoReq)
  /\ UNCHANGED engineVars

SubmitTransfer ==
  /\ Task("submit", "poll")
  /\ engine' = [engine EXCEPT ![item] = "running"]
  /\ UNCHANGED <<answer, batch, finished>>

\* The engine has put the task into the batch before it fails, and the RDMA
\* transport posts the slices of a long transfer as it cuts them, so some may
\* be under way when a later one is refused.
SubmitFails ==
  /\ Task("submit", "done")
  /\ \E e \in {"idle", "running"} : engine' = [engine EXCEPT ![item] = e]
  /\ FreeBatch(finished)
  /\ answer' = Failure("not submitted", item)
  /\ UNCHANGED finished

\* getTransferStatus marks a transfer that has ended as finished.
PollEnded ==
  /\ Task("poll", "done")
  /\ engine[item] \in {"completed", "failed"}
  /\ finished' = finished \cup {item}
  /\ FreeBatch(finished')
  /\ answer' = IF engine[item] = "completed" THEN Receipt(item)
                                             ELSE Failure("failed", item)
  /\ UNCHANGED engine

\* Mutant: everything but a failure is taken for completion.
PollTimedOut_Receipt ==
  /\ Task("poll", "done") /\ engine[item] = "running"
  /\ FreeBatch(finished)
  /\ answer' = Receipt(item)
  /\ UNCHANGED <<engine, finished>>

\* The engine reports a slice timeout; the transfer is still running.
PollTimedOut ==
  /\ Task("poll", "done") /\ engine[item] = "running"
  /\ FreeBatch(finished)
  /\ answer' = Failure("failed", item)
  /\ UNCHANGED <<engine, finished>>

PollFails ==
  /\ Task("poll", "done")
  /\ FreeBatch(finished)
  /\ answer' = Failure("no status", NoReq)
  /\ UNCHANGED <<engine, finished>>

\* kTransferTimeout has passed.
Deadline ==
  /\ Task("poll", "done")
  /\ FreeBatch(finished)
  /\ answer' = Failure("timeout", item)
  /\ UNCHANGED <<engine, finished>>

\* The engine ends a transfer, also one the task has given up.
EngineEnds(r, how) ==
  /\ engine[r] = "running" /\ engine' = [engine EXCEPT ![r] = how]
  /\ UNCHANGED <<queueVars, caller, registered, future, worker, item, task,
                 answer, batch, finished, owner, history>>

----------------------------------------------------------------------------
(* ~DataPath *)

Owner(from, to) ==
  /\ owner = from /\ owner' = to
  /\ UNCHANGED <<capacity, caller, registered, item, task, answer, engineVars,
                 history>>

\* Mutant: the queued requests are answered, but left to the worker.
ShutDown_AnswersQueue ==
  /\ Owner("alive", "flagged")
  /\ shuttingDown' = TRUE
  /\ future' = [r \in Req |-> IF \E i \in DOMAIN queue : queue[i] = r
                                THEN Failure("shut down", NoReq)
                                ELSE future[r]]
  /\ UNCHANGED <<queue, worker>>

ShutDown ==
  /\ Owner("alive", "flagged")
  /\ shuttingDown' = TRUE
  /\ UNCHANGED <<queue, future, worker>>

NotifyAll ==
  /\ Owner("flagged", "joining")
  /\ worker' = Woken
  /\ UNCHANGED <<queueVars, future>>

\* join(), then what is left in the queue is answered.  A caller must not
\* be inside TransferAsync when the object ends.
Join ==
  /\ Owner("joining", "destroyed") /\ worker = "returned"
  /\ \A r \in Req : caller[r] # "notify"
  /\ future' = [r \in Req |-> IF \E i \in DOMAIN queue : queue[i] = r
                                THEN Failure("shut down", NoReq)
                                ELSE future[r]]
  /\ queue' = <<>>
  /\ UNCHANGED <<shuttingDown, worker>>

----------------------------------------------------------------------------

WorkerStep ==
  \/ WorkerSleep \/ WorkerTake \/ WorkerReturn \/ WorkerSubmit \/ WorkerForward

TaskStep ==
  \/ AllocateBatch \/ AllocateFails \/ SubmitTransfer \/ SubmitFails
  \/ PollEnded \/ PollTimedOut \/ PollFails \/ Deadline

OwnerStep == NotifyAll \/ Join

Next ==
  \/ \E r \in Req :
       \/ \E ok \in BOOLEAN : Register(r, ok)
       \/ TransferAsync(r) \/ TransferRefused(r) \/ Notify(r) \/ Release(r)
       \/ \E how \in {"completed", "failed"} : EngineEnds(r, how)
  \/ WorkerStep \/ WorkerSpurious
  \/ TaskStep
  \/ ShutDown \/ OwnerStep

Spec == Init /\ [][Next]_vars

\* Threads run: the worker, the task (whose deadline passes), a caller that
\* has to notify, and the destructor once it has begun.  Nothing is assumed
\* of the engine, of new calls or of spurious wake-ups.
FairSpec ==
  /\ Spec
  /\ WF_vars(WorkerStep) /\ WF_vars(TaskStep) /\ WF_vars(OwnerStep)
  /\ \A r \in Req : WF_vars(Notify(r))

----------------------------------------------------------------------------
(* Properties *)

\* Requests reach the backend in the order they were accepted, none is
\* dropped or submitted twice: what was accepted is what was submitted, the
\* request the worker holds, and the queue, which stays within its capacity.
\* So the destructor finds nothing left to drain.
AcceptedInOrder ==
  /\ accepted = submitted \o (IF worker = "submit" THEN <<item>> ELSE <<>>) \o queue
  /\ Len(queue) <= capacity

\* A promise is fulfilled once: a second set_value throws in the worker or
\* in the destructor and ends the process.
AnsweredOnce ==
  [][\A r \in Req : Ready(r) => future'[r] = future[r]]_vars

\* The answer tells what happened: a receipt is for the request's own block
\* and means that the engine completed the transfer; a call turned away by
\* back-pressure, an unregistered buffer, a failed allocation or the shut-down
\* moved no data; and no answer names another request's block.
AnswerTruthful ==
  \A r \in Req :
    /\ future[r].ok => engine[r] = "completed" /\ future[r].key = r
    /\ future[r].key \in {r, NoReq}
    /\ future[r].reason \in {"backpressure", "not registered", "no batch", "shut down"}
         => engine[r] = "idle"

\* The engine moves data only between registered buffers as long as the
\* caller waits for the answer.
WaitingRegistered ==
  \A r \in Req : engine[r] = "running" /\ ~Ready(r) => r \in registered

\* Every accepted request is answered, whatever the engine does and however
\* the call races the shut-down, and the destructor returns.
Progress ==
  /\ \A r \in Req : (future[r] = Pending) ~> Ready(r)
  /\ (owner = "flagged") ~> (owner = "destroyed")

\* A request that fails is answered with the key of its block
\* (requirement 3.6; data_path.cpp:228).
ErrorNamesBlock ==
  \A r \in Req : Ready(r) /\ ~future[r].ok => future[r].key = r

\* An answered transfer holds no batch of the engine (requirement 7.3).
BatchReleased ==
  \A r \in Req : Ready(r) => batch[r] # "live"
=============================================================================
