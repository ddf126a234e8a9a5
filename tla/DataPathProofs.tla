--------------------------- MODULE DataPathProofs ---------------------------
(***************************************************************************)
(* Safety of DataPath for any set of requests and any capacity: order and  *)
(* completeness of the queue, one answer per request, what the answers     *)
(* say, and registration of the buffers the engine works on.               *)
(***************************************************************************)
EXTENDS DataPath, SequenceTheorems, TLAPS

\* For the guards, see the end of the module.
CONSTANTS Guard, MaxReg

VARIABLES alive, bound, valid, handle, live, made, refused

Registration == INSTANCE ScopedRegistration

Reasons == {"backpressure", "not registered", "no batch", "not submitted",
            "failed", "no status", "timeout", "shut down"}

Answers ==
  [ok : BOOLEAN, reason : Reasons \cup {"receipt", "no future", "pending"},
   key : Req \cup {NoReq}]

TypeOK ==
  /\ capacity \in Nat \ {0}
  /\ queue \in Seq(Req)
  /\ shuttingDown \in BOOLEAN
  /\ caller \in [Req -> {"start", "guarded", "notify", "returned", "released"}]
  /\ registered \in SUBSET Req
  /\ future \in [Req -> Answers]
  /\ worker \in {"wait", "asleep", "submit", "get", "returned"}
  /\ item \in Req \cup {NoReq}
  /\ task \in {"none", "allocate", "submit", "poll", "done"}
  /\ answer \in Answers
  /\ batch \in [Req -> {"none", "live", "free"}]
  /\ engine \in [Req -> {"idle", "running", "completed", "failed"}]
  /\ finished \in SUBSET Req
  /\ owner \in {"alive", "flagged", "joining", "destroyed"}
  /\ accepted \in Seq(Req) /\ submitted \in Seq(Req)

\* What the worker and the destructor can rely on: the worker has an item
\* from the moment it takes it until it forwards the answer, the task runs
\* while the worker waits for it, and once the worker has returned the queue
\* is empty and closed.
Roles ==
  /\ worker \in {"submit", "get"} <=> item \in Req
  /\ worker = "get" <=> task # "none"
  /\ owner # "alive" => shuttingDown
  /\ worker = "returned" => shuttingDown /\ queue = <<>>

\* A request has no future before its call, and its promise is open as long
\* as it is in the queue, where it is once, or in the hands of the worker.
Futures ==
  /\ \A r \in Req : caller[r] \in {"start", "guarded"} => future[r] = NoFuture
  /\ \A i \in 1..Len(queue) : future[queue[i]] = Pending /\ queue[i] # item
  /\ \A i, j \in 1..Len(queue) : queue[i] = queue[j] => i = j
  /\ item \in Req => future[item] = Pending

\* Answer a is true of request r, whose transfer is in state e.
Truthful(a, r, e) ==
  /\ a.ok => e = "completed" /\ a.key = r
  /\ a.key \in {r, NoReq}
  /\ a.reason \in {"backpressure", "not registered", "no batch", "shut down"}
       => e = "idle"

\* The engine has not touched a request before its task submits it, and the
\* task works on registered buffers.
Transfers ==
  /\ \A r \in Req : engine[r] # "idle" =>
       Ready(r) \/ (r = item /\ task \in {"poll", "done"})
  /\ item \in Req /\ (task \in {"allocate", "submit", "poll"} \/ engine[item] # "idle")
       => item \in registered

Answered ==
  /\ \A r \in Req : Ready(r) => Truthful(future[r], r, engine[r])
  /\ task = "done" => Truthful(answer, item, engine[item]) /\ answer \notin {NoFuture, Pending}

Inv == TypeOK /\ AcceptedInOrder /\ Roles /\ Futures /\ Transfers /\ Answered

----------------------------------------------------------------------------
(* Answers and queues *)

\* A missing and a pending future are told apart by what they say.
LEMMA FutureFacts ==
  /\ NoFuture \in Answers /\ Pending \in Answers /\ NoFuture # Pending
  /\ NoFuture.reason = "no future" /\ Pending.reason = "pending"
<1>1. NoFuture.reason = "no future" /\ Pending.reason = "pending"
  BY DEF NoFuture, Pending, Answer
<1>2. NoFuture \in Answers /\ Pending \in Answers
  BY DEF NoFuture, Pending, Answer, Answers
<1>. QED BY <1>1, <1>2

\* A failure is an answer that says what it was built from.
LEMMA FailureFacts ==
  ASSUME NEW s \in Reasons, NEW k \in Req \cup {NoReq}
  PROVE  /\ Failure(s, k) \in Answers /\ Failure(s, k) \notin {NoFuture, Pending}
         /\ Failure(s, k).ok = FALSE /\ Failure(s, k).reason = s
         /\ Failure(s, k).key = k
<1>1. Failure(s, k).ok = FALSE /\ Failure(s, k).reason = s /\ Failure(s, k).key = k
  BY DEF Failure, Answer
<1>2. Failure(s, k) \in Answers
  BY DEF Failure, Answer, Answers
<1>3. s # "no future" /\ s # "pending"
  BY DEF Reasons
<1>. QED BY <1>1, <1>2, <1>3, FutureFacts

\* So is a receipt.
LEMMA ReceiptFacts ==
  ASSUME NEW k \in Req
  PROVE  /\ Receipt(k) \in Answers /\ Receipt(k) \notin {NoFuture, Pending}
         /\ Receipt(k).ok = TRUE /\ Receipt(k).reason = "receipt"
         /\ Receipt(k).key = k
<1>1. Receipt(k).ok = TRUE /\ Receipt(k).reason = "receipt" /\ Receipt(k).key = k
  BY DEF Receipt, Answer
<1>2. Receipt(k) \in Answers
  BY DEF Receipt, Answer, Answers
<1>. QED BY <1>1, <1>2, FutureFacts

\* What the worker holds between the queue and the backend.
Held == IF worker = "submit" THEN <<item>> ELSE <<>>

\* A sequence grows at the end of its last part.
Grows(s, t, e) == Append(s \o t, e) = s \o Append(t, e)

LEMMA AppendConcat ==
  ASSUME NEW S, NEW s \in Seq(S), NEW t \in Seq(S), NEW e \in S
  PROVE  Grows(s, t, e)
<1>1. Append(s \o t, e) \in Seq(S) /\ s \o Append(t, e) \in Seq(S)
  OBVIOUS
<1>2. Len(Append(s \o t, e)) = Len(s \o Append(t, e))
  OBVIOUS
<1>3. \A i \in 1..Len(Append(s \o t, e)) : Append(s \o t, e)[i] = (s \o Append(t, e))[i]
  OBVIOUS
<1>. QED BY <1>1, <1>2, <1>3, SeqEqual DEF Grows

\* The head of a queue followed by its tail is the queue.
LEMMA HeadTail ==
  ASSUME NEW S, NEW q \in Seq(S), q # <<>>
  PROVE  <<Head(q)>> \o Tail(q) = q
<1>1. <<Head(q)>> \o Tail(q) \in Seq(S)
  OBVIOUS
<1>2. Len(<<Head(q)>> \o Tail(q)) = Len(q)
  OBVIOUS
<1>3. \A i \in 1..Len(q) : (<<Head(q)>> \o Tail(q))[i] = q[i]
  OBVIOUS
<1>. QED BY <1>1, <1>2, <1>3, SeqEqual

----------------------------------------------------------------------------

\* The constructor establishes the invariant.
LEMMA InitInv == Init => Inv
<1>. SUFFICES ASSUME Init PROVE Inv
  OBVIOUS
<1>1. TypeOK
  <2>1. capacity \in Nat \ {0}
    BY DataPathAssumption DEF Init
  <2>2. future \in [Req -> Answers] /\ answer \in Answers
    BY FutureFacts DEF Init
  <2>3. queue \in Seq(Req) /\ accepted \in Seq(Req) /\ submitted \in Seq(Req)
    BY DEF Init
  <2>. QED BY <2>1, <2>2, <2>3 DEF Init, TypeOK
<1>2. AcceptedInOrder
  BY <1>1 DEF Init, AcceptedInOrder, TypeOK
<1>3. Roles /\ Futures
  BY DataPathAssumption DEF Init, Roles, Futures
<1>4. Transfers /\ Answered
  BY DataPathAssumption DEF Init, Transfers, Answered, Ready
<1>. QED BY <1>1, <1>2, <1>3, <1>4 DEF Inv

\* Steps of the callers.
LEMMA CallerStep ==
  ASSUME Inv, NEW r \in Req,
         \/ \E ok \in BOOLEAN : Register(r, ok)
         \/ TransferAsync(r) \/ TransferRefused(r) \/ Notify(r) \/ Release(r)
  PROVE  Inv'
<1>. USE DEF Inv
<1>1. ASSUME NEW ok \in BOOLEAN, Register(r, ok) PROVE Inv'
  <2>1. TypeOK' /\ AcceptedInOrder' /\ Roles'
    BY <1>1 DEF Register, TypeOK, AcceptedInOrder, Roles, queueVars, engineVars, history
  <2>2. Futures'
    BY <1>1 DEF Register, TypeOK, Futures, queueVars
  <2>3. Transfers'
    BY <1>1 DEF Register, TypeOK, Transfers, Ready, engineVars
  <2>4. Answered'
    BY <1>1 DEF Register, TypeOK, Answered, Ready, engineVars
  <2>. QED BY <2>1, <2>2, <2>3, <2>4
<1>2. CASE TransferAsync(r)
  <2>p. Pending \in Answers /\ NoFuture # Pending
    BY FutureFacts
  <2>q. /\ queue \in Seq(Req) /\ accepted \in Seq(Req) /\ submitted \in Seq(Req)
        /\ queue' = Append(queue, r) /\ accepted' = Append(accepted, r)
        /\ submitted' = submitted
    BY <1>2 DEF TransferAsync, Call, TypeOK
  <2>0. /\ caller[r] = "guarded" /\ future[r] = NoFuture
        /\ item # r /\ \A i \in 1..Len(queue) : queue[i] # r
        /\ ~Ready(r)
    BY <1>2, <2>p DEF TransferAsync, Call, TypeOK, Futures, Ready
  <2>1. TypeOK'
    <3>1. queue' \in Seq(Req) /\ accepted' \in Seq(Req) /\ submitted' \in Seq(Req)
      BY <2>q, AppendProperties
    <3>2. future' \in [Req -> Answers]
      BY <1>2, <2>p DEF TransferAsync, TypeOK
    <3>. QED BY <1>2, <3>1, <3>2 DEF TransferAsync, Call, TypeOK, engineVars
  <2>2. AcceptedInOrder'
    <3>1. Held \in Seq(Req)
      <4>1. worker = "submit" => item \in Req
        BY DEF Roles
      <4>. QED BY <4>1 DEF Held
    <3>2. accepted = (submitted \o Held) \o queue
      BY <3>1, <2>q, ConcatAssociative DEF AcceptedInOrder, Held
    <3>3. Append(accepted, r) = (submitted \o Held) \o Append(queue, r)
      <4>1. submitted \o Held \in Seq(Req)
        BY <3>1, <2>q, ConcatProperties
      <4>2. Grows(submitted \o Held, queue, r)
        BY <4>1, <2>q, AppendConcat
      <4>. QED BY <3>2, <4>2 DEF Grows
    <3>4. Len(queue) < capacity /\ capacity' = capacity /\ Held' = Held
      BY <1>2, <2>q DEF TransferAsync, Refused, Call, TypeOK, Held
    <3>5. Len(queue') <= capacity'
      BY <3>4, <2>q, AppendProperties DEF TypeOK
    <3>. QED BY <2>q, <3>3, <3>4, <3>5 DEF AcceptedInOrder, Held
  <2>3. Roles'
    BY <1>2 DEF TransferAsync, Call, Refused, TypeOK, Roles
  <2>4. Futures'
    <3>1. \A x \in Req : caller'[x] \in {"start", "guarded"} => future'[x] = NoFuture
      BY <1>2, <2>p DEF TransferAsync, Call, TypeOK, Futures
    <3>2. /\ Len(queue') = Len(queue) + 1 /\ queue'[Len(queue) + 1] = r
          /\ \A i \in 1..Len(queue) : queue'[i] = queue[i] /\ queue[i] \in Req
      BY <2>q, AppendProperties, ElementOfSeq
    <3>3. \A i \in 1..Len(queue') : i = Len(queue) + 1 \/ i \in 1..Len(queue)
      BY <3>2, <2>q, LenProperties
    <3>4. future'[r] = Pending /\ \A x \in Req \ {r} : future'[x] = future[x]
      BY <1>2 DEF TransferAsync, TypeOK
    <3>5. \A i \in 1..Len(queue') : future'[queue'[i]] = Pending /\ queue'[i] # item
      BY <2>0, <3>2, <3>3, <3>4 DEF Futures
    <3>6. \A i, j \in 1..Len(queue') : queue'[i] = queue'[j] => i = j
      BY <2>0, <3>2, <3>3 DEF Futures
    <3>7. item \in Req => future'[item] = Pending
      BY <2>0, <3>4 DEF Futures
    <3>8. item' = item
      BY <1>2 DEF TransferAsync, Call
    <3>. QED BY <3>1, <3>5, <3>6, <3>7, <3>8 DEF Futures
  <2>5. Transfers'
    BY <1>2, <2>0, <2>p DEF TransferAsync, Call, TypeOK, Transfers, Ready, engineVars
  <2>6. Answered'
    BY <1>2, <2>0, <2>p DEF TransferAsync, Call, TypeOK, Answered, Ready, engineVars
  <2>. QED BY <2>1, <2>2, <2>3, <2>4, <2>5, <2>6
<1>3. CASE TransferRefused(r)
  <2>. DEFINE f == Failure("backpressure", r)
  <2>f. /\ f \in Answers /\ f # NoFuture /\ f # Pending /\ NoFuture # Pending
        /\ f.ok = FALSE /\ f.reason = "backpressure" /\ f.key = r
    <3>1. "backpressure" \in Reasons /\ r \in Req \cup {NoReq}
      BY DEF Reasons
    <3>2. /\ f \in Answers /\ f \notin {NoFuture, Pending}
          /\ f.ok = FALSE /\ f.reason = "backpressure" /\ f.key = r
      BY <3>1, FailureFacts
    <3>. QED BY <3>2, FutureFacts
  <2>g. future' = [future EXCEPT ![r] = f]
    BY <1>3 DEF TransferRefused
  <2>. HIDE DEF f
  <2>0. /\ caller[r] = "guarded" /\ future[r] = NoFuture
        /\ item # r /\ \A i \in 1..Len(queue) : queue[i] # r
        /\ ~Ready(r)
    BY <1>3, <2>f DEF TransferRefused, Call, TypeOK, Futures, Ready
  <2>e. engine[r] = "idle"
    BY <2>0 DEF Transfers
  <2>u. /\ UNCHANGED <<capacity, shuttingDown, registered, worker, item, task, answer,
                      batch, engine, finished, owner, submitted, queue, accepted>>
        /\ caller' = [caller EXCEPT ![r] = "returned"]
    BY <1>3 DEF TransferRefused, Call, engineVars
  <2>1. TypeOK'
    BY <2>u, <2>g, <2>f DEF TypeOK
  <2>2. AcceptedInOrder' /\ Roles'
    BY <2>u DEF AcceptedInOrder, Roles
  <2>3. Futures'
    <3>1. \A i \in 1..Len(queue) : queue[i] \in Req
      BY ElementOfSeq DEF TypeOK
    <3>. QED BY <2>u, <2>g, <2>0, <3>1 DEF TypeOK, Futures
  <2>4. Transfers'
    BY <2>u, <2>g, <2>f, <2>0 DEF TypeOK, Transfers, Ready
  <2>5. Answered'
    <3>1. Truthful(f, r, engine[r])
      BY <2>f, <2>e, DataPathAssumption DEF Truthful
    <3>2. \A x \in Req : future'[x] = IF x = r THEN f ELSE future[x]
      BY <2>g DEF TypeOK
    <3>. QED BY <2>u, <3>1, <3>2 DEF Answered, Ready
  <2>. QED BY <2>1, <2>2, <2>3, <2>4, <2>5
<1>4. CASE Notify(r)
  <2>1. TypeOK' /\ AcceptedInOrder' /\ Roles'
    BY <1>4 DEF Notify, Woken, TypeOK, AcceptedInOrder, Roles, queueVars, engineVars, history
  <2>2. Futures' /\ Transfers' /\ Answered'
    BY <1>4 DEF Notify, TypeOK, Futures, Transfers, Answered, Ready,
                queueVars, engineVars
  <2>. QED BY <2>1, <2>2
<1>5. CASE Release(r)
  <2>1. TypeOK' /\ AcceptedInOrder' /\ Roles'
    BY <1>5 DEF Release, TypeOK, AcceptedInOrder, Roles, queueVars, engineVars, history
  <2>2. Futures' /\ Transfers' /\ Answered'
    BY <1>5 DEF Release, TypeOK, Futures, Transfers, Answered, Ready,
                queueVars, engineVars
  <2>. QED BY <2>1, <2>2
<1>. QED BY <1>1, <1>2, <1>3, <1>4, <1>5

\* Steps of the worker that only move it between its wait and its return.
LEMMA WorkerIdleStep ==
  ASSUME Inv, WorkerSleep \/ WorkerSpurious \/ WorkerReturn
  PROVE  Inv'
<1>. USE DEF Inv
<1>1. /\ worker \in {"wait", "asleep"} /\ worker' \in {"wait", "asleep", "returned"}
      /\ worker' = "returned" => shuttingDown /\ queue = <<>>
      /\ UNCHANGED <<capacity, shuttingDown, caller, registered, batch, engine, finished,
                     owner, accepted, queue, future, item, task, answer, submitted>>
  BY DEF WorkerSleep, WorkerSpurious, WorkerReturn, Worker, engineVars
<1>2. TypeOK'
  BY <1>1 DEF TypeOK
<1>3. AcceptedInOrder' /\ Roles'
  BY <1>1 DEF AcceptedInOrder, Roles
<1>4. Futures' /\ Transfers' /\ Answered'
  BY <1>1 DEF Futures, Transfers, Answered, Ready
<1>. QED BY <1>2, <1>3, <1>4

\* The worker takes the oldest request, whose promise is open and whose
\* transfer has not begun.
LEMMA TakeStep ==
  ASSUME Inv, WorkerTake
  PROVE  Inv'
<1>. USE DEF Inv
<1>1. /\ worker = "wait" /\ worker' = "submit" /\ queue \in Seq(Req) /\ queue # <<>>
      /\ item' = Head(queue) /\ queue' = Tail(queue)
      /\ UNCHANGED <<capacity, shuttingDown, caller, registered, batch, engine, finished,
                     owner, accepted, future, task, answer, submitted>>
  BY DEF WorkerTake, Worker, engineVars, TypeOK
<1>2. /\ queue' \in Seq(Req) /\ Len(queue) \in Nat \ {0} /\ Len(queue') = Len(queue) - 1
      /\ item' = queue[1] /\ item' \in Req
      /\ \A i \in 1..Len(queue') : i + 1 \in 1..Len(queue) /\ queue'[i] = queue[i + 1]
  <2>1. Len(queue) \in Nat \ {0}
    BY <1>1, LenProperties, EmptySeq
  <2>. QED BY <1>1, <2>1, HeadTailProperties, ElementOfSeq
<1>3. item = NoReq /\ task = "none"
  BY <1>1 DEF Roles, TypeOK
<1>4. TypeOK'
  BY <1>1, <1>2 DEF TypeOK
<1>5. AcceptedInOrder'
  <2>1. <<Head(queue)>> \o Tail(queue) = queue
    BY <1>1, HeadTail
  <2>2. accepted = submitted \o queue
    BY <1>1, ConcatEmptySeq DEF AcceptedInOrder, TypeOK
  <2>3. submitted \in Seq(Req) /\ <<item'>> \in Seq(Req)
    BY <1>2 DEF TypeOK
  <2>4. (submitted \o <<item'>>) \o queue' = submitted \o (<<item'>> \o queue')
    BY <1>2, <2>3, ConcatAssociative
  <2>5. accepted' = (submitted' \o <<item'>>) \o queue'
    BY <1>1, <2>1, <2>2, <2>4
  <2>6. Len(queue') <= capacity'
    BY <1>1, <1>2 DEF AcceptedInOrder, TypeOK
  <2>. QED BY <1>1, <2>5, <2>6 DEF AcceptedInOrder
<1>6. Roles'
  BY <1>1, <1>2, <1>3 DEF Roles, TypeOK
<1>7. Futures'
  <2>1. 1 \in 1..Len(queue)
    BY <1>2
  <2>2. \A i \in 1..Len(queue') : future'[queue'[i]] = Pending /\ queue'[i] # item'
    BY <1>1, <1>2, <2>1 DEF Futures
  <2>3. \A i, j \in 1..Len(queue') : queue'[i] = queue'[j] => i = j
    BY <1>1, <1>2 DEF Futures
  <2>4. future'[item'] = Pending
    BY <1>1, <1>2, <2>1 DEF Futures
  <2>. QED BY <1>1, <2>2, <2>3, <2>4 DEF Futures
<1>8. engine[item'] = "idle"
  <2>1. future[item'] = Pending
    BY <1>1, <1>2 DEF Futures
  <2>. QED BY <1>2, <1>3, <2>1, DataPathAssumption DEF Transfers, Ready
<1>9. Transfers' /\ Answered'
  BY <1>1, <1>2, <1>3, <1>8, DataPathAssumption DEF Transfers, Answered, Ready
<1>. QED BY <1>4, <1>5, <1>6, <1>7, <1>9

\* SubmitAsync starts the task for a registered request and answers any other.
LEMMA SubmitStep ==
  ASSUME Inv, WorkerSubmit
  PROVE  Inv'
<1>. USE DEF Inv
<1>. DEFINE f == Failure("not registered", NoReq)
<1>f. /\ f \in Answers /\ f \notin {NoFuture, Pending}
      /\ f.ok = FALSE /\ f.reason = "not registered" /\ f.key = NoReq
  <2>1. "not registered" \in Reasons /\ NoReq \in Req \cup {NoReq}
    BY DEF Reasons
  <2>. QED BY <2>1, FailureFacts
<1>1. /\ worker = "submit" /\ worker' = "get" /\ submitted' = Append(submitted, item)
      /\ \/ item \in registered /\ task' = "allocate" /\ answer' = answer
         \/ task' = "done" /\ answer' = f
      /\ UNCHANGED <<capacity, shuttingDown, caller, registered, batch, engine, finished,
                     owner, accepted, queue, future, item>>
  BY DEF WorkerSubmit, Worker, engineVars
<1>. HIDE DEF f
<1>2. item \in Req /\ task = "none" /\ future[item] = Pending
  BY <1>1 DEF Roles, TypeOK, Futures
<1>3. engine[item] = "idle"
  BY <1>2 DEF Transfers, Ready
<1>4. TypeOK'
  <2>1. submitted' \in Seq(Req)
    BY <1>1, <1>2, AppendProperties DEF TypeOK
  <2>. QED BY <1>1, <1>f, <2>1 DEF TypeOK
<1>5. AcceptedInOrder'
  <2>1. submitted \in Seq(Req)
    BY DEF TypeOK
  <2>2. submitted' = submitted \o <<item>> /\ submitted' \in Seq(Req)
    BY <1>1, <1>2, <2>1, AppendIsConcat, AppendProperties
  <2>3. submitted' \o <<>> = submitted'
    BY <2>2, ConcatEmptySeq
  <2>4. accepted = (submitted \o <<item>>) \o queue
    BY <1>1 DEF AcceptedInOrder
  <2>. QED BY <1>1, <2>2, <2>3, <2>4 DEF AcceptedInOrder
<1>6. Roles'
  BY <1>1, <1>2 DEF Roles
<1>7. Futures'
  BY <1>1 DEF Futures
<1>8. Transfers'
  BY <1>1, <1>2, <1>3 DEF Transfers, Ready
<1>9. Answered'
  <2>1. Truthful(f, item, engine[item])
    BY <1>f, <1>3, DataPathAssumption DEF Truthful
  <2>. QED BY <1>1, <1>2, <1>f, <2>1 DEF Answered, Ready
<1>. QED BY <1>4, <1>5, <1>6, <1>7, <1>8, <1>9

\* The answer of the task becomes the answer of the request, once.
LEMMA ForwardStep ==
  ASSUME Inv, WorkerForward
  PROVE  Inv'
<1>. USE DEF Inv
<1>1. /\ worker = "get" /\ worker' = "wait" /\ task = "done" /\ task' = "none"
      /\ future' = [future EXCEPT ![item] = answer] /\ answer' = NoFuture /\ item' = NoReq
      /\ UNCHANGED <<capacity, shuttingDown, caller, registered, batch, engine, finished,
                     owner, accepted, queue, submitted>>
  BY DEF WorkerForward, Worker, engineVars
<1>2. /\ item \in Req /\ future[item] = Pending /\ answer \in Answers
      /\ answer # NoFuture /\ answer # Pending /\ Truthful(answer, item, engine[item])
  BY <1>1 DEF Roles, TypeOK, Futures, Answered
<1>3. NoFuture \in Answers /\ NoFuture # Pending
  BY FutureFacts
<1>4. \A x \in Req : future'[x] = IF x = item THEN answer ELSE future[x]
  BY <1>1 DEF TypeOK
<1>5. TypeOK'
  BY <1>1, <1>2, <1>3 DEF TypeOK
<1>6. AcceptedInOrder'
  BY <1>1 DEF AcceptedInOrder
<1>7. Roles'
  BY <1>1, DataPathAssumption DEF Roles
<1>8. Futures'
  <2>1. \A i \in 1..Len(queue) : queue[i] \in Req
    BY ElementOfSeq DEF TypeOK
  <2>2. \A x \in Req : caller'[x] \in {"start", "guarded"} => future'[x] = NoFuture
    BY <1>1, <1>2, <1>3, <1>4 DEF Futures
  <2>. QED BY <1>1, <1>4, <2>1, <2>2, DataPathAssumption DEF Futures
<1>9. Transfers'
  BY <1>1, <1>2, <1>4, DataPathAssumption DEF Transfers, Ready
<1>10. Answered'
  BY <1>1, <1>2, <1>4 DEF Answered, Ready
<1>. QED BY <1>5, <1>6, <1>7, <1>8, <1>9, <1>10

\* What each step of the task has to show: it works for the item the worker
\* waits for, on whose transfer alone it acts, and ends with a true answer.
LEMMA TaskFrame ==
  ASSUME Inv, NEW from \in {"allocate", "submit", "poll"},
         NEW to \in {"submit", "poll", "done"}, Task(from, to),
         answer' \in Answers, batch' \in [Req -> {"none", "live", "free"}],
         engine' \in [Req -> {"idle", "running", "completed", "failed"}],
         finished' \in SUBSET Req,
         \A x \in Req \ {item} : engine'[x] = engine[x],
         engine'[item] # "idle" => to \in {"poll", "done"},
         to = "done" => /\ Truthful(answer', item, engine'[item])
                        /\ answer' \notin {NoFuture, Pending}
  PROVE  Inv'
<1>. USE DEF Inv
<1>1. /\ task = from /\ task' = to /\ task # "none" /\ task' # "none"
      /\ UNCHANGED <<capacity, queue, shuttingDown, caller, registered, future, worker,
                     item, owner, accepted, submitted>>
  BY DEF Task, queueVars, history
<1>2. worker = "get" /\ item \in Req /\ future[item] = Pending /\ item \in registered
  BY <1>1 DEF Roles, Futures, Transfers
<1>3. TypeOK'
  BY <1>1 DEF TypeOK
<1>4. AcceptedInOrder' /\ Roles' /\ Futures'
  BY <1>1 DEF AcceptedInOrder, Roles, Futures
<1>5. Transfers'
  BY <1>1, <1>2 DEF Transfers, Ready
<1>6. Answered'
  <2>1. ~Ready(item)
    BY <1>2 DEF Ready
  <2>. QED BY <1>1, <2>1 DEF Answered, Ready
<1>. QED BY <1>3, <1>4, <1>5, <1>6

\* Freeing a batch leaves a batch in one of its states.
LEMMA FreeBatchType ==
  ASSUME batch \in [Req -> {"none", "live", "free"}], NEW done, FreeBatch(done)
  PROVE  batch' \in [Req -> {"none", "live", "free"}]
BY DEF FreeBatch

\* Steps of the task.
LEMMA TaskInv ==
  ASSUME Inv, TaskStep
  PROVE  Inv'
<1>t. /\ batch \in [Req -> {"none", "live", "free"}] /\ finished \in SUBSET Req
      /\ engine \in [Req -> {"idle", "running", "completed", "failed"}]
      /\ answer \in Answers
  BY DEF Inv, TypeOK
<1>i. task # "none" => item \in Req /\ future[item] = Pending /\ ~Ready(item)
  BY DEF Inv, Roles, Futures, Ready
<1>e. task \in {"allocate", "submit"} => engine[item] = "idle"
  BY <1>i DEF Inv, Transfers
<1>f. ASSUME NEW s \in Reasons, NEW k \in Req \cup {NoReq}
      PROVE  /\ Failure(s, k) \in Answers /\ Failure(s, k) \notin {NoFuture, Pending}
             /\ Failure(s, k).ok = FALSE /\ Failure(s, k).reason = s
             /\ Failure(s, k).key = k
  BY FailureFacts
<1>s. /\ "no batch" \in Reasons /\ "not submitted" \in Reasons /\ "failed" \in Reasons
      /\ "no status" \in Reasons /\ "timeout" \in Reasons
      /\ NoReq \in Req \cup {NoReq} /\ \A x \in Req : x \in Req \cup {NoReq}
  BY DEF Reasons
<1>1. CASE AllocateBatch
  <2>1. /\ Task("allocate", "submit") /\ answer' = answer /\ engine' = engine
        /\ finished' = finished /\ batch' = [batch EXCEPT ![item] = "live"]
        /\ task = "allocate"
    BY <1>1 DEF AllocateBatch, Task
  <2>2. batch' \in [Req -> {"none", "live", "free"}]
    BY <1>t, <2>1
  <2>. QED BY <1>t, <1>e, <2>1, <2>2, TaskFrame
<1>2. CASE AllocateFails
  <2>. DEFINE f == Failure("no batch", NoReq)
  <2>1. /\ Task("allocate", "done") /\ answer' = f /\ engine' = engine
        /\ finished' = finished /\ batch' = batch /\ task = "allocate"
    BY <1>2 DEF AllocateFails, Task, engineVars
  <2>2. /\ f \in Answers /\ f \notin {NoFuture, Pending}
        /\ f.ok = FALSE /\ f.reason = "no batch" /\ f.key = NoReq
    BY <1>f, <1>s
  <2>. HIDE DEF f
  <2>3. Truthful(f, item, engine[item])
    BY <1>e, <2>1, <2>2 DEF Truthful
  <2>. QED BY <1>t, <2>1, <2>2, <2>3, TaskFrame
<1>3. CASE SubmitTransfer
  <2>1. /\ Task("submit", "poll") /\ answer' = answer /\ batch' = batch
        /\ finished' = finished /\ engine' = [engine EXCEPT ![item] = "running"]
    BY <1>3 DEF SubmitTransfer
  <2>2. /\ engine' \in [Req -> {"idle", "running", "completed", "failed"}]
        /\ \A x \in Req \ {item} : engine'[x] = engine[x]
    BY <1>t, <2>1
  <2>. QED BY <1>t, <2>1, <2>2, TaskFrame
<1>4. CASE SubmitFails
  <2>. DEFINE f == Failure("not submitted", item)
  <2>1. /\ Task("submit", "done") /\ answer' = f
        /\ finished' = finished /\ FreeBatch(finished) /\ task = "submit"
        /\ \E e \in {"idle", "running"} : engine' = [engine EXCEPT ![item] = e]
    BY <1>4 DEF SubmitFails, Task
  <2>2. /\ f \in Answers /\ f \notin {NoFuture, Pending}
        /\ f.ok = FALSE /\ f.reason = "not submitted" /\ f.key = item
    BY <1>f, <1>s, <1>i, <2>1
  <2>. HIDE DEF f
  <2>3. Truthful(f, item, engine'[item])
    BY <1>i, <2>1, <2>2, DataPathAssumption DEF Truthful
  <2>4. batch' \in [Req -> {"none", "live", "free"}]
    BY <1>t, <2>1, FreeBatchType
  <2>5. /\ engine' \in [Req -> {"idle", "running", "completed", "failed"}]
        /\ \A x \in Req \ {item} : engine'[x] = engine[x]
    BY <1>t, <2>1
  <2>. QED BY <1>t, <2>1, <2>2, <2>3, <2>4, <2>5, TaskFrame
<1>5. CASE PollEnded
  <2>1. /\ Task("poll", "done") /\ engine' = engine /\ FreeBatch(finished') /\ task = "poll"
        /\ finished' = finished \cup {item}
        /\ answer' = IF engine[item] = "completed" THEN Receipt(item)
                                                   ELSE Failure("failed", item)
    BY <1>5 DEF PollEnded, Task
  <2>2. finished' \in SUBSET Req /\ item \in Req
    BY <1>t, <1>i, <2>1
  <2>3. /\ answer' \in Answers /\ answer' \notin {NoFuture, Pending}
        /\ answer'.ok = (engine[item] = "completed")
        /\ answer'.reason \in {"receipt", "failed"} /\ answer'.key = item
    <3>1. CASE engine[item] = "completed"
      BY <2>1, <2>2, <3>1, ReceiptFacts
    <3>2. CASE engine[item] # "completed"
      <4>1. answer' = Failure("failed", item)
        BY <2>1, <3>2
      <4>2. "failed" \in Reasons /\ item \in Req \cup {NoReq}
        BY <2>2, <1>s
      <4>3. /\ Failure("failed", item) \in Answers /\ Failure("failed", item) \notin {NoFuture, Pending}
            /\ Failure("failed", item).ok = FALSE /\ Failure("failed", item).reason = "failed"
            /\ Failure("failed", item).key = item
        BY <4>2, FailureFacts
      <4>4. /\ answer' \in Answers /\ answer' \notin {NoFuture, Pending}
            /\ answer'.ok = FALSE /\ answer'.reason = "failed" /\ answer'.key = item
        BY <4>1, <4>3
      <4>. QED BY <3>2, <4>4
    <3>. QED BY <3>1, <3>2
  <2>4. Truthful(answer', item, engine[item])
    BY <2>2, <2>3, DataPathAssumption DEF Truthful
  <2>5. batch' \in [Req -> {"none", "live", "free"}]
    BY <1>t, <2>1, FreeBatchType
  <2>. QED BY <1>t, <2>1, <2>2, <2>3, <2>4, <2>5, TaskFrame
<1>6. CASE PollTimedOut \/ PollFails \/ Deadline
  <2>1. /\ Task("poll", "done") /\ engine' = engine /\ FreeBatch(finished) /\ task = "poll"
        /\ finished' = finished
    BY <1>6 DEF PollTimedOut, PollFails, Deadline, Task
  <2>2. item \in Req
    BY <1>i, <2>1
  <2>3. /\ answer' \in Answers /\ answer' \notin {NoFuture, Pending}
        /\ answer'.ok = FALSE /\ answer'.reason \in {"failed", "no status", "timeout"}
        /\ \/ answer'.key = item
           \/ answer'.key = NoReq /\ answer'.reason = "no status"
    <3>1. CASE PollTimedOut
      <4>1. answer' = Failure("failed", item)
        BY <3>1 DEF PollTimedOut
      <4>2. "failed" \in Reasons /\ item \in Req \cup {NoReq}
        BY <2>2, <1>s
      <4>3. /\ Failure("failed", item) \in Answers /\ Failure("failed", item) \notin {NoFuture, Pending}
            /\ Failure("failed", item).ok = FALSE /\ Failure("failed", item).reason = "failed"
            /\ Failure("failed", item).key = item
        BY <4>2, FailureFacts
      <4>4. /\ answer' \in Answers /\ answer' \notin {NoFuture, Pending}
            /\ answer'.ok = FALSE /\ answer'.reason = "failed" /\ answer'.key = item
        BY <4>1, <4>3
      <4>. QED BY <4>4
    <3>2. CASE PollFails
      <4>1. answer' = Failure("no status", NoReq)
        BY <3>2 DEF PollFails
      <4>2. "no status" \in Reasons /\ NoReq \in Req \cup {NoReq}
        BY <2>2, <1>s
      <4>3. /\ Failure("no status", NoReq) \in Answers /\ Failure("no status", NoReq) \notin {NoFuture, Pending}
            /\ Failure("no status", NoReq).ok = FALSE /\ Failure("no status", NoReq).reason = "no status"
            /\ Failure("no status", NoReq).key = NoReq
        BY <4>2, FailureFacts
      <4>4. /\ answer' \in Answers /\ answer' \notin {NoFuture, Pending}
            /\ answer'.ok = FALSE /\ answer'.reason = "no status" /\ answer'.key = NoReq
        BY <4>1, <4>3
      <4>. QED BY <4>4
    <3>3. CASE Deadline
      <4>1. answer' = Failure("timeout", item)
        BY <3>3 DEF Deadline
      <4>2. "timeout" \in Reasons /\ item \in Req \cup {NoReq}
        BY <2>2, <1>s
      <4>3. /\ Failure("timeout", item) \in Answers /\ Failure("timeout", item) \notin {NoFuture, Pending}
            /\ Failure("timeout", item).ok = FALSE /\ Failure("timeout", item).reason = "timeout"
            /\ Failure("timeout", item).key = item
        BY <4>2, FailureFacts
      <4>4. /\ answer' \in Answers /\ answer' \notin {NoFuture, Pending}
            /\ answer'.ok = FALSE /\ answer'.reason = "timeout" /\ answer'.key = item
        BY <4>1, <4>3
      <4>. QED BY <4>4
    <3>. QED BY <1>6, <3>1, <3>2, <3>3
  <2>4. Truthful(answer', item, engine[item])
    BY <2>2, <2>3, DataPathAssumption DEF Truthful
  <2>5. batch' \in [Req -> {"none", "live", "free"}]
    BY <1>t, <2>1, FreeBatchType
  <2>. QED BY <1>t, <2>1, <2>3, <2>4, <2>5, TaskFrame
<1>. QED BY <1>1, <1>2, <1>3, <1>4, <1>5, <1>6 DEF TaskStep

\* The engine ends a transfer that no answer has called completed or idle.
LEMMA EngineStep ==
  ASSUME Inv, NEW r \in Req, NEW how \in {"completed", "failed"}, EngineEnds(r, how)
  PROVE  Inv'
<1>. USE DEF Inv
<1>1. /\ engine[r] = "running" /\ engine' = [engine EXCEPT ![r] = how]
      /\ UNCHANGED <<capacity, queue, shuttingDown, caller, registered, future, worker,
                     item, task, answer, batch, finished, owner, accepted, submitted>>
  BY DEF EngineEnds, queueVars, history
<1>2. /\ engine' \in [Req -> {"idle", "running", "completed", "failed"}]
      /\ \A x \in Req : engine'[x] = IF x = r THEN how ELSE engine[x]
  BY <1>1 DEF TypeOK
<1>3. TypeOK' /\ AcceptedInOrder' /\ Roles' /\ Futures'
  BY <1>1, <1>2 DEF TypeOK, AcceptedInOrder, Roles, Futures
<1>4. Transfers'
  BY <1>1, <1>2 DEF Transfers, Ready
<1>5. ASSUME NEW a, Truthful(a, r, engine[r]) PROVE Truthful(a, r, how)
  BY <1>1, <1>5 DEF Truthful
<1>6. task = "done" => item \in Req
  BY DEF Roles
<1>7. Answered'
  BY <1>1, <1>2, <1>5, <1>6 DEF Answered, Ready
<1>. QED BY <1>3, <1>4, <1>7

\* The destructor finds an empty queue once the worker has returned.
LEMMA OwnerInv ==
  ASSUME Inv, ShutDown \/ OwnerStep
  PROVE  Inv' /\ future' = future
<1>. USE DEF Inv
<1>1. future' = future /\ queue' = queue
  <2>1. CASE ShutDown
    BY <2>1 DEF ShutDown
  <2>2. CASE NotifyAll
    BY <2>2 DEF NotifyAll, queueVars
  <2>3. CASE Join
    <3>1. queue = <<>> /\ queue' = <<>>
      BY <2>3 DEF Join, Roles
    <3>2. future' = [r \in Req |-> future[r]]
      BY <2>3, <3>1 DEF Join
    <3>. QED BY <3>1, <3>2 DEF TypeOK
  <2>. QED BY <2>1, <2>2, <2>3 DEF OwnerStep
<1>2. /\ owner' \in {"flagged", "joining", "destroyed"}
      /\ shuttingDown' = TRUE
      /\ \/ worker' = worker
         \/ worker = "asleep" /\ worker' = "wait"
      /\ UNCHANGED <<capacity, caller, registered, item, task, answer, batch, engine,
                     finished, accepted, submitted>>
  BY DEF ShutDown, OwnerStep, NotifyAll, Join, Owner, Woken, engineVars, queueVars, history,
         Roles, TypeOK
<1>3. TypeOK'
  BY <1>1, <1>2 DEF TypeOK
<1>4. AcceptedInOrder' /\ Roles'
  BY <1>1, <1>2 DEF AcceptedInOrder, Roles
<1>5. Futures' /\ Transfers' /\ Answered'
  BY <1>1, <1>2 DEF Futures, Transfers, Answered, Ready
<1>. QED BY <1>1, <1>3, <1>4, <1>5

\* A step that changes nothing keeps the invariant.
LEMMA StutterInv ==
  ASSUME Inv, UNCHANGED vars
  PROVE  Inv'
<1>1. UNCHANGED <<capacity, queue, shuttingDown, caller, registered, future, worker, item,
                  task, answer, batch, engine, finished, owner, accepted, submitted>>
  BY DEF vars, queueVars, engineVars, history
<1>. QED
  BY <1>1 DEF Inv, TypeOK, AcceptedInOrder, Roles, Futures, Transfers, Answered, Ready

\* Every step keeps the invariant.
LEMMA NextInv == Inv /\ [Next]_vars => Inv'
<1>. SUFFICES ASSUME Inv, [Next]_vars PROVE Inv'
  OBVIOUS
<1>1. ASSUME NEW r \in Req,
             \/ \E ok \in BOOLEAN : Register(r, ok)
             \/ TransferAsync(r) \/ TransferRefused(r) \/ Notify(r) \/ Release(r)
      PROVE  Inv'
  BY <1>1, CallerStep
<1>2. ASSUME NEW r \in Req, NEW how \in {"completed", "failed"}, EngineEnds(r, how)
      PROVE  Inv'
  BY <1>2, EngineStep
<1>3. CASE WorkerStep \/ WorkerSpurious
  BY <1>3, WorkerIdleStep, TakeStep, SubmitStep, ForwardStep DEF WorkerStep
<1>4. CASE TaskStep
  BY <1>4, TaskInv
<1>5. CASE ShutDown \/ OwnerStep
  BY <1>5, OwnerInv
<1>6. CASE UNCHANGED vars
  BY <1>6, StutterInv
<1>. QED BY <1>1, <1>2, <1>3, <1>4, <1>5, <1>6 DEF Next

\* The invariant holds in every reachable state.
THEOREM DataPathInv == Spec => []Inv
BY InitInv, NextInv, PTL DEF Spec

\* TransferAsync, WorkerLoop and the destructor lose, repeat and reorder no
\* accepted request, and the queue stays within its capacity: for any set of
\* requests, any capacity and any interleaving of callers, worker and owner.
THEOREM OrderKept == Spec => []AcceptedInOrder
<1>1. Inv => AcceptedInOrder
  BY DEF Inv
<1>. QED BY <1>1, DataPathInv, PTL

\* Whatever the engine, the deadline and the shut-down do, a receipt is for a
\* transfer of its own block that the engine completed, and a request turned
\* away before its submission moved no data.
THEOREM AnswersTrue == Spec => []AnswerTruthful
<1>1. Inv => AnswerTruthful
  <2>. SUFFICES ASSUME Inv, NEW r \in Req
       PROVE  /\ future[r].ok => engine[r] = "completed" /\ future[r].key = r
              /\ future[r].key \in {r, NoReq}
              /\ future[r].reason \in {"backpressure", "not registered", "no batch",
                                       "shut down"}
                   => engine[r] = "idle"
    BY DEF AnswerTruthful
  <2>1. CASE Ready(r)
    <3>1. Truthful(future[r], r, engine[r])
      BY <2>1 DEF Inv, Answered
    <3>. QED BY <3>1 DEF Truthful
  <2>2. CASE ~Ready(r)
    <3>1. future[r] = NoFuture \/ future[r] = Pending
      BY <2>2 DEF Ready
    <3>2. /\ NoFuture.ok = FALSE /\ NoFuture.key = NoReq /\ NoFuture.reason = "no future"
          /\ Pending.ok = FALSE /\ Pending.key = NoReq /\ Pending.reason = "pending"
      BY DEF NoFuture, Pending, Answer
    <3>. QED BY <2>2, <3>1, <3>2
  <2>. QED BY <2>1, <2>2
<1>. QED BY <1>1, DataPathInv, PTL

\* The buffers of a transfer that runs are registered until its caller has
\* the answer: the guards of RegisterBuffer outlive what the worker does.
THEOREM BuffersRegistered == Spec => []WaitingRegistered
<1>1. Inv => WaitingRegistered
  BY DEF Inv, WaitingRegistered, Transfers
<1>. QED BY <1>1, DataPathInv, PTL

\* No promise is fulfilled twice: neither TransferAsync, the worker nor the
\* destructor touches a future that is ready.
THEOREM OneAnswer == Spec => AnsweredOnce
<1>1. ASSUME Inv, [Next]_vars
      PROVE  [\A r \in Req : Ready(r) => future'[r] = future[r]]_vars
  <2>. SUFFICES ASSUME NEW x \in Req, Ready(x)
       PROVE  future'[x] = future[x]
    OBVIOUS
  <2>t. future \in [Req -> Answers]
    BY <1>1 DEF Inv, TypeOK
  <2>1. ASSUME NEW r \in Req, TransferAsync(r) \/ TransferRefused(r)
        PROVE  future'[x] = future[x]
    <3>1. caller[r] = "guarded"
      BY <2>1 DEF TransferAsync, TransferRefused, Call
    <3>2. x # r
      BY <1>1, <3>1 DEF Inv, Futures, Ready
    <3>. QED BY <2>1, <3>2, <2>t DEF TransferAsync, TransferRefused
  <2>2. CASE WorkerForward
    <3>1. worker = "get" /\ future' = [future EXCEPT ![item] = answer]
      BY <2>2 DEF WorkerForward, Worker
    <3>2. x # item
      BY <1>1, <3>1 DEF Inv, Roles, Futures, Ready
    <3>. QED BY <3>1, <3>2, <2>t
  <2>3. CASE ShutDown \/ OwnerStep
    BY <1>1, <2>3, OwnerInv
  <2>4. ASSUME NEW r \in Req, (\E ok \in BOOLEAN : Register(r, ok)) \/ Notify(r) \/ Release(r)
        PROVE  future'[x] = future[x]
    BY <2>4 DEF Register, Notify, Release
  <2>5. ASSUME NEW r \in Req, NEW how \in {"completed", "failed"}, EngineEnds(r, how)
        PROVE  future'[x] = future[x]
    BY <2>5 DEF EngineEnds
  <2>6. CASE WorkerSleep \/ WorkerSpurious \/ WorkerTake \/ WorkerReturn \/ WorkerSubmit
    BY <2>6 DEF WorkerSleep, WorkerSpurious, WorkerTake, WorkerReturn, WorkerSubmit
  <2>7. CASE TaskStep
    BY <2>7 DEF TaskStep, AllocateBatch, AllocateFails, SubmitTransfer, SubmitFails,
                PollEnded, PollTimedOut, PollFails, Deadline, Task
  <2>8. CASE UNCHANGED vars
    BY <2>8 DEF vars
  <2>. QED
    BY <1>1, <2>1, <2>2, <2>3, <2>4, <2>5, <2>6, <2>7, <2>8 DEF Next, WorkerStep
<1>. QED BY <1>1, DataPathInv, PTL DEF Spec, AnsweredOnce

----------------------------------------------------------------------------
(* The guards that register those buffers: ScopedRegistration, for any set   *)
(* of guard objects and any number of registrations.                         *)

GuardsInv == Registration!TypeOK /\ Registration!Paired

\* A move hands the registration of h to g, and releases nothing else.
LEMMA MovePairs ==
  ASSUME GuardsInv, NEW g \in Guard, NEW h \in Guard, g # h, h \in alive,
         bound' = Registration!Moved(bound, g, h), valid' = Registration!Moved(valid, g, h),
         handle' = [handle EXCEPT ![g] = handle[h]],
         live' = {handle[x] : x \in valid \ {g}}, refused' = FALSE,
         alive' = alive \cup {g}, made' = made
  PROVE  GuardsInv'
<1>1. /\ alive' \subseteq Guard /\ bound' \subseteq alive' /\ valid' \subseteq bound'
      /\ handle' \in [Guard -> Nat]
  BY DEF GuardsInv, Registration!TypeOK, Registration!Moved
<1>2. live' \subseteq 1..made' /\ made' \in Nat
  BY DEF GuardsInv, Registration!TypeOK, Registration!Paired
<1>3. \A x, y \in valid' : handle'[x] = handle'[y] => x = y
  BY DEF GuardsInv, Registration!TypeOK, Registration!Paired, Registration!Moved
<1>4. live' = {handle'[x] : x \in valid'}
  <2>1. ASSUME NEW x \in valid \ {g} PROVE \E y \in valid' : handle[x] = handle'[y]
    <3>1. CASE x = h
      BY <2>1, <3>1 DEF GuardsInv, Registration!TypeOK, Registration!Moved
    <3>2. CASE x # h
      BY <2>1, <3>2 DEF GuardsInv, Registration!TypeOK, Registration!Moved
    <3> QED BY <3>1, <3>2
  <2>2. ASSUME NEW y \in valid' PROVE \E x \in valid \ {g} : handle[x] = handle'[y]
    <3>1. CASE y = g
      BY <2>2, <3>1 DEF GuardsInv, Registration!TypeOK, Registration!Moved
    <3>2. CASE y # g
      BY <2>2, <3>2 DEF GuardsInv, Registration!TypeOK, Registration!Moved
    <3> QED BY <3>1, <3>2
  <2> QED BY <2>1, <2>2
<1>5. refused' \in BOOLEAN
  OBVIOUS
<1> QED BY <1>1, <1>2, <1>3, <1>4, <1>5 DEF GuardsInv, Registration!TypeOK, Registration!Paired

\* What DeregisterBuffer leaves: the registrations of the other valid guards.
LEMMA DeregisterPairs ==
  ASSUME GuardsInv, NEW g \in Guard, Registration!Deregister(g)
  PROVE  live' = {handle[x] : x \in valid \ {g}} /\ refused' = FALSE
<1>1. CASE g \in valid
  <2>1. Registration!Releases(g) /\ handle[g] \in live
    BY <1>1 DEF GuardsInv, Registration!TypeOK, Registration!Paired, Registration!Releases
  <2>2. live' = live \ {handle[g]}
    BY <2>1 DEF Registration!Deregister
  <2>3. live' = {handle[x] : x \in valid \ {g}}
    BY <1>1, <2>2 DEF GuardsInv, Registration!TypeOK, Registration!Paired
  <2>4. refused' = FALSE
    BY <2>1, Zenon DEF GuardsInv, Registration!Paired, Registration!Deregister
  <2> QED BY <2>3, <2>4
<1>2. CASE g \notin valid
  <2>1. ~Registration!Releases(g) /\ refused = FALSE
    BY <1>2 DEF GuardsInv, Registration!Paired, Registration!Releases
  <2>2. live' = live /\ valid \ {g} = valid
    BY <1>2, <2>1 DEF Registration!Deregister
  <2>3. refused' = FALSE
    BY <2>1, Zenon DEF Registration!Deregister
  <2> QED BY <2>2, <2>3 DEF GuardsInv, Registration!Paired
<1> QED BY <1>1, <1>2

\* The invariant is inductive as it stands.
LEMMA GuardsInvariance == Registration!Spec => []GuardsInv
<1>1. Registration!Init => GuardsInv
  <2> SUFFICES ASSUME Registration!Init PROVE GuardsInv
    OBVIOUS
  <2>1. Registration!TypeOK
    BY DEF Registration!Init, Registration!TypeOK, Registration!NoReg
  <2>2. live = {handle[g] : g \in valid}
    BY DEF Registration!Init
  <2>3. \A g, h \in valid : handle[g] = handle[h] => g = h
    BY DEF Registration!Init
  <2> QED BY <2>1, <2>2, <2>3 DEF Registration!Init, GuardsInv, Registration!Paired
<1>2. GuardsInv /\ [Registration!Next]_(Registration!vars) => GuardsInv'
  <2> SUFFICES ASSUME GuardsInv, [Registration!Next]_(Registration!vars) PROVE GuardsInv'
    OBVIOUS
  <2>1. ASSUME NEW g \in Guard, Registration!Construct(g) PROVE GuardsInv'
    <3> USE <2>1
    <3>1. made' = made + 1 /\ made' \notin live /\ g \notin valid
      BY DEF Registration!Construct, GuardsInv, Registration!TypeOK
    <3>2. /\ alive' \subseteq Guard /\ bound' \subseteq alive' /\ valid' \subseteq bound'
          /\ handle' \in [Guard -> Nat] /\ made' \in Nat /\ refused' = refused
      BY <3>1 DEF Registration!Construct, GuardsInv, Registration!TypeOK
    <3>3. live' \subseteq 1..made'
      BY <3>1 DEF Registration!Construct, GuardsInv, Registration!TypeOK
    <3>4. \A x \in valid : handle'[x] = handle[x] /\ handle[x] \in live
      BY <3>1 DEF Registration!Construct, GuardsInv, Registration!TypeOK, Registration!Paired
    <3>5. handle'[g] = made' /\ valid' = valid \cup {g} /\ live' = live \cup {made'}
      BY DEF Registration!Construct, GuardsInv, Registration!TypeOK
    <3>6. live' = {handle'[x] : x \in valid'}
      BY <3>4, <3>5 DEF GuardsInv, Registration!Paired
    <3>7. \A x, y \in valid' : handle'[x] = handle'[y] => x = y
      BY <3>1, <3>4, <3>5 DEF GuardsInv, Registration!Paired
    <3> QED BY <3>2, <3>3, <3>6, <3>7 DEF GuardsInv, Registration!TypeOK, Registration!Paired
  <2>2. ASSUME NEW g \in Guard, Registration!ConstructFails(g) PROVE GuardsInv'
    BY <2>2 DEF Registration!ConstructFails, GuardsInv, Registration!TypeOK, Registration!Paired, Registration!NoReg
  <2>3. ASSUME NEW g \in Guard, Registration!Destroy(g) PROVE GuardsInv'
    <3>1. live' = {handle[x] : x \in valid \ {g}} /\ refused' = FALSE
      BY <2>3, DeregisterPairs DEF Registration!Destroy
    <3>2. live' \subseteq live
      BY <3>1 DEF GuardsInv, Registration!Paired
    <3>3. Registration!TypeOK'
      BY <2>3, <3>1, <3>2 DEF Registration!Destroy, GuardsInv, Registration!TypeOK
    <3>4. valid' = valid \ {g} /\ handle' = handle
      BY <2>3 DEF Registration!Destroy
    <3>5. live' = {handle'[x] : x \in valid'}
      BY <3>1, <3>4
    <3> QED BY <3>1, <3>3, <3>4, <3>5 DEF GuardsInv, Registration!Paired
  <2>4. ASSUME NEW g \in Guard, NEW h \in Guard, Registration!MoveConstruct(g, h) PROVE GuardsInv'
    <3>1. live' = {handle[x] : x \in valid \ {g}} /\ refused' = FALSE
      BY <2>4 DEF Registration!MoveConstruct, GuardsInv, Registration!TypeOK, Registration!Paired
    <3> QED BY <2>4, <3>1, MovePairs DEF Registration!MoveConstruct
  <2>5. ASSUME NEW g \in Guard, NEW h \in Guard, Registration!MoveAssign(g, h) PROVE GuardsInv'
    <3>1. live' = {handle[x] : x \in valid \ {g}} /\ refused' = FALSE
      BY <2>5, DeregisterPairs DEF Registration!MoveAssign
    <3> QED BY <2>5, <3>1, MovePairs DEF Registration!MoveAssign
  <2>6. CASE UNCHANGED Registration!vars
    BY <2>6 DEF Registration!vars, GuardsInv, Registration!TypeOK, Registration!Paired
  <2> QED BY <2>1, <2>2, <2>3, <2>4, <2>5, <2>6 DEF Registration!Next
<1> QED BY <1>1, <1>2, PTL DEF Registration!Spec

\* Guards and registrations stay paired (requirement 7.3), for any number of
\* guard objects and registrations: ScopedRegistration leaks no registration
\* and releases none twice.
THEOREM RegistrationsPaired == Registration!Spec => []Registration!Paired
<1>1. GuardsInv => Registration!Paired
  BY DEF GuardsInv
<1> QED BY <1>1, GuardsInvariance, PTL
=============================================================================
