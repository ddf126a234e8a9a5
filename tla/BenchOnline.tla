------------------------------ MODULE BenchOnline ------------------------------
(***************************************************************************)
(* The online benchmark scripts/bench_online.py: sessions of several       *)
(* rounds and scanners, all tasks of one event loop, send completions to a *)
(* server under a semaphore and report when every one of them is through.  *)
(*                                                                         *)
(* A task runs from one await to the next without interruption, so each    *)
(* action is what a task does between two awaits.  A text is named after   *)
(* where it comes from; durations are left out, and the 600 seconds a      *)
(* request may take are a failure that can strike at any time.             *)
(***************************************************************************)
EXTENDS Integers, Sequences, FiniteSets, SequencesExt, FiniteSetsExt

CONSTANTS
  Arguments,   \* command lines: sessions, rounds, concurrency, scan_sessions
               \* and sharegpt, as records
  Data,        \* the conversations of the ShareGPT file: turns, whether they
               \* have prefix_chars characters, and non-blank turns
  MaxTokens    \* max_tokens, the most chunks of one completion

\* A semaphore of no permit would never let a request through.
ASSUME ArgumentsAssumption ==
  /\ \A a \in Arguments : /\ a.sessions \in Nat /\ a.rounds \in Nat
                          /\ a.concurrency \in Nat \ {0}
                          /\ a.scan_sessions \in Nat /\ a.sharegpt \in BOOLEAN
  /\ Data \in Seq([turns : Nat, long : BOOLEAN, asked : Nat])
  /\ MaxTokens \in Nat

VARIABLES
  args,      \* the command line of this run
  phase,     \* of the main coroutine: load, run (it awaits gather), unwind
             \* (gather has failed), closed (so is http), cancelling (asyncio.run
             \* waits for what it has cancelled), failed, reported
  at,        \* of each task: new, waiting (in acquire), posted, done, failed,
             \* cancelled
  round,     \* rounds each task has begun
  prompt,    \* the texts of its last prompt, of its opening before the first
  questions, \* session_questions: number of questions of each session
  sem,       \* the semaphore: _value, the tasks of _waiters in order, and how
             \* many of them, the first ones, have been woken
  drawn,     \* texts drawn from rng so far
  tokens,    \* chunks received for the request of each task
  streamed,  \* history: chunks received by each task in all
  results,   \* tokens of each completed session request
  report     \* what is printed at the end

vars == <<args, phase, at, round, prompt, questions, sem, drawn, tokens, streamed,
          results, report>>

Sessions == 1..args.sessions
Scanners == (args.sessions + 1)..(args.sessions + args.scan_sessions)
Tasks == Sessions \cup Scanners

\* Texts: the n-th drawn from rng, the r-th of scanner i from a generator of
\* its own, the document and the j-th human turn of conversation c.
Draw(n) == <<"rng", 0, n>>
Scan(i, r) == <<"srng", i, r>>
Document(c) == <<"document", c, 0>>
Turn(c, j) == <<"turn", c, j>>

\* The sum of the values of f, counted one by one.
Total(f) == Cardinality(UNION {{x} \X (1..f[x]) : x \in DOMAIN f})

NoReport == [requests |-> 0, gen_tokens |-> 0]

Init ==
  /\ args \in Arguments
  /\ phase = "load"
  /\ at = [i \in Tasks |-> "new"]
  /\ round = [i \in Tasks |-> 0]
  /\ prompt = [i \in Tasks |-> <<>>]
  /\ questions = [s \in Sessions |-> <<>>]
  /\ sem = [value |-> args.concurrency, waiters |-> <<>>, woken |-> 0]
  /\ drawn = 0
  /\ tokens = [i \in Tasks |-> 0]
  /\ streamed = [i \in Tasks |-> 0]
  /\ results = <<>>
  /\ report = NoReport

----------------------------------------------------------------------------
(* Sessions *)

\* Conversations _load_sharegpt keeps.
Usable == {c \in DOMAIN Data : Data[c].turns >= 4 /\ Data[c].long}

\* Each session gets a conversation, after a shuffle: its document to begin
\* with and its non-blank turns, at most 16, to ask.
LoadShareGpt ==
  /\ phase = "load" /\ args.sharegpt
  /\ Cardinality(Usable) >= args.sessions
  /\ \E deal \in {f \in [Sessions -> Usable] : IsInjective(f)} :
       /\ prompt' = [i \in Tasks |-> IF i \in Sessions THEN <<Document(deal[i])>> ELSE <<>>]
       /\ questions' = [s \in Sessions |->
            [j \in 1..Min({Data[deal[s]].asked, 16}) |-> Turn(deal[s], j)]]
  /\ phase' = "run"
  /\ UNCHANGED <<args, at, round, sem, drawn, tokens, streamed, results, report>>

\* The assertion that there are enough.
LoadFails ==
  /\ phase = "load" /\ args.sharegpt
  /\ Cardinality(Usable) < args.sessions
  /\ phase' = "failed"
  /\ UNCHANGED <<args, at, round, prompt, questions, sem, drawn, tokens, streamed,
                 results, report>>

\* Without data: one prefix for all and a text for each session.
MakeSessions ==
  /\ phase = "load" /\ ~args.sharegpt
  /\ prompt' = [i \in Tasks |-> IF i \in Sessions THEN <<Draw(1), Draw(1 + i)>> ELSE <<>>]
  /\ drawn' = 1 + args.sessions
  /\ phase' = "run"
  /\ UNCHANGED <<args, at, round, questions, sem, tokens, streamed, results, report>>

----------------------------------------------------------------------------
(* asyncio.Semaphore, as of Python 3.11, which the CI uses.  A waiter stays *)
(* in _waiters, and keeps newcomers out, from the time it is woken until it *)
(* runs; the loop runs the woken ones in the order they were woken.         *)

Locked(s) == s.value = 0 \/ s.waiters # <<>>

Acquire(s, i) ==
  IF Locked(s) THEN [s EXCEPT !.waiters = Append(@, i)]
               ELSE [s EXCEPT !.value = @ - 1]

\* _wake_up_next: a permit is set aside for the first waiter not yet woken.
WakeUpNext(s) ==
  IF s.woken < Len(s.waiters)
    THEN [s EXCEPT !.value = @ - 1, !.woken = @ + 1]
    ELSE s

Release(s) == WakeUpNext([s EXCEPT !.value = @ + 1])

\* The first waiter takes itself out of the queue.
Dequeued(s) == [s EXCEPT !.waiters = Tail(@), !.woken = @ - 1]

\* The rest of acquire: it has its permit and wakes the next if there is one
\* more.
Acquired(s) ==
  IF s.value > 0 THEN WakeUpNext(Dequeued(s)) ELSE Dequeued(s)

\* Runs next, of those in acquire.
FirstWoken(i) == sem.woken > 0 /\ i = Head(sem.waiters)

----------------------------------------------------------------------------
(* Tasks *)

\* Mutant: sessions arrive one by one, while others are being answered.
Started_Staggered == TRUE

\* Every task has had its first turn, in the order gather was given them,
\* before the loop looks at a socket.
Started == \A i \in Tasks : at[i] # "new"

NoQuestions(i) == i \in Sessions /\ args.sharegpt /\ questions[i] = <<>>

Drawing(i) == i \in Sessions /\ ~args.sharegpt

\* The text of round r of task i when n texts are drawn: a scanner's own, one
\* drawn from rng, or the questions of the conversation in turn.
Question(i, r, n) ==
  IF i \in Scanners THEN Scan(i, r)
  ELSE IF Drawing(i) THEN Draw(n + 1)
  ELSE questions[i][1 + ((r - 1) % Len(questions[i]))]

\* A round begins with history h, n texts drawn and the semaphore at s: the
\* question, and the request if there is a permit for it.
Ask(i, h, n, s) ==
  LET r == round[i] + 1
      text == Question(i, r, n)
  IN  /\ prompt' = [prompt EXCEPT ![i] = IF i \in Sessions THEN Append(h, text) ELSE <<text>>]
      /\ drawn' = IF Drawing(i) THEN n + 1 ELSE n
      /\ round' = [round EXCEPT ![i] = r]
      /\ sem' = Acquire(s, i)
      /\ at' = [at EXCEPT ![i] = IF Locked(s) THEN "waiting" ELSE "posted"]
      /\ tokens' = [tokens EXCEPT ![i] = 0]
      /\ UNCHANGED phase

\* Mutant: the main coroutine waits for tasks that complete.
Raise_Unnoticed(i, s) ==
  /\ at' = [at EXCEPT ![i] = "failed"]
  /\ sem' = s
  /\ UNCHANGED <<phase, round, prompt, drawn, tokens>>

\* The first exception of a task makes gather raise; the others run on.
Raise(i, s) ==
  /\ at' = [at EXCEPT ![i] = "failed"]
  /\ phase' = IF phase = "run" THEN "unwind" ELSE phase
  /\ sem' = s
  /\ UNCHANGED <<round, prompt, drawn, tokens>>

Complete(i, n, s) ==
  /\ at' = [at EXCEPT ![i] = "done"]
  /\ sem' = s
  /\ drawn' = n
  /\ UNCHANGED <<phase, round, prompt, tokens>>

NextRound(i, h, n, s) ==
  IF round[i] = args.rounds THEN Complete(i, n, s)
  ELSE IF NoQuestions(i) THEN Raise(i, s)    \* r % 0
  ELSE Ask(i, h, n, s)

Start(i) ==
  /\ phase \in {"run", "unwind"} /\ at[i] = "new"
  /\ \A j \in Tasks : j < i => at[j] # "new"
  /\ NextRound(i, prompt[i], drawn, sem)
  /\ UNCHANGED <<args, questions, streamed, results, report>>

Running == phase \in {"run", "unwind", "closed"}

\* A woken waiter goes on to its request; a closed http session refuses it.
Resume(i) ==
  /\ Running /\ at[i] = "waiting" /\ FirstWoken(i)
  /\ IF phase = "closed" THEN Raise(i, Release(Acquired(sem)))
     ELSE /\ at' = [at EXCEPT ![i] = "posted"]
          /\ sem' = Acquired(sem)
          /\ UNCHANGED <<phase, round, prompt, drawn, tokens>>
  /\ UNCHANGED <<args, questions, streamed, results, report>>

\* A line of the stream with a text in it.
Chunk(i) ==
  /\ phase \in {"run", "unwind"} /\ Started
  /\ at[i] = "posted" /\ tokens[i] < MaxTokens
  /\ tokens' = [tokens EXCEPT ![i] = @ + 1]
  /\ streamed' = [streamed EXCEPT ![i] = @ + 1]
  /\ UNCHANGED <<args, phase, at, round, prompt, questions, sem, drawn, results, report>>

\* Mutant: scanners are counted too.
Counted_All(i) == TRUE

Counted(i) == i \in Sessions

\* Mutant: the history goes on from the question's place.
Answer_DropsQuestion(i) ==
  LET n == IF i \in Sessions THEN drawn + 1 ELSE drawn
      h == IF i \in Sessions THEN Append(Front(prompt[i]), Draw(n)) ELSE prompt[i]
  IN  /\ phase \in {"run", "unwind"} /\ Started
      /\ at[i] = "posted"
      /\ results' = IF Counted(i) THEN Append(results, tokens[i]) ELSE results
      /\ NextRound(i, h, n, Release(sem))
      /\ UNCHANGED <<args, questions, streamed, report>>

\* [DONE] or the end of the stream: the permit is released, the result noted,
\* the history extended by a text in place of the answer, and the next round
\* begun, all before the task awaits anything again.
Answer(i) ==
  LET n == IF i \in Sessions THEN drawn + 1 ELSE drawn
      h == IF i \in Sessions THEN Append(prompt[i], Draw(n)) ELSE prompt[i]
  IN  /\ phase \in {"run", "unwind"} /\ Started
      /\ at[i] = "posted"
      /\ results' = IF Counted(i) THEN Append(results, tokens[i]) ELSE results
      /\ NextRound(i, h, n, Release(sem))
      /\ UNCHANGED <<args, questions, streamed, report>>

\* Mutant: a permit is kept when the request raises.
Fail_KeepsPermit(i) ==
  /\ Running /\ Started /\ at[i] = "posted"
  /\ Raise(i, sem)
  /\ UNCHANGED <<args, questions, streamed, results, report>>

\* An error status, an unreadable chunk, a lost connection, 600 seconds.
Fail(i) ==
  /\ Running /\ Started /\ at[i] = "posted"
  /\ Raise(i, Release(sem))
  /\ UNCHANGED <<args, questions, streamed, results, report>>

----------------------------------------------------------------------------
(* The main coroutine *)

\* The exception leaves the block of the client session.
Close ==
  /\ phase = "unwind" /\ Started
  /\ phase' = "closed"
  /\ UNCHANGED <<args, at, round, prompt, questions, sem, drawn, tokens, streamed,
                 results, report>>

\* asyncio.run cancels what is left.  The future of a waiter that was not
\* woken is cancelled with it, and a cancelled future counts for nothing in
\* _waiters.
Cancel ==
  /\ phase = "closed"
  /\ phase' = "cancelling"
  /\ sem' = [sem EXCEPT !.waiters = SubSeq(@, 1, sem.woken)]
  /\ UNCHANGED <<args, at, round, prompt, questions, drawn, tokens, streamed, results,
                 report>>

\* The semaphore when the cancellation has run through task i: __aexit__ of a
\* request releases; a waiter that was woken gives back what was set aside
\* for it; one that was not has nothing.
Unwound(i) ==
  IF at[i] = "posted" THEN Release(sem)
  ELSE IF FirstWoken(i) THEN Release(Dequeued(sem))
  ELSE sem

\* CancelledError is raised where the task waits.
Unwind(i) ==
  /\ phase = "cancelling" /\ at[i] \in {"waiting", "posted"}
  /\ i \in Range(sem.waiters) => FirstWoken(i)
  /\ at' = [at EXCEPT ![i] = "cancelled"]
  /\ sem' = Unwound(i)
  /\ UNCHANGED <<args, phase, round, prompt, questions, drawn, tokens, streamed, results,
                 report>>

\* The exception leaves asyncio.run when all the cancelled tasks have ended.
Quit ==
  /\ phase = "cancelling"
  /\ \A i \in Tasks : at[i] \notin {"waiting", "posted"}
  /\ phase' = "failed"
  /\ UNCHANGED <<args, at, round, prompt, questions, sem, drawn, tokens, streamed,
                 results, report>>

\* gather has returned.  No results have no median.
Report ==
  /\ phase = "run"
  /\ \A i \in Tasks : at[i] = "done"
  /\ IF results = <<>> THEN phase' = "failed" /\ UNCHANGED report
     ELSE /\ phase' = "reported"
          /\ report' = [requests |-> Len(results),
                        gen_tokens |-> Total(results)]
  /\ UNCHANGED <<args, at, round, prompt, questions, sem, drawn, tokens, streamed, results>>

Main == LoadShareGpt \/ LoadFails \/ MakeSessions \/ Close \/ Cancel \/ Quit \/ Report

Next ==
  \/ Main
  \/ \E i \in Tasks :
       Start(i) \/ Resume(i) \/ Chunk(i) \/ Answer(i) \/ Fail(i) \/ Unwind(i)

\* The event loop runs what is ready, and a request ends by its time-out if
\* by nothing else.
Fairness ==
  /\ WF_vars(Main)
  /\ \A i \in 1..Max({a.sessions + a.scan_sessions : a \in Arguments}) :
       /\ WF_vars(i \in Tasks /\ (Start(i) \/ Resume(i) \/ Unwind(i)))
       /\ WF_vars(i \in Tasks /\ (Answer(i) \/ Fail(i)))

Spec == Init /\ [][Next]_vars /\ Fairness

----------------------------------------------------------------------------
(* Properties *)

Posted == {i \in Tasks : at[i] = "posted"}

\* --concurrency is kept, and no permit is lost: on every way through and out
\* of a request each permit is free, set aside for a woken waiter, or with one
\* request; whoever waits is in the queue; a free permit is never overlooked,
\* for as long as a task waits some waiter that is already woken will see it;
\* and however the run ends, every permit is back.  (A task may well wait
\* although one is free: until the woken waiter has run.)
PermitsConserved ==
  /\ sem.value + sem.woken + Cardinality(Posted) = args.concurrency
  /\ Running => {i \in Tasks : at[i] = "waiting"} = Range(sem.waiters)
  /\ sem.value > 0 /\ sem.waiters # <<>> => sem.woken > 0
  /\ phase \in {"failed", "reported"} => sem.value = args.concurrency

Texts(i) == Range(prompt[i])

\* "round r reuses the prefix of round r-1", and nothing else is reused: a
\* session's prompt extends its last one by texts no other task has in its
\* prompt, and a scanner's prompt has no text of any prompt there is.  The
\* sessions draw from one generator in whatever order the answers come.
PrefixReuse ==
  [][phase # "load" =>
     \A i \in Tasks : prompt'[i] # prompt[i] =>
       LET others == UNION {Texts(j) : j \in Tasks \ {i}}
       IN  IF i \in Sessions
             THEN /\ IsStrictPrefix(prompt[i], prompt'[i])
                  /\ (Range(prompt'[i]) \ Texts(i)) \cap others = {}
             ELSE Range(prompt'[i]) \cap (others \cup Texts(i)) = {}]_vars

\* The first prompt of a session is the same in every run, whatever the
\* concurrency: its question is drawn when the task starts, before it waits
\* for a permit and before any answer arrives.  (Later prompts are not: they
\* depend on the order of the answers.)
FirstPromptsFixed ==
  ~args.sharegpt =>
    \A s \in Sessions : round[s] = 1 =>
      prompt[s] = <<Draw(1), Draw(1 + s), Draw(1 + args.sessions + s)>>

\* The report is about the whole load: it is printed only when every session
\* has completed all its rounds and the scanners are through, and counts
\* their requests and generated tokens once and no scanner's.
ReportComplete ==
  phase = "reported" =>
    /\ \A i \in Tasks : round[i] = args.rounds
    /\ report.requests = args.sessions * args.rounds
    /\ report.gen_tokens = Total([s \in Sessions |-> streamed[s]])

\* The benchmark ends, with a report or an exception.
Ends == <>(phase \in {"failed", "reported"})
================================================================================
