--------------------------- MODULE HostLifecycle ---------------------------
(***************************************************************************)
(* The session host (class _SamsungHost) between the threads that share    *)
(* it: NVDA's main thread, which refreshes the helper after an             *)
(* installation and replaces one driver by the next, and the worker of     *)
(* each driver, which may outlive its driver's terminate().  Starting and  *)
(* stopping, one step in SpeechSystem, is done here step by step, and so   *)
(* is what the threads do meanwhile with the process, the stream and the   *)
(* queue they read without the lifecycle lock.                             *)
(*                                                                         *)
(* A job is one text; its audio is left out, and DONE, CANCELLED and ERROR *)
(* are one answer.  A write does not block, and the reader passes a message*)
(* on at once.  Every start has a number, which names the queue made for it*)
(* and the process; a number nobody holds on to is used again.             *)
(***************************************************************************)
EXTENDS Naturals, Sequences, FiniteSetsExt

CONSTANTS
  Drivers,      \* bound: drivers made one after the other
  MaxJobs,      \* bound: texts spoken
  MaxImages,    \* bound: boot images built
  MaxMishaps    \* bound: helpers that hang, die or do not start

ASSUME HostAssumption ==
  Drivers \in Nat \ {0} /\ MaxJobs \in Nat /\ MaxImages \in Nat /\ MaxMishaps \in Nat

Main == 0
Workers == 1 .. Drivers
Threads == {Main} \cup Workers
None == 0                 \* no process, no stream, no driver
Free == Drivers + 1       \* nobody holds the lifecycle lock

VARIABLES
  process, stream, messages,   \* self._process, _stream, _messages: numbers of starts
  lifecycleLock,               \* who holds it
  starts,                      \* the queue, the helper and its reader of each start
  threads,                     \* what each thread is doing
  generation,                  \* self._generation
  current,                     \* each driver's current generation, None: terminated
  jobs,                        \* each driver's queue of jobs
  driver,                      \* NVDA's present driver
  image, refreshed,            \* boot images built, the last a refresh was to load
  posted,                      \* a refresh is due (wx.CallAfter)
  spoken, mishaps              \* counted for the bounds

hostVars == <<process, stream, messages, lifecycleLock, starts>>
driverVars == <<generation, current, jobs, driver, spoken>>
imageVars == <<image, refreshed, posted>>
vars == <<hostVars, threads, driverVars, imageVars, mishaps>>

-----------------------------------------------------------------------------
(* Helpers, queues and messages. *)

Message(type, gen, from) == [type |-> type, gen |-> gen, from |-> from]

\* What belongs to one start: the queue; the helper, its boot image and what
\* was written to it; the reader and the queue it was given.
NewStart == [state |-> "none", image |-> 0, inbox |-> <<>>, to |-> 0, reading |-> FALSE,
             queue |-> <<>>]

Alive(n) == starts[n].state \in {"boot", "ready", "hung"}
\* isRunning.
Running == process # None /\ Alive(process)

\* _reader: while the process is the host's, what it says goes into the queue
\* the reader was given.
Read(n) == starts[n].reading /\ process = n
Tell(s, n, m) == [s EXCEPT ![s[n].to].queue = Append(@, m)]

\* The helper becomes ready, answers a text, or stops doing either.
HelperBoots(n) ==
  /\ starts[n].state = "boot" /\ Read(n)
  /\ starts' = Tell([starts EXCEPT ![n].state = "ready"], n, Message("ready", 0, n))
  /\ UNCHANGED <<process, stream, messages, lifecycleLock, threads, driverVars, imageVars, mishaps>>

HelperAnswers(n) ==
  /\ starts[n].state = "ready" /\ starts[n].inbox # <<>> /\ Read(n)
  /\ starts' = Tell([starts EXCEPT ![n].inbox = Tail(@)], n,
                    Message("answer", Head(starts[n].inbox), n))
  /\ UNCHANGED <<process, stream, messages, lifecycleLock, threads, driverVars, imageVars, mishaps>>

HelperFails(n) ==
  /\ Alive(n) /\ mishaps < MaxMishaps /\ mishaps' = mishaps + 1
  /\ \E state \in {"hung", "dead"} : starts' = [starts EXCEPT ![n].state = state]
  /\ UNCHANGED <<process, stream, messages, lifecycleLock, threads, driverVars, imageVars>>

\* The end of the stream is a message, too.
ReadEnd(n) ==
  /\ starts[n].state = "dead" /\ Read(n)
  /\ starts' = Tell([starts EXCEPT ![n].reading = FALSE], n, Message("eof", 0, n))
  /\ UNCHANGED <<process, stream, messages, lifecycleLock, threads, driverVars, imageVars, mishaps>>

\* Something is still to come into queue q.
Expecting(q) ==
  \E n \in DOMAIN starts :
    /\ starts[n].to = q /\ Read(n)
    /\ \/ starts[n].state \in {"boot", "dead"}
       \/ starts[n].state = "ready" /\ starts[n].inbox # <<>>

\* get(timeout) on queue q finds nothing in time: there is nothing to come.
GetTimesOut(q) == starts[q].queue = <<>> /\ ~Expecting(q)

-----------------------------------------------------------------------------
(* Threads.  then is where start() returns to, tries its attempts so far;  *)
(* doomed is the process _stopUnlocked ends, after what follows it.  gen,  *)
(* target and from belong to the text awaited: its generation, the stream  *)
(* it was written to, the queue getMessage reads.  from is also the queue  *)
(* a starter waits on, and gen of the main thread the boot image there was *)
(* when its refresh began.                                                 *)

NewThread == [pc |-> "none", then |-> "none", tries |-> 0, after |-> "none",
              doomed |-> 0, gen |-> 0, target |-> 0, from |-> 0]
At(t, pc) == threads[t].pc = pc
Resting == {"idle", "loop", "exited"}
Rest(pc) == [NewThread EXCEPT !.pc = pc]
Go(t, pc) ==
  threads' = [threads EXCEPT ![t] = IF pc \in Resting THEN Rest(pc) ELSE [@ EXCEPT !.pc = pc]]

\* Where a thread ends up when what it called has failed or is done.
Home(t) == IF t = Main THEN "refreshed" ELSE "loop"

\* start(): nothing to do when the helper runs.
CallStart(t, then) ==
  [threads EXCEPT ![t] = IF ~Running THEN [@ EXCEPT !.pc = "enter", !.then = then, !.tries = 0]
                         ELSE IF then \in Resting THEN Rest(then) ELSE [@ EXCEPT !.pc = then]]

\* Nothing of a process is read any more when the host has given it up.
Ended(s) == [NewStart EXCEPT !.state = "dead", !.queue = s.queue]

\* The starts that cannot be forgotten: a thread goes on using what it has read
\* of them, or the helper lives.
Held ==
  {threads[d].from : d \in Workers} \cup {threads[d].target : d \in Workers}
    \cup {n \in DOMAIN starts : Alive(n)}
FreshStart == Min((1 .. Len(starts) + 1) \ (Held \cup {messages}))
Begin(n, s) ==
  [k \in 1 .. Max({n, Len(starts)}) |->
     IF k = n THEN s ELSE IF k \in Held THEN starts[k] ELSE Ended(NewStart)]

\* _startOnce, with the lock: looked at again; what is left of a dead process
\* is forgotten; a new queue; QEMU is started with the boot image there is.
EnterStart(t) ==
  /\ At(t, "enter") /\ lifecycleLock = Free
  /\ IF Running THEN Go(t, threads[t].then) /\ UNCHANGED hostVars
     ELSE /\ lifecycleLock' = t
          /\ process' = FreshStart /\ stream' = None /\ messages' = FreshStart
          /\ starts' = Begin(FreshStart, [NewStart EXCEPT !.state = "boot", !.image = image])
          /\ threads' = [threads EXCEPT ![t].pc = "connect", ![t].tries = @ + 1]
  /\ UNCHANGED <<driverVars, imageVars, mishaps>>

\* The connection; a reader of its own for this process, stream and queue.
Connect(t) ==
  /\ At(t, "connect")
  /\ IF Alive(process)
     THEN /\ stream' = process
          /\ starts' = [starts EXCEPT ![process].to = messages, ![process].reading = TRUE]
          /\ threads' = [threads EXCEPT ![t].pc = "ready", ![t].from = messages]
     ELSE /\ UNCHANGED <<stream, starts>>
          /\ threads' = [threads EXCEPT ![t].pc = "clear", ![t].after = "retry"]
  /\ UNCHANGED <<process, messages, lifecycleLock, driverVars, imageVars, mishaps>>

\* QEMU does not open the channel within five seconds.
ConnectFails(t) ==
  /\ At(t, "connect") /\ mishaps < MaxMishaps /\ mishaps' = mishaps + 1
  /\ threads' = [threads EXCEPT ![t].pc = "clear", ![t].after = "retry"]
  /\ UNCHANGED <<hostVars, driverVars, imageVars>>

\* Mutant of Abandon: a start that failed keeps the lock.
AbandonLocked(t) == threads' = [threads EXCEPT ![t].pc = "enter"] /\ UNCHANGED lifecycleLock

\* A start that failed is tried once more.
Abandon(t) ==
  /\ lifecycleLock' = Free
  /\ Go(t, IF threads[t].tries < 2 THEN "enter" ELSE Home(t))

\* The first message must be READY.  It is taken from the queue as any other
\* waiting thread would take it.
AwaitReady(t) ==
  LET q == starts[threads[t].from].queue
  IN  /\ At(t, "ready") /\ q # <<>>
      /\ starts' = [starts EXCEPT ![threads[t].from].queue = Tail(q)]
      /\ IF Head(q).type = "ready"
         THEN lifecycleLock' = Free /\ Go(t, threads[t].then)
         ELSE /\ threads' = [threads EXCEPT ![t].pc = "clear", ![t].after = "retry"]
              /\ UNCHANGED lifecycleLock
      /\ UNCHANGED <<process, stream, messages, driverVars, imageVars, mishaps>>

ReadyTimesOut(t) ==
  /\ At(t, "ready") /\ GetTimesOut(threads[t].from)
  /\ threads' = [threads EXCEPT ![t].pc = "clear", ![t].after = "retry"]
  /\ UNCHANGED <<hostVars, driverVars, imageVars, mishaps>>

\* Mutant of EnterStop: nothing is stopped while another thread has the lock.
EnterStopUnlessBusy(t) ==
  /\ At(t, "stop")
  /\ IF lifecycleLock = Free
     THEN /\ lifecycleLock' = t
          /\ threads' = [threads EXCEPT ![t].pc = "clear", ![t].after = "restart"]
     ELSE threads' = CallStart(t, Home(t)) /\ UNCHANGED lifecycleLock
  /\ UNCHANGED <<process, stream, messages, starts, driverVars, imageVars, mishaps>>

\* stop(): the lock, then _stopUnlocked.
EnterStop(t) ==
  /\ At(t, "stop") /\ lifecycleLock = Free
  /\ lifecycleLock' = t
  /\ threads' = [threads EXCEPT ![t].pc = "clear", ![t].after = "restart"]
  /\ UNCHANGED <<process, stream, messages, starts, driverVars, imageVars, mishaps>>

\* _stopUnlocked: the fields are cleared first, then the process is asked to
\* end, waited for, and ended.
Clear(t) ==
  /\ At(t, "clear")
  /\ process' = None /\ stream' = None
  /\ threads' = [threads EXCEPT ![t].pc = "kill", ![t].doomed = process]
  /\ UNCHANGED <<messages, lifecycleLock, starts, driverVars, imageVars, mishaps>>

\* Mutant of EndProcess: a process that does not end of itself is left alone.
EndProcessGently(n) ==
  IF n # None /\ starts[n].state # "hung" THEN starts' = [starts EXCEPT ![n] = Ended(@)]
  ELSE UNCHANGED starts

EndProcess(n) ==
  IF n # None THEN starts' = [starts EXCEPT ![n] = Ended(@)] ELSE UNCHANGED starts

Kill(t) ==
  /\ At(t, "kill")
  /\ EndProcess(threads[t].doomed)
  /\ IF threads[t].after = "retry" THEN Abandon(t)
     ELSE lifecycleLock' = Free /\ threads' = CallStart(t, Home(t))
  /\ UNCHANGED <<process, stream, messages, driverVars, imageVars, mishaps>>

HostStep(t) ==
  \/ EnterStart(t) \/ Connect(t) \/ AwaitReady(t) \/ ReadyTimesOut(t) \/ EnterStop(t) \/ Clear(t) \/ Kill(t)

-----------------------------------------------------------------------------
(* The worker of a driver. *)

Stopping(d) == current[d] = None

\* _worker: the next job, unless it is of an older generation.
TakeJob(d) ==
  /\ At(d, "loop")
  /\ IF Stopping(d) THEN Go(d, "exited") /\ UNCHANGED jobs
     ELSE /\ jobs[d] # <<>>
          /\ jobs' = [jobs EXCEPT ![d] = Tail(@)]
          /\ threads' = IF Head(jobs[d]) # current[d] THEN threads
                        ELSE [CallStart(d, "send") EXCEPT ![d].gen = current[d]]
  /\ UNCHANGED <<hostVars, generation, current, driver, spoken, imageVars, mishaps>>

\* send() reads process and stream without a lock; the job fails when there is
\* none.
Send(d) ==
  /\ At(d, "send")
  /\ threads' = IF Running /\ stream # None
                THEN [threads EXCEPT ![d].pc = "write", ![d].target = stream]
                ELSE [threads EXCEPT ![d] = Rest("loop")]
  /\ UNCHANGED <<hostVars, driverVars, imageVars, mishaps>>

\* getMessage reads the queue there is at that moment.
Write(d) ==
  /\ At(d, "write")
  /\ IF Alive(threads[d].target)
     THEN /\ starts' = [starts EXCEPT ![threads[d].target].inbox = Append(@, threads[d].gen)]
          /\ threads' = [threads EXCEPT ![d].pc = "get", ![d].from = messages]
     ELSE Go(d, "loop") /\ UNCHANGED starts
  /\ UNCHANGED <<process, stream, messages, lifecycleLock, driverVars, imageVars, mishaps>>

\* Mutant of After: the generation is not looked at.
AfterAny(d, m) ==
  IF m.type = "eof" THEN "stop" ELSE IF m.type = "answer" THEN "loop" ELSE "get"

\* The end of the stream restarts the helper; the answer to the text ends it;
\* any other message is dropped, whoever waits for it.
After(d, m) ==
  IF m.type = "eof" THEN "stop"
  ELSE IF m.type = "answer" /\ m.gen = threads[d].gen THEN "loop" ELSE "get"
Get(d) ==
  LET q == starts[threads[d].from].queue
      pc == After(d, Head(q))
  IN  /\ At(d, "get") /\ q # <<>>
      /\ starts' = [starts EXCEPT ![threads[d].from].queue = Tail(q)]
      /\ threads' = [threads EXCEPT ![d] =
                       IF pc = "get" THEN [@ EXCEPT !.from = messages] ELSE Rest(pc)]
      /\ UNCHANGED <<process, stream, messages, lifecycleLock, driverVars, imageVars, mishaps>>

\* _restartHost; the job is over.
GiveUp(d) == threads' = [threads EXCEPT ![d] = Rest("stop")]

\* Nothing came: again, or a restart, one second after a cancellation or
\* when nothing more can come for thirty.
GetsNothing(d) ==
  /\ At(d, "get") /\ starts[threads[d].from].queue = <<>>
  /\ \/ threads[d].from # messages /\ threads' = [threads EXCEPT ![d].from = messages]
     \/ threads[d].gen # current[d] /\ GiveUp(d)
     \/ threads[d].from = messages /\ GetTimesOut(messages) /\ GiveUp(d)
  /\ UNCHANGED <<hostVars, driverVars, imageVars, mishaps>>

\* The answer is on its way, but takes more than thirty seconds.
AnswerLate(d) ==
  /\ At(d, "get") /\ starts[threads[d].from].queue = <<>>
  /\ mishaps < MaxMishaps /\ mishaps' = mishaps + 1
  /\ GiveUp(d)
  /\ UNCHANGED <<hostVars, driverVars, imageVars>>

WorkerStep(d) ==
  HostStep(d) \/ TakeJob(d) \/ Send(d) \/ Write(d) \/ Get(d) \/ GetsNothing(d)

-----------------------------------------------------------------------------
(* NVDA's main thread, and the thread that installs firmware. *)

Speak ==
  /\ At(Main, "idle") /\ ~Stopping(driver) /\ spoken < MaxJobs
  /\ jobs' = [jobs EXCEPT ![driver] = Append(@, current[driver])]
  /\ spoken' = spoken + 1
  /\ UNCHANGED <<hostVars, threads, generation, current, driver, imageVars, mishaps>>

\* An installation builds a boot image and posts _refreshActiveSynth.
BuildImage ==
  /\ image < MaxImages
  /\ image' = image + 1 /\ posted' = TRUE
  /\ UNCHANGED <<hostVars, threads, driverVars, refreshed, mishaps>>

\* refreshFirmwareRuntime: cancel(), then stop() and start().  The helper
\* answers a text whether CANCEL reaches it or not, so CANCEL is left out.
Refresh ==
  /\ At(Main, "idle") /\ posted
  /\ posted' = FALSE
  /\ generation' = generation + 1
  /\ current' = [current EXCEPT ![driver] = generation + 1]
  /\ jobs' = [jobs EXCEPT ![driver] = <<>>]
  /\ threads' = [threads EXCEPT ![Main].pc = "stop", ![Main].gen = image]
  /\ UNCHANGED <<hostVars, driver, spoken, image, refreshed, mishaps>>

\* It returns, or its error is logged.
RefreshReturns ==
  /\ At(Main, "refreshed")
  /\ refreshed' = threads[Main].gen
  /\ Go(Main, "idle")
  /\ UNCHANGED <<hostVars, driverVars, image, posted, mishaps>>

\* terminate(): the worker is told, and waited for three seconds.
Terminate ==
  /\ At(Main, "idle") /\ driver < Drivers
  /\ generation' = generation + 1
  /\ current' = [current EXCEPT ![driver] = None]
  /\ jobs' = [jobs EXCEPT ![driver] = <<>>]
  /\ Go(Main, "join")
  /\ UNCHANGED <<hostVars, driver, spoken, imageVars, mishaps>>

\* The next driver takes the session host over, with the worker of the last
\* gone or not.
NextDriver ==
  /\ At(Main, "join")
  /\ driver' = driver + 1
  /\ generation' = generation + 1
  /\ current' = [current EXCEPT ![driver + 1] = generation + 1]
  /\ threads' = [CallStart(driver + 1, "loop") EXCEPT ![Main] = Rest("idle")]
  /\ UNCHANGED <<hostVars, jobs, spoken, imageVars, mishaps>>

MainStep == HostStep(Main) \/ RefreshReturns \/ NextDriver

-----------------------------------------------------------------------------
Init ==
  /\ process = None /\ stream = None /\ messages = 1 /\ lifecycleLock = Free
  /\ starts = <<NewStart>>
  /\ threads = [t \in Threads |->
       IF t = Main THEN Rest("idle")
       ELSE IF t = 1 THEN [NewThread EXCEPT !.pc = "enter", !.then = "loop"]
       ELSE NewThread]
  /\ generation = 1 /\ driver = 1 /\ spoken = 0
  /\ current = [d \in Workers |-> IF d = 1 THEN 1 ELSE None]
  /\ jobs = [d \in Workers |-> <<>>]
  /\ image = 0 /\ refreshed = 0 /\ posted = FALSE /\ mishaps = 0

HelperStep(n) == HelperBoots(n) \/ HelperAnswers(n) \/ ReadEnd(n)

Next ==
  \/ MainStep \/ Speak \/ BuildImage \/ Refresh \/ Terminate
  \/ \E d \in Workers : WorkerStep(d)
  \/ \E t \in Threads : ConnectFails(t)
  \/ \E d \in Workers : AnswerLate(d)
  \/ \E n \in DOMAIN starts : HelperStep(n) \/ HelperFails(n)

Spec == Init /\ [][Next]_vars

\* Some thread, helper or reader that can go on does; the user, the timers
\* and the mishaps need not.
RunsOn ==
  MainStep \/ (\E d \in Workers : WorkerStep(d)) \/ (\E n \in DOMAIN starts : HelperStep(n))
Fairness == WF_vars(RunsOn)
FairSpec == Spec /\ Fairness

-----------------------------------------------------------------------------
(* Properties. *)

\* "Own one warm ARM guest" (class _SamsungHost): however starts, retries and
\* restarts of three threads interleave, never do two helpers run.
OneHelper ==
  \A m, n \in DOMAIN starts : Alive(m) /\ Alive(n) => m = n

\* A text counts as answered only by the helper it was written to, although
\* generations are not new for each text, and process, stream and queue are
\* read one by one while another thread replaces all three
\* (samsungTVVoices.py:326-346, 672-691).
OwnAnswers ==
  [][\A d \in Workers :
       At(d, "get") /\ threads'[d].pc = "loop" =>
         LET taken == Head(starts[threads[d].from].queue)
         IN  taken.gen = threads[d].gen /\ taken.from = threads[d].target]_vars

\* When a refresh has returned, no helper is left that was booted from an
\* image older than the one it was called for, even though start() returns at
\* once when it finds a helper running that another thread has started
\* (samsungTVVoices.py:509-513, 324-326).
RefreshTakesEffect ==
  \A n \in DOMAIN starts : Alive(n) => starts[n].image >= refreshed

\* Every call comes to its end, with nobody waiting for anybody in the end:
\* NVDA's main thread is given back after a refresh or terminate(), and a
\* worker comes back from every text, also when READY or an answer was taken
\* from the queue by another thread.
Busy(t) == threads[t].pc \notin Resting \cup {"none"}
CallsEnd == (\E t \in Threads : Busy(t)) ~> (\A t \in Threads : ~Busy(t))
=============================================================================
