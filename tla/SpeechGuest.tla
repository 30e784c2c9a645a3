----------------------------- MODULE SpeechGuest -----------------------------
(***************************************************************************)
(* The helper inside the ARM guest (guest/samsung_guest.cpp): a main       *)
(* thread that reads the channel and a worker that synthesizes.  They      *)
(* share one job slot under jobMutex and three atomics; a step is what a   *)
(* thread does between two accesses the other one can see.                 *)
(***************************************************************************)
EXTENDS SpeechChannel

CONSTANTS
  Language, Model,       \* what the options of a request choose
  LanguageOf, ModelOf,   \* the choice for each text
  NoVoice                \* no language, no model, no synthesizer (-1, null)

ASSUME VoiceAssumption ==
  /\ LanguageOf \in [Text -> Language] /\ ModelOf \in [Text -> Model]
  /\ NoVoice \notin Language \cup Model \cup (Language \X Model)

\* The voice asked for with a text.
VoiceOf(t) == <<LanguageOf[t], ModelOf[t]>>

VARIABLES
  mainPc,            \* where the main thread is
  target,            \* the argument of cancelActive
  ending,            \* passes of the shutdown sequence left; 0 while serving
  pendingJob,        \* the job slot; NoText when hasPendingJob is false
  shuttingDown, cancelling, activeGeneration,   \* the three atomics
  workerPc,          \* where the worker is
  job,               \* the worker's copy of the job
  synth,             \* the voice its synthesizer is initialized for, if any
  currentLanguage, currentModel,    \* what it remembers of that voice
  offset,            \* pieces of the job's text already passed to the engine
  succeeded          \* the engine has accepted every piece so far

mainVars   == <<mainPc, target, ending>>
engine     == <<synth, currentLanguage, currentModel>>
workerVars == <<workerPc, job, engine, offset, succeeded>>
sharedVars == <<pendingJob, shuttingDown, cancelling, activeGeneration>>
guestVars  == <<mainVars, workerVars, sharedVars>>

MainPc == {"read", "notify", "compare", "raise", "report",
           "stop", "aim", "wake", "join", "exited"}
WorkerPc == {"check", "wait", "parking", "parked", "clear", "activate",
             "select", "loop", "callback", "emit", "verdict", "reply",
             "retire", "exited"}

\* The states of the worker between the activation of a job and its end.
Engaged == {"select", "loop", "callback", "emit", "verdict", "reply", "retire"}
\* The states in which the engine is, or is about to be, producing samples.
Speaking == {"loop", "callback", "emit"}

GuestInit ==
  /\ mainPc = "read" /\ target = 0 /\ ending = 0
  /\ pendingJob = NoText
  /\ shuttingDown = FALSE /\ cancelling = FALSE /\ activeGeneration = 0
  /\ workerPc = "check" /\ job = NoText
  /\ synth = NoVoice /\ currentLanguage = NoVoice /\ currentModel = NoVoice
  /\ offset = 0 /\ succeeded = TRUE

EngineOK ==
  /\ synth \in (Language \X Model) \cup {NoVoice}
  /\ currentLanguage \in Language \cup {NoVoice}
  /\ currentModel \in Model \cup {NoVoice}

GuestTypeOK ==
  /\ mainPc \in MainPc /\ target \in Nat /\ ending \in 0..2
  /\ mainPc \in {"stop", "aim", "wake"} => ending > 0
  /\ pendingJob \in Maybe(Text)
  /\ shuttingDown \in BOOLEAN /\ cancelling \in BOOLEAN
  /\ activeGeneration \in Nat
  /\ workerPc \in WorkerPc /\ job \in Maybe(Text)
  /\ workerPc \in Engaged \cup {"clear", "activate"} => job \in Text
  /\ EngineOK
  /\ offset \in 0..Chunks /\ succeeded \in BOOLEAN
  /\ workerPc \in {"callback", "emit"} => offset < Chunks

------------------------------------------------------------------------------
(* The main thread. *)

\* The next frame, when the main thread is ready for one of this type.
Receive(type) ==
  /\ mainPc = "read"
  /\ toGuest # <<>> /\ Head(toGuest).type = type
  /\ toGuest' = Tail(toGuest)

\* Mutant of ReadSpeak: the generation is published on arrival.
ReadSpeakActivates ==
  /\ Receive("speak") /\ Head(toGuest).text # NoText
  /\ workerPc # "parking"
  /\ pendingJob' = Head(toGuest).text
  /\ activeGeneration' = Head(toGuest).gen
  /\ mainPc' = "notify"
  /\ UNCHANGED <<toHost, target, ending, shuttingDown, cancelling,
                 workerVars>>

\* Mutant of ReadSpeak: the slot is written without jobMutex.
ReadSpeakUnlocked ==
  /\ Receive("speak") /\ Head(toGuest).text # NoText
  /\ pendingJob' = Head(toGuest).text
  /\ mainPc' = "notify"
  /\ UNCHANGED <<toHost, target, ending, shuttingDown, cancelling,
                 activeGeneration, workerVars>>

\* Mutant of ReadSpeak: a request that finds the worker busy is
\* dropped.
ReadSpeakWhenIdle ==
  /\ Receive("speak") /\ Head(toGuest).text # NoText
  /\ workerPc # "parking"
  /\ pendingJob' = IF job = NoText THEN Head(toGuest).text ELSE pendingJob
  /\ mainPc' = "notify"
  /\ UNCHANGED <<toHost, target, ending, shuttingDown, cancelling,
                 activeGeneration, workerVars>>

\* SPEAK: the job slot is overwritten under jobMutex, which the worker holds
\* while it is on its way to sleep.
ReadSpeak ==
  /\ Receive("speak") /\ Head(toGuest).text # NoText
  /\ workerPc # "parking"
  /\ pendingJob' = Head(toGuest).text
  /\ mainPc' = "notify"
  /\ UNCHANGED <<toHost, target, ending, shuttingDown, cancelling,
                 activeGeneration, workerVars>>

\* SPEAK with no text after its options is answered with an error.
ReadEmpty ==
  /\ Receive("speak") /\ Head(toGuest).text = NoText
  /\ SendToHost(Frame("error", Head(toGuest).gen, NoText, 0))
  /\ UNCHANGED guestVars

ReadCancel ==
  /\ Receive("cancel")
  /\ target' = Head(toGuest).gen
  /\ mainPc' = "compare"
  /\ UNCHANGED <<toHost, ending, sharedVars, workerVars>>

\* QUIT runs the shutdown sequence in its branch and again after the loop.
ReadQuit ==
  /\ Receive("quit")
  /\ mainPc' = "stop" /\ ending' = 2
  /\ UNCHANGED <<toHost, target, sharedVars, workerVars>>

\* Mutant of ReadBad: the loop goes on after a failed read.
ReadBadIgnored ==
  /\ Receive("bad")
  /\ UNCHANGED <<mainPc, ending>>
  /\ UNCHANGED <<toHost, target, sharedVars, workerVars>>

ReadBad ==
  /\ Receive("bad")
  /\ mainPc' = "stop" /\ ending' = 1
  /\ UNCHANGED <<toHost, target, sharedVars, workerVars>>

\* notify_one and notify_all: a wake-up reaches a worker that sleeps, and
\* is lost on one that does not.
Woken == IF workerPc = "parked" THEN "wait" ELSE workerPc

NotifyOne ==
  /\ mainPc = "notify"
  /\ workerPc' = Woken
  /\ mainPc' = "read"
  /\ UNCHANGED <<channelVars, target, ending, job, engine, offset, succeeded,
                 sharedVars>>

\* Where cancelActive returns to.
Return == IF ending = 0 THEN "read" ELSE "wake"

\* Mutant of CompareActive: any active job is cancelled.
CompareAny ==
  /\ mainPc = "compare"
  /\ mainPc' = IF activeGeneration # 0 THEN "raise" ELSE Return
  /\ UNCHANGED <<channelVars, target, ending, sharedVars, workerVars>>

\* cancelActive: load and compare, store, send - three separate steps.
CompareActive ==
  /\ mainPc = "compare"
  /\ mainPc' = IF activeGeneration = target THEN "raise" ELSE Return
  /\ UNCHANGED <<channelVars, target, ending, sharedVars, workerVars>>

RaiseCancelling ==
  /\ mainPc = "raise"
  /\ cancelling' = TRUE
  /\ mainPc' = "report"
  /\ UNCHANGED <<channelVars, target, ending, pendingJob, shuttingDown,
                 activeGeneration, workerVars>>

ReportCancelled ==
  /\ mainPc = "report"
  /\ SendToHost(Frame("cancelled", target, NoText, 0))
  /\ mainPc' = Return
  /\ UNCHANGED <<toGuest, target, ending, sharedVars, workerVars>>

\* The shutdown sequence: store shuttingDown, cancelActive(activeGeneration),
\* notify_all.  None of it is done under jobMutex.
StoreShuttingDown ==
  /\ mainPc = "stop"
  /\ shuttingDown' = TRUE
  /\ mainPc' = "aim"
  /\ UNCHANGED <<channelVars, target, ending, pendingJob, cancelling,
                 activeGeneration, workerVars>>

AimAtActive ==
  /\ mainPc = "aim"
  /\ target' = activeGeneration
  /\ mainPc' = "compare"
  /\ UNCHANGED <<channelVars, ending, sharedVars, workerVars>>

NotifyAll ==
  /\ mainPc = "wake"
  /\ workerPc' = Woken
  /\ ending' = ending - 1
  /\ mainPc' = IF ending = 2 THEN "stop" ELSE "join"
  /\ UNCHANGED <<channelVars, target, job, engine, offset, succeeded,
                 sharedVars>>

JoinWorker ==
  /\ mainPc = "join" /\ workerPc = "exited"
  /\ mainPc' = "exited"
  /\ UNCHANGED <<channelVars, target, ending, sharedVars, workerVars>>

MainStep ==
  \/ ReadSpeak \/ ReadEmpty \/ ReadCancel \/ ReadQuit \/ ReadBad
  \/ NotifyOne \/ CompareActive \/ RaiseCancelling \/ ReportCancelled
  \/ StoreShuttingDown \/ AimAtActive \/ NotifyAll \/ JoinWorker

------------------------------------------------------------------------------
(* The synthesis worker. *)

\* A step of the worker from one state to another.
Goto(from, to) == workerPc = from /\ workerPc' = to

CheckShutdown ==
  /\ Goto("check", IF shuttingDown THEN "exited" ELSE "wait")
  /\ UNCHANGED <<channelVars, mainVars, sharedVars, job, engine, offset,
                 succeeded>>

\* The predicate of jobChanged.wait, evaluated under jobMutex.
WaitLeave ==
  /\ Goto("wait", "exited")
  /\ shuttingDown
  /\ UNCHANGED <<channelVars, mainVars, sharedVars, job, engine, offset,
                 succeeded>>

WaitTake ==
  /\ Goto("wait", "clear")
  /\ ~shuttingDown /\ pendingJob # NoText
  /\ job' = pendingJob /\ pendingJob' = NoText
  /\ UNCHANGED <<channelVars, mainVars, shuttingDown, cancelling,
                 activeGeneration, engine, offset, succeeded>>

WaitPark ==
  /\ Goto("wait", "parking")
  /\ ~shuttingDown /\ pendingJob = NoText
  /\ UNCHANGED <<channelVars, mainVars, sharedVars, job, engine, offset,
                 succeeded>>

\* The worker blocks and releases jobMutex.
Park ==
  /\ Goto("parking", "parked")
  /\ UNCHANGED <<channelVars, mainVars, sharedVars, job, engine, offset,
                 succeeded>>

\* A condition variable may wake up on its own.
SpuriousWakeup ==
  /\ Goto("parked", "wait")
  /\ UNCHANGED <<channelVars, mainVars, sharedVars, job, engine, offset,
                 succeeded>>

\* Mutant of ClearCancelling: the flag of the job before stays up.
ClearNothing ==
  /\ Goto("clear", "activate")
  /\ UNCHANGED cancelling
  /\ UNCHANGED <<channelVars, mainVars, pendingJob, shuttingDown,
                 activeGeneration, job, engine, offset, succeeded>>

ClearCancelling ==
  /\ Goto("clear", "activate")
  /\ cancelling' = FALSE
  /\ UNCHANGED <<channelVars, mainVars, pendingJob, shuttingDown,
                 activeGeneration, job, engine, offset, succeeded>>

Activate ==
  /\ Goto("activate", "select")
  /\ activeGeneration' = GenOf[job]
  /\ offset' = 0 /\ succeeded' = TRUE
  /\ UNCHANGED <<channelVars, mainVars, pendingJob, shuttingDown, cancelling,
                 job, engine>>

\* The synthesizer is made, and what is remembered is the voice asked for.
Initialize ==
  /\ synth' = VoiceOf(job)
  /\ currentLanguage' = LanguageOf[job] /\ currentModel' = ModelOf[job]

\* What is remembered is the voice asked for.
Kept ==
  /\ synth # NoVoice
  /\ currentLanguage = LanguageOf[job] /\ currentModel = ModelOf[job]

\* Mutant of SelectVoice: only the language is compared.
SelectLanguage ==
  /\ Goto("select", "loop")
  /\ IF synth # NoVoice /\ currentLanguage = LanguageOf[job]
     THEN UNCHANGED engine
     ELSE Initialize
  /\ UNCHANGED <<channelVars, mainVars, sharedVars, job, offset, succeeded>>

\* The synthesizer is used again when the language and the model remembered
\* are those of the job, else it is released and made again.
SelectVoice ==
  /\ Goto("select", "loop")
  /\ IF Kept THEN UNCHANGED engine ELSE Initialize
  /\ UNCHANGED <<channelVars, mainVars, sharedVars, job, offset, succeeded>>

\* initializeSynth fails: what is remembered is forgotten, and the error is
\* sent whether or not the job has been cancelled.
SelectFails ==
  /\ Goto("select", "reply")
  /\ ~Kept
  /\ synth' = NoVoice /\ currentLanguage' = NoVoice /\ currentModel' = NoVoice
  /\ succeeded' = FALSE
  /\ UNCHANGED <<channelVars, mainVars, sharedVars, job, offset>>

ChunkLoop ==
  /\ Goto("loop", IF offset < Chunks /\ ~cancelling THEN "callback"
                                                    ELSE "verdict")
  /\ UNCHANGED <<channelVars, mainVars, sharedVars, job, engine, offset,
                 succeeded>>

\* Mutant of Callback: the callback waits for the flag to go down.
CallbackHolds ==
  IF activeGeneration = 0 \/ cancelling
  THEN /\ ~cancelling /\ Goto("callback", "loop")
       /\ offset' = offset + 1
       /\ UNCHANGED <<channelVars, mainVars, sharedVars, job, engine, succeeded>>
  ELSE /\ Goto("callback", "emit")
       /\ UNCHANGED <<channelVars, mainVars, sharedVars, job, engine, offset,
                      succeeded>>

\* streamCallback: the samples are dropped when the job has been cancelled,
\* and the engine carries on with the piece.
Callback ==
  IF activeGeneration = 0 \/ cancelling
  THEN /\ Goto("callback", "loop")
       /\ offset' = offset + 1
       /\ UNCHANGED <<channelVars, mainVars, sharedVars, job, engine, succeeded>>
  ELSE /\ Goto("callback", "emit")
       /\ UNCHANGED <<channelVars, mainVars, sharedVars, job, engine, offset,
                      succeeded>>

EmitAudio ==
  /\ Goto("emit", "loop")
  /\ SendToHost(Frame("audio", activeGeneration, job, offset + 1))
  /\ offset' = offset + 1
  /\ UNCHANGED <<toGuest, mainVars, sharedVars, job, engine, succeeded>>

\* Mutant of EngineFails: the refused piece is skipped.
EngineFailsOn ==
  /\ Goto("callback", "loop")
  /\ succeeded' = FALSE /\ offset' = offset + 1
  /\ UNCHANGED <<channelVars, mainVars, sharedVars, job, engine>>

\* SMTStartStreamingPlayUtf8 refuses a piece.
EngineFails ==
  /\ Goto("callback", "verdict")
  /\ succeeded' = FALSE
  /\ UNCHANGED <<channelVars, mainVars, sharedVars, job, engine, offset>>

\* Mutant of Verdict: the flag is not looked at after the loop.
VerdictAlways ==
  /\ Goto("verdict", "reply")
  /\ UNCHANGED <<channelVars, mainVars, sharedVars, job, engine, offset,
                 succeeded>>

Verdict ==
  /\ Goto("verdict", IF cancelling THEN "retire" ELSE "reply")
  /\ UNCHANGED <<channelVars, mainVars, sharedVars, job, engine, offset,
                 succeeded>>

Reply ==
  /\ Goto("reply", "retire")
  /\ SendToHost(Frame(IF succeeded THEN "done" ELSE "error",
                      GenOf[job], job, 0))
  /\ UNCHANGED <<toGuest, mainVars, sharedVars, job, engine, offset, succeeded>>

Retire ==
  /\ Goto("retire", "check")
  /\ activeGeneration' = 0
  /\ job' = NoText
  /\ UNCHANGED <<channelVars, mainVars, pendingJob, shuttingDown, cancelling,
                 engine, offset, succeeded>>

\* What the worker does of its own accord, and what may befall it.
WorkerStep ==
  \/ CheckShutdown \/ WaitLeave \/ WaitTake \/ WaitPark \/ Park
  \/ ClearCancelling \/ Activate \/ SelectVoice \/ ChunkLoop \/ Callback
  \/ EmitAudio \/ Verdict \/ Reply \/ Retire
WorkerMishap == SelectFails \/ EngineFails

GuestNext == MainStep \/ WorkerStep \/ WorkerMishap \/ SpuriousWakeup
==============================================================================
