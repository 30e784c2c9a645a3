---------------------------- MODULE SpeechDriver -----------------------------
(***************************************************************************)
(* The synthesizer driver (addon/synthDrivers/samsungTVVoices.py): the     *)
(* main thread of NVDA that calls speak, cancel, pause and terminate, the  *)
(* worker that renders utterances through the host, and the reader thread  *)
(* that moves frames from the channel to the host's bounded queue.         *)
(* A text is <<generation, utterance, position>>.  The wave player and the *)
(* notifications are NVDA's: what reaches them is the sequence "out".      *)
(***************************************************************************)
EXTENDS SpeechChannel

CONSTANTS
  Utterance,    \* speech sequences passed to speak
  EventsOf,     \* the events speak makes of each: texts and indexes
  None,         \* Python's None: no job, no generation
  Modulus,      \* generations are counted modulo this (2^32 in the code)
  MaxGen,       \* bound: the generations the main thread may reach
  Spare,        \* bound: how many of them only terminate() may reach
  QueueCap      \* size of the host's message queue (64 in the code)

ASSUME DriverAssumption ==
  /\ EventsOf \in [Utterance -> Seq({"text", "index"})]
  /\ \A u \in Utterance : EventsOf[u] # <<>>
  /\ Modulus \in Nat /\ MaxGen \in 1..(Modulus - 1)
  /\ Spare \in 0..1
  /\ QueueCap \in Nat \ {0}
\* Every event may be a text under every generation; None is nothing else.
ASSUME TextAssumption ==
  /\ \A t \in Text : t[2] \in Utterance /\ t[3] \in Nat /\ t = <<GenOf[t], t[2], t[3]>>
  /\ \A g \in 1..MaxGen, u \in Utterance : \A i \in 1..Len(EventsOf[u]) : <<g, u, i>> \in Text
ASSUME NoneAssumption ==
  /\ None \notin Nat \cup Utterance
  /\ None \notin [gen : Nat, utt : Utterance]
  /\ None \notin [kind : {"audio", "index", "done"}, utt : Utterance, pos : Nat, chunk : Nat]

VARIABLES
  userPc,            \* where the main thread is
  userActive,        \* the generation cancel() has read as active
  currentGeneration, \* generation of the speech that is still wanted
  jobs,              \* the queue of the worker
  stopping,          \* terminate() has been called
  driverPc,          \* where the worker is
  driverActive,      \* _activeGeneration
  current,           \* the job being rendered
  pos,               \* the event of it being rendered
  hand,              \* what the worker is about to pass to NVDA
  messages,          \* the host's queue of messages
  running,           \* the helper process is alive
  paused,            \* the player is paused
  buffered,          \* the utterance whose audio the player still holds
  out,               \* history: what NVDA has received
  spokenAs           \* history: the generation of each utterance, 0 if unsaid

userVars   == <<userPc, userActive, stopping>>
renderVars == <<driverPc, driverActive, current, pos, hand>>
playerVars == <<paused, buffered, out>>
driverVars == <<userVars, currentGeneration, jobs, renderVars, messages,
                running, playerVars, spokenAs>>

Job(g, u) == [gen |-> g, utt |-> u]
AudioItem(t, k) == [kind |-> "audio", utt |-> t[2], pos |-> t[3], chunk |-> k]
IndexItem(u, i) == [kind |-> "index", utt |-> u, pos |-> i, chunk |-> 0]
DoneItem(u) == [kind |-> "done", utt |-> u, pos |-> 0, chunk |-> 0]

Event == EventsOf[current.utt]
CurrentText == <<current.gen, current.utt, pos>>

\* nextGeneration: 0 is left out, because the guest takes it for "idle".
NextGeneration(g) == IF (g + 1) % Modulus = 0 THEN 1 ELSE (g + 1) % Modulus

IsCurrent(g) == ~stopping /\ g = currentGeneration

DriverInit ==
  /\ userPc = "idle" /\ userActive = None /\ stopping = FALSE
  /\ currentGeneration = NextGeneration(0)
  /\ jobs = <<>>
  /\ driverPc = "coldstart" /\ driverActive = None /\ current = None
  /\ pos = 1 /\ hand = None
  /\ messages = <<>> /\ running = FALSE
  /\ paused = FALSE /\ buffered = None /\ out = <<>>
  /\ spokenAs = [u \in Utterance |-> 0]

UserPc == {"idle", "read", "send", "drain", "hush", "sentinel", "join", "closed"}
DriverPc == {"coldstart", "loop", "get", "check", "enter", "event", "notify",
             "boot", "send", "await", "feed", "settle", "idle", "finish", "announce",
             "restart", "reboot", "leave", "exited"}

\* The worker is rendering "current", and has not given it up.
Rendering == {"check", "enter", "event", "notify", "boot", "send", "await",
              "feed", "settle", "idle", "finish", "announce"}
\* The worker has passed its last test and is about to pass on "hand".
Handing == {"notify", "feed", "announce"}

DriverTypeOK ==
  /\ userPc \in UserPc /\ userActive \in (1..MaxGen) \cup {None}
  /\ stopping \in BOOLEAN /\ currentGeneration \in 1..MaxGen
  /\ \A i \in 1..Len(jobs) :
       jobs[i] # None => jobs[i].gen \in 1..MaxGen /\ jobs[i].utt \in Utterance
  /\ driverPc \in DriverPc /\ driverActive \in (1..MaxGen) \cup {None}
  /\ driverPc \in Rendering => current # None /\ pos \in 1..(Len(Event) + 1)
  /\ driverPc \in Handing => hand # None
  /\ messages \in Seq(ToHostMessage) /\ Len(messages) <= QueueCap
  /\ running \in BOOLEAN /\ paused \in BOOLEAN
  /\ buffered \in Utterance \cup {None}
  /\ spokenAs \in [Utterance -> 0..MaxGen]

------------------------------------------------------------------------------
(* The main thread. *)

UserGoto(from, to) == userPc = from /\ userPc' = to

\* speak: the generation is read under the lock, then the job is queued.
SpeakUtterance(u) ==
  /\ userPc = "idle" /\ ~stopping
  /\ spokenAs[u] = 0
  /\ jobs' = Append(jobs, Job(currentGeneration, u))
  /\ spokenAs' = [spokenAs EXCEPT ![u] = currentGeneration]
  /\ UNCHANGED <<channelVars, userVars, currentGeneration, renderVars,
                 messages, running, playerVars>>

\* cancel, first part, under the lock.
BeginCancel ==
  /\ IF stopping THEN UserGoto("read", "send")
     ELSE UserGoto("idle", "send") /\ currentGeneration < MaxGen - Spare
  /\ userActive' = driverActive
  /\ currentGeneration' = NextGeneration(currentGeneration)
  /\ UNCHANGED <<channelVars, stopping, jobs, renderVars, messages, running,
                 playerVars, spokenAs>>

\* Mutant of SendCancel: the generation just begun is cancelled.
SendCancelNew ==
  /\ UserGoto("send", "drain")
  /\ IF userActive = None \/ ~running
     THEN UNCHANGED toGuest
     ELSE SendToGuest(Cancel(currentGeneration))
  /\ UNCHANGED <<toHost, userActive, stopping, currentGeneration, jobs,
                 renderVars, messages, running, playerVars, spokenAs>>

\* _SamsungHost.cancel: nothing is sent when nothing was active or the helper
\* is not alive.
SendCancel ==
  /\ UserGoto("send", "drain")
  /\ IF userActive = None \/ ~running
     THEN UNCHANGED toGuest
     ELSE SendToGuest(Cancel(userActive))
  /\ UNCHANGED <<toHost, userActive, stopping, currentGeneration, jobs,
                 renderVars, messages, running, playerVars, spokenAs>>

\* The queued jobs are taken out one by one.
DrainJobs ==
  /\ userPc = "drain"
  /\ IF jobs # <<>> THEN jobs' = Tail(jobs) /\ UNCHANGED userPc
                    ELSE userPc' = "hush" /\ UNCHANGED jobs
  /\ UNCHANGED <<channelVars, userActive, stopping, currentGeneration,
                 renderVars, messages, running, playerVars, spokenAs>>

\* WavePlayer.stop drops what is buffered and ends a pause.
StopPlayer ==
  /\ UserGoto("hush", IF stopping THEN "sentinel" ELSE "idle")
  /\ buffered' = None /\ paused' = FALSE
  /\ UNCHANGED <<channelVars, userActive, stopping, currentGeneration, jobs,
                 renderVars, messages, running, out, spokenAs>>

Pause ==
  /\ userPc = "idle" /\ ~stopping
  /\ paused' = ~paused
  /\ UNCHANGED <<channelVars, userVars, currentGeneration, jobs, renderVars,
                 messages, running, buffered, out, spokenAs>>

\* terminate: set the event, cancel, queue the sentinel, wait for the worker
\* (at most three seconds), close the player.
Terminate ==
  /\ UserGoto("idle", "read")
  /\ currentGeneration < MaxGen
  /\ stopping' = TRUE
  /\ UNCHANGED <<channelVars, userActive, currentGeneration, jobs, renderVars,
                 messages, running, playerVars, spokenAs>>

\* Mutant of PutSentinel: the worker is not told.
PutNoSentinel ==
  /\ UserGoto("sentinel", "join")
  /\ UNCHANGED jobs
  /\ UNCHANGED <<channelVars, userActive, stopping, currentGeneration,
                 renderVars, messages, running, playerVars, spokenAs>>

PutSentinel ==
  /\ UserGoto("sentinel", "join")
  /\ jobs' = Append(jobs, None)
  /\ UNCHANGED <<channelVars, userActive, stopping, currentGeneration,
                 renderVars, messages, running, playerVars, spokenAs>>

JoinDriver ==
  /\ UserGoto("join", "closed")
  /\ driverPc = "exited"
  /\ UNCHANGED <<channelVars, userActive, stopping, currentGeneration, jobs,
                 renderVars, messages, running, playerVars, spokenAs>>

JoinTimesOut ==
  /\ UserGoto("join", "closed")
  /\ driverPc # "exited"
  /\ UNCHANGED <<channelVars, userActive, stopping, currentGeneration, jobs,
                 renderVars, messages, running, playerVars, spokenAs>>

\* What the main thread may ask for, and what it then does by itself.
UserCall == (\E u \in Utterance : SpeakUtterance(u)) \/ Pause
UserEnds == Terminate \/ (~stopping /\ BeginCancel)
UserStep == (stopping /\ BeginCancel) \/ SendCancel \/ DrainJobs \/ StopPlayer
            \/ PutSentinel \/ JoinDriver

------------------------------------------------------------------------------
(* The reader thread. *)

\* Mutant of ReadFrame: a queue with no limit.
ReadFrameUnbounded ==
  /\ toHost # <<>>
  /\ messages' = Append(messages, Head(toHost))
  /\ toHost' = Tail(toHost)
  /\ UNCHANGED <<toGuest, userVars, currentGeneration, jobs, renderVars,
                 running, playerVars, spokenAs>>

ReadFrame ==
  /\ toHost # <<>> /\ Len(messages) < QueueCap
  /\ messages' = Append(messages, Head(toHost))
  /\ toHost' = Tail(toHost)
  /\ UNCHANGED <<toGuest, userVars, currentGeneration, jobs, renderVars,
                 running, playerVars, spokenAs>>

------------------------------------------------------------------------------
(* The worker.  A test of _isCurrent and what is done after it are two      *)
(* steps: the lock is released between them.                                *)

DriverGoto(from, to) == driverPc = from /\ driverPc' = to
IfCurrent(pc) == IF IsCurrent(current.gen) THEN pc ELSE "leave"

\* The variables a step of the worker in its own state leaves alone.
Rest == <<userVars, currentGeneration, running, spokenAs>>

TestStopping ==
  /\ DriverGoto("loop", IF stopping THEN "exited" ELSE "get")
  /\ UNCHANGED <<channelVars, Rest, jobs, driverActive, current, pos, hand,
                 messages, playerVars>>

\* The worker sleeps in get() until there is a job; None is the sentinel.
NextJob ==
  /\ jobs # <<>>
  /\ DriverGoto("get", IF Head(jobs) = None THEN "exited" ELSE "check")
  /\ jobs' = Tail(jobs)
  /\ current' = Head(jobs) /\ pos' = 1
  /\ UNCHANGED <<channelVars, Rest, driverActive, hand, messages, playerVars>>

CheckJob ==
  /\ DriverGoto("check", IfCurrent("enter"))
  /\ UNCHANGED <<channelVars, Rest, jobs, driverActive, current, pos, hand,
                 messages, playerVars>>

\* _render: the generation is compared and made active under one lock.
EnterRender ==
  /\ driverPc = "enter"
  /\ IF current.gen = currentGeneration
     THEN driverPc' = "event" /\ driverActive' = current.gen
     ELSE driverPc' = "leave" /\ UNCHANGED driverActive
  /\ UNCHANGED <<channelVars, Rest, jobs, current, pos, hand, messages,
                 playerVars>>

NextEvent ==
  /\ driverPc = "event"
  /\ IF pos > Len(Event)
     THEN driverPc' = "finish" /\ UNCHANGED hand
     ELSE IF Event[pos] = "text"
     THEN driverPc' = IfCurrent("boot") /\ UNCHANGED hand
     ELSE driverPc' = IfCurrent("notify") /\ hand' = IndexItem(current.utt, pos)
  /\ UNCHANGED <<channelVars, Rest, jobs, driverActive, current, pos, messages,
                 playerVars>>

NotifyIndex ==
  /\ DriverGoto("notify", "event")
  /\ out' = Append(out, hand) /\ hand' = None
  /\ pos' = pos + 1
  /\ UNCHANGED <<channelVars, Rest, jobs, driverActive, current, messages,
                 paused, buffered>>

\* The helper is already alive (otherwise SpeechSystem starts it).
AlreadyRunning ==
  /\ DriverGoto("boot", "send")
  /\ running
  /\ UNCHANGED <<channelVars, Rest, jobs, driverActive, current, pos, hand,
                 messages, playerVars>>

\* send raises when the helper has died since.
SendSpeak ==
  /\ driverPc = "send"
  /\ IF running
     THEN SendToGuest(Speak(CurrentText)) /\ driverPc' = "await"
     ELSE UNCHANGED toGuest /\ driverPc' = "leave"
  /\ UNCHANGED <<toHost, Rest, jobs, driverActive, current, pos, hand,
                 messages, playerVars>>

\* Mutant of AwaitMessage: answers to earlier requests are taken.
AwaitAnyGeneration ==
  /\ driverPc = "await" /\ messages # <<>>
  /\ messages' = Tail(messages)
  /\ LET m == Head(messages)
         feeds == m.type = "audio" /\ IsCurrent(current.gen)
     IN /\ driverPc' = IF m.type = "eof" THEN "restart"
                       ELSE IF m.gen = 0 THEN "await"
                       ELSE CASE m.type = "audio" -> IF feeds THEN "feed"
                                                              ELSE "await"
                              [] m.type = "done" -> "settle"
                              [] m.type \in {"cancelled", "error"} -> "leave"
        /\ hand' = IF m.gen # 0 /\ feeds
                   THEN AudioItem(m.text, m.chunk) ELSE hand
  /\ UNCHANGED <<channelVars, Rest, jobs, driverActive, current, pos,
                 playerVars>>

\* One message of the wait loop of _synthesizeText.
AwaitMessage ==
  /\ driverPc = "await" /\ messages # <<>>
  /\ messages' = Tail(messages)
  /\ LET m == Head(messages)
         feeds == m.type = "audio" /\ IsCurrent(current.gen)
     IN /\ driverPc' = IF m.type = "eof" THEN "restart"
                       ELSE IF m.gen # current.gen THEN "await"
                       ELSE CASE m.type = "audio" -> IF feeds THEN "feed"
                                                              ELSE "await"
                              [] m.type = "done" -> "settle"
                              [] m.type \in {"cancelled", "error"} -> "leave"
        /\ hand' = IF m.gen = current.gen /\ feeds
                   THEN AudioItem(m.text, m.chunk) ELSE hand
  /\ UNCHANGED <<channelVars, Rest, jobs, driverActive, current, pos,
                 playerVars>>

\* The player blocks while it is paused and fails once it is closed.
FeedPlayer ==
  /\ driverPc = "feed" /\ hand' = None
  /\ IF userPc = "closed"
     THEN driverPc' = "leave" /\ UNCHANGED <<out, buffered>>
     ELSE /\ ~paused
          /\ driverPc' = "await"
          /\ out' = Append(out, hand) /\ buffered' = hand.utt
  /\ UNCHANGED <<channelVars, Rest, jobs, driverActive, current, pos, messages,
                 paused>>

Settle ==
  /\ DriverGoto("settle", IfCurrent("idle"))
  /\ UNCHANGED <<channelVars, Rest, jobs, driverActive, current, pos, hand,
                 messages, playerVars>>

\* Mutant of IdlePlayer: what was fed is not waited for.
IdlePlayerNot ==
  /\ driverPc = "idle"
  /\ IF userPc = "closed"
     THEN driverPc' = "leave" /\ UNCHANGED <<pos, buffered>>
     ELSE /\ ~paused
          /\ driverPc' = "event" /\ pos' = pos + 1 /\ UNCHANGED buffered
  /\ UNCHANGED <<channelVars, Rest, jobs, driverActive, current, hand, messages,
                 paused, out>>

\* WavePlayer.idle returns when everything fed has been played.
IdlePlayer ==
  /\ driverPc = "idle"
  /\ IF userPc = "closed"
     THEN driverPc' = "leave" /\ UNCHANGED <<pos, buffered>>
     ELSE /\ ~paused
          /\ driverPc' = "event" /\ pos' = pos + 1 /\ buffered' = None
  /\ UNCHANGED <<channelVars, Rest, jobs, driverActive, current, hand, messages,
                 paused, out>>

Finish ==
  /\ DriverGoto("finish", IfCurrent("announce"))
  /\ hand' = IF IsCurrent(current.gen) THEN DoneItem(current.utt) ELSE hand
  /\ UNCHANGED <<channelVars, Rest, jobs, driverActive, current, pos, messages,
                 playerVars>>

AnnounceDone ==
  /\ DriverGoto("announce", "leave")
  /\ out' = Append(out, hand) /\ hand' = None
  /\ UNCHANGED <<channelVars, Rest, jobs, driverActive, current, pos, messages,
                 paused, buffered>>

\* The finally clause of _render, and back to the queue.
LeaveRender ==
  /\ DriverGoto("leave", "loop")
  /\ driverActive' = IF driverActive = current.gen THEN None ELSE driverActive
  /\ current' = None
  /\ UNCHANGED <<channelVars, Rest, jobs, pos, hand, messages, playerVars>>

\* The queue has stayed empty: one second after a cancellation, or thirty
\* seconds in speech that is still wanted.  Both restart the helper and give
\* the text up.
AwaitTimesOut ==
  /\ DriverGoto("await", "restart")
  /\ messages = <<>>
  /\ UNCHANGED <<channelVars, Rest, jobs, driverActive, current, pos, hand,
                 messages, playerVars>>

DriverStep ==
  \/ TestStopping \/ NextJob \/ CheckJob \/ EnterRender \/ NextEvent
  \/ NotifyIndex \/ AlreadyRunning \/ SendSpeak \/ AwaitMessage \/ FeedPlayer
  \/ Settle \/ IdlePlayer \/ Finish \/ AnnounceDone \/ LeaveRender
==============================================================================
