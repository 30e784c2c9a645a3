---------------------------- MODULE SpeechSystem -----------------------------
(***************************************************************************)
(* The driver, the channel and the guest helper together, with the events  *)
(* that touch both sides: the helper is started, stopped, restarted by the *)
(* worker, or dies.                                                        *)
(***************************************************************************)
EXTENDS SpeechGuest, SpeechDriver, SequencesExt

CONSTANTS
  MaxMishaps   \* bound: synthesis errors, timeouts, deaths, failed starts

ASSUME MishapAssumption == MaxMishaps \in Nat

VARIABLES
  latest,      \* history: the generation of the last frame this helper got
  mishaps      \* history: how many mishaps there have been

vars == <<channelVars, guestVars, driverVars, latest, mishaps>>

Init == ChannelInit /\ GuestInit /\ DriverInit /\ latest = 0 /\ mishaps = 0

\* Bound: a mishap takes the place of a cancellation.
Room == currentGeneration + (IF userPc = "read" THEN 1 ELSE 0) + mishaps < MaxGen

Mishap == mishaps < MaxMishaps /\ Room /\ mishaps' = mishaps + 1

------------------------------------------------------------------------------
(* The helper process. *)

\* A process that is not alive is modelled as a helper at its initial state
\* that takes no step.
FreshHelper ==
  /\ toGuest' = <<>> /\ toHost' = <<>> /\ messages' = <<>>
  /\ mainPc' = "read" /\ target' = 0 /\ ending' = 0
  /\ pendingJob' = NoText
  /\ shuttingDown' = FALSE /\ cancelling' = FALSE /\ activeGeneration' = 0
  /\ workerPc' = "check" /\ job' = NoText
  /\ synth' = NoVoice /\ currentLanguage' = NoVoice /\ currentModel' = NoVoice
  /\ offset' = 0 /\ succeeded' = TRUE
  /\ latest' = 0

\* host.start(): a new process, a new channel, a new queue, READY received.
StartHelper ==
  /\ \/ DriverGoto("coldstart", "loop")
     \/ DriverGoto("boot", "send") /\ ~running
     \/ DriverGoto("reboot", "leave")
  /\ running' = TRUE
  /\ FreshHelper
  /\ UNCHANGED <<userVars, currentGeneration, jobs, driverActive, current, pos,
                 hand, playerVars, spokenAs, mishaps>>

\* Both attempts of start() fail: the error ends the rendering of the job.
StartFails ==
  /\ Mishap
  /\ \/ DriverGoto("coldstart", "loop")
     \/ DriverGoto("boot", "leave") /\ ~running
     \/ DriverGoto("reboot", "leave")
  /\ UNCHANGED <<channelVars, guestVars, userVars, currentGeneration, jobs,
                 driverActive, current, pos, hand, messages, running,
                 playerVars, spokenAs, latest>>

\* host.stop(), the first half of _restartHost.
StopHelper ==
  /\ DriverGoto("restart", "reboot")
  /\ running' = FALSE
  /\ FreshHelper
  /\ UNCHANGED <<userVars, currentGeneration, jobs, driverActive, current, pos,
                 hand, playerVars, spokenAs, mishaps>>

\* The helper dies: what it has written can still be read, then the end of
\* the stream.
HelperDies ==
  /\ Mishap
  /\ running /\ running' = FALSE
  /\ toGuest' = <<>> /\ toHost' = Append(toHost, Eof)
  /\ UNCHANGED <<guestVars, userVars, currentGeneration, jobs, renderVars,
                 messages, playerVars, spokenAs, latest>>

------------------------------------------------------------------------------
(* The composition. *)

GuestMove(A) == running /\ A /\ UNCHANGED <<driverVars, latest>>

Wrote == Len(toGuest') > Len(toGuest)
Written == toGuest'[Len(toGuest')]

DriverMove(A) ==
  /\ A
  /\ latest' = IF Wrote THEN Written.gen ELSE latest
  /\ UNCHANGED guestVars

Well(A) == A /\ UNCHANGED mishaps

Next ==
  \/ Well(GuestMove(MainStep)) \/ Well(GuestMove(WorkerStep))
  \/ Well(DriverMove(UserCall)) \/ (Room /\ Well(DriverMove(UserEnds)))
  \/ Well(DriverMove(UserStep))
  \/ Well(DriverMove(ReadFrame)) \/ Well(DriverMove(DriverStep))
  \/ (Mishap /\ GuestMove(WorkerMishap))
  \/ (Mishap /\ DriverMove(AwaitTimesOut \/ JoinTimesOut))
  \/ StartHelper \/ StartFails \/ StopHelper \/ HelperDies

Spec == Init /\ [][Next]_vars

\* Threads run on; calls, mishaps and the end of a pause need never happen.
Fairness ==
  /\ WF_vars(Well(GuestMove(MainStep))) /\ WF_vars(Well(GuestMove(WorkerStep)))
  /\ WF_vars(Well(DriverMove(UserStep))) /\ WF_vars(Well(DriverMove(ReadFrame)))
  /\ WF_vars(Well(DriverMove(DriverStep)) \/ StartHelper \/ StopHelper)

FairSpec == Spec /\ Fairness

------------------------------------------------------------------------------
(* The promise to NVDA. *)

EventItems(u, i) ==
  IF EventsOf[u][i] = "index" THEN <<IndexItem(u, i)>>
  ELSE [k \in 1..Chunks |-> AudioItem(<<0, u, i>>, k)]

Items(u) ==
  FlattenSeq([i \in 1..Len(EventsOf[u]) |-> EventItems(u, i)])
    \o <<DoneItem(u)>>

\* The utterances that are still wanted: the one being rendered, then those
\* queued under the current generation, which are the last of the queue.
Wants(j) == j # None /\ IsCurrent(j.gen)
Unwanted ==
  CHOOSE n \in 0..Len(jobs) :
    \A i \in 1..Len(jobs) : Wants(jobs[i]) <=> i > n
Wanted ==
  (IF driverPc \in Rendering /\ IsCurrent(current.gen) THEN <<current.utt>> ELSE <<>>)
    \o [i \in 1..(Len(jobs) - Unwanted) |-> jobs[Unwanted + i].utt]

InHand == IF driverPc \in Handing /\ ~IsCurrent(current.gen) THEN {hand} ELSE {}

Promise ==
  INSTANCE Announcer WITH
    ItemsOf <- [u \in Utterance |-> Items(u)],
    mayFail <- mishaps > 0,
    waiting <- Wanted, late <- InHand

\* The driver, over threads, channel and helper, implements Announcer: NVDA
\* receives every index, sample and completion of every utterance in order
\* and once, nothing of a cancelled one but the item already in hand, and
\* loses none unless a mishap happens (samsungTVVoices.py:592-606, 647-715).
Announces == Promise!Spec

------------------------------------------------------------------------------
(* Properties. *)

TypeOK ==
  /\ ChannelTypeOK /\ GuestTypeOK /\ DriverTypeOK
  /\ latest \in 0..MaxGen /\ mishaps \in 0..MaxMishaps

\* The flag that silences the engine is never up against the utterance that
\* is wanted: a cancellation decided under one lock, sent after it and
\* carried out in three steps by another machine hits no later speech
\* (samsungTVVoices.py:593-596, samsung_guest.cpp:241-244).
CancelsOnlyUnwanted ==
  workerPc \in Engaged /\ cancelling /\ running /\ ~shuttingDown
    => ~IsCurrent(GenOf[job])

\* While the driver waits for the answer to a text that is still wanted, the
\* text is on its way to the helper, in the one job slot, being spoken, or its
\* answer is on the way back: the slot that any later request overwrites and
\* the answers of earlier requests never cost it
\* (samsungTVVoices.py:659-683, samsung_guest.cpp:284).
Elements(s) == {s[i] : i \in 1..Len(s)}
AwaitedNotLost ==
  driverPc = "await" /\ IsCurrent(current.gen) /\ running =>
    \/ Speak(CurrentText) \in Elements(toGuest)
    \/ CurrentText \in {pendingJob, job}
    \/ \E m \in Elements(toHost) \cup Elements(messages) :
         m.type \in {"done", "error"} /\ m.text = CurrentText

\* The frames a helper gets are in the order of their generations, which is
\* what GuestService asks of its host (samsungTVVoices.py:588-596, 659).
KeepsDiscipline == [][Wrote => Written.gen >= latest]_vars

\* When an index or the end of an utterance is announced, the player holds no
\* audio of that utterance any more: what was spoken before the index has
\* been heard (samsungTVVoices.py:703-711).
AnnouncedWhenHeard ==
  [][ Len(out') > Len(out) /\ out'[Len(out')].kind # "audio"
        => buffered # out'[Len(out')].utt ]_vars

\* Speech that is wanted is announced as done in the end, unless it is
\* cancelled or the player is paused: no frame, answer or wake-up is lost on
\* the way there and back.
Done(u) == \E i \in 1..Len(out) : out[i] = DoneItem(u)
Rendered ==
  \A u \in Utterance :
    spokenAs[u] > 0 ~> (Done(u) \/ ~IsCurrent(spokenAs[u]) \/ paused)

\* cancel() and terminate() return, whatever the worker, the helper and the
\* channel are doing, and after terminate() the worker ends, be it starting,
\* rendering, waiting or asleep (samsungTVVoices.py:592-606, 614-634).
CallsReturn ==
  /\ userPc # "idle" ~> userPc \in {"idle", "closed"}
  /\ stopping ~> driverPc = "exited"
==============================================================================
