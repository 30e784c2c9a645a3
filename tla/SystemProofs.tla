---------------------------- MODULE SystemProofs -----------------------------
(***************************************************************************)
(* The driver, the channel and the helper together, for any utterances,    *)
(* events, bounds and number of mishaps: types, the order of what is       *)
(* written, the silence flag, the announcements and the request awaited.   *)
(*                                                                         *)
(* The helper's part is not proved again.  Its inductive invariant is that *)
(* of GuestProofs, taken with the generations below the current one as the *)
(* cancelled ones, while a helper is alive: it holds as long as the driver *)
(* writes in order and cancels only what it has given up, which is what is *)
(* proved of the driver here.                                              *)
(***************************************************************************)
EXTENDS SpeechSystem, TLAPS, SequenceTheorems

\* The histories of GuestService play no part: only its order and its guards.
G == INSTANCE GuestProofs WITH
       sent <- <<>>, cancelled <- 1 .. (currentGeneration - 1), open <- TRUE,
       heard <- [t \in Text |-> 0], verdict <- [t \in Text |-> "none"]

Busy == {"event", "notify", "boot", "send", "await", "feed", "settle", "idle",
         "finish", "announce", "restart", "reboot"}
AtEvent == {"notify", "boot", "send", "await", "feed", "settle", "idle"}
HasJob == {"check", "enter", "leave"} \cup Busy

JobRecord == [gen : 1..MaxGen, utt : Utterance]
AudioRecord == [kind : {"audio"}, utt : Utterance, pos : Nat, chunk : Nat]

\* What the worker holds is what its place in the code says.
DriverTyped ==
  /\ jobs \in Seq(JobRecord \cup {None})
  /\ driverPc \in HasJob => current \in JobRecord
  /\ driverPc \in AtEvent => pos <= Len(Event)
  /\ driverPc = "notify" => hand = IndexItem(current.utt, pos)
  /\ driverPc = "announce" => hand = DoneItem(current.utt)
  /\ driverPc = "feed" => hand \in AudioRecord

\* This driver never asks a helper to end: it terminates the process.
OnlyRequests ==
  \A i \in 1..Len(toGuest) :
    \/ toGuest[i].type = "cancel"
    \/ toGuest[i].type = "speak" /\ toGuest[i].text \in Text
NeverEnding ==
  /\ shuttingDown = FALSE /\ ending = 0
  /\ mainPc \in {"read", "notify", "compare", "raise", "report"}

OfText(s) == \A i \in 1..Len(s) : s[i].type = "audio" => s[i].text \in Text

\* No generation runs ahead of the current one, and none behind the last
\* frame is still active.
GenerationsSound ==
  /\ latest <= currentGeneration
  /\ \A i \in 1..Len(jobs) : jobs[i] # None => jobs[i].gen <= currentGeneration
  /\ driverPc \in HasJob => current.gen <= currentGeneration
  /\ driverActive # None =>
       /\ driverPc \in {"leave"} \cup Busy /\ driverActive = current.gen
       /\ latest <= driverActive
  /\ driverPc \in Busy => driverActive # None

\* Between the two halves of cancel() nothing of the new generation exists,
\* so the cancellation about to be sent is of an older one.
CancelsOlder ==
  /\ userPc = "read" => stopping /\ currentGeneration < MaxGen
  /\ userPc = "send" =>
       /\ \A i \in 1..Len(jobs) :
            jobs[i] # None => jobs[i].gen < currentGeneration
       /\ driverPc \in HasJob => current.gen < currentGeneration
       /\ userActive # None => latest <= userActive /\ userActive < currentGeneration
       /\ driverActive # None => userActive = driverActive

GuestSound == running => G!IInv

\* The inductive invariant all the theorems rest on.
BaseInv ==
  /\ TypeOK /\ DriverTyped
  /\ OnlyRequests /\ NeverEnding /\ OfText(toHost) /\ OfText(messages)
  /\ GenerationsSound /\ CancelsOlder /\ GuestSound

DriverAction ==
  \/ UserCall \/ UserEnds \/ UserStep \/ ReadFrame \/ DriverStep
  \/ JoinTimesOut \/ AwaitTimesOut
GuestAction == MainStep \/ WorkerStep \/ WorkerMishap

(* For the announcements: utterances taken from the queue, and where texts   *)
(* of them may be.                                                           *)

Item == [kind : {"audio", "index", "done"}, utt : Utterance, pos : Nat, chunk : Nat]

Queued == {jobs[i].utt : i \in {j \in 1..Len(jobs) : jobs[j] # None}}
Begun == {u \in Utterance : spokenAs[u] > 0 /\ u \notin Queued}

\* An utterance is queued once, and only what was spoken is.
SpokenOnce ==
  \A i, j \in 1..Len(jobs) :
    /\ jobs[i] # None => spokenAs[jobs[i].utt] > 0
    /\ i < j /\ jobs[i] # None /\ jobs[j] # None => jobs[i].utt # jobs[j].utt

Known(s) == \A i \in 1..Len(s) : s[i].text # NoText => s[i].text[2] \in Begun
WireBegun ==
  /\ Known(toGuest) /\ Known(toHost) /\ Known(messages)
  /\ \A t \in {pendingJob, job} \ {NoText} : t[2] \in Begun
HandBegun ==
  /\ driverPc \in HasJob => current.utt \in Begun
  /\ driverPc = "feed" => hand.utt \in Begun
  /\ buffered # None => buffered \in Begun

\* The player is empty of an utterance wherever its worker may announce.
Heard ==
  driverPc \in {"check", "enter", "event", "notify", "boot", "send", "finish", "announce"}
    => buffered # current.utt

HeardInv == SpokenOnce /\ WireBegun /\ HandBegun /\ Heard /\ out \in Seq(Item)

(* For the request awaited: where it is.  In the channel it is the last,     *)
(* and in the slot nothing is behind it, so nothing can overwrite it.        *)

Working == {"clear", "activate"} \cup (Engaged \ {"retire"})
Waiting == driverPc \in {"await", "feed"}
Tagged(s) == \A i \in 1..Len(s) : s[i].text # NoText => s[i].gen = GenOf[s[i].text]
Answered(s) ==
  \E i \in 1..Len(s) : s[i].type \in {"done", "error"} /\ s[i].text = CurrentText
Underway ==
  \/ toGuest # <<>> /\ toGuest[Len(toGuest)] = Speak(CurrentText)
  \/ toGuest = <<>> /\ pendingJob = CurrentText
  \/ workerPc \in Working /\ job = CurrentText
  \/ Answered(toHost) \/ Answered(messages)
NotLostInv ==
  /\ running => Tagged(messages)
  /\ Waiting /\ IsCurrent(current.gen) /\ running => Underway


------------------------------------------------------------------------------
(* The helper of the composition is the one GuestProofs is about. *)

\* The type of the engine holds under both its names, and as long as the
\* engine is left alone.
LEMMA EngineSame ==
  /\ EngineOK <=> G!EngineOK
  /\ UNCHANGED engine /\ EngineOK => EngineOK'
<1>1. EngineOK <=> G!EngineOK
  BY Zenon DEF EngineOK, G!EngineOK
<1>2. UNCHANGED engine /\ EngineOK => EngineOK'
  BY DEF EngineOK, engine
<1> QED BY <1>1, <1>2

\* The instance has the operators of this module under its own names.
LEMMA SameChannelTypes ==
  /\ ChannelTypeOK <=> G!ChannelTypeOK
  /\ GuestTypeOK <=> G!GuestTypeOK
<1>1. ChannelTypeOK <=> G!ChannelTypeOK
  BY DEF ChannelTypeOK, G!ChannelTypeOK, ToGuestMessage, G!ToGuestMessage,
     ToHostMessage, G!ToHostMessage, Maybe, G!Maybe
<1>2. GuestTypeOK <=> G!GuestTypeOK
  BY EngineSame, Zenon DEF GuestTypeOK, G!GuestTypeOK, MainPc, G!MainPc, WorkerPc,
     G!WorkerPc, Maybe, G!Maybe, Engaged, G!Engaged
<1> QED BY <1>1, <1>2

\* A step of the helper's main thread is one of the instance's.
LEMMA SameMainStep == MainStep => G!MainStep
<1> SUFFICES ASSUME MainStep PROVE G!MainStep OBVIOUS
<1> USE DEF Receive, G!Receive, workerVars, G!workerVars, engine, G!engine, mainVars, G!mainVars,
    sharedVars, G!sharedVars, channelVars, G!channelVars, guestVars, G!guestVars
<1>1. ReadSpeak => G!ReadSpeak
  BY DEF ReadSpeak, G!ReadSpeak
<1>2. ReadEmpty => G!ReadEmpty
  BY DEF ReadEmpty, G!ReadEmpty, SendToHost, G!SendToHost, Frame, G!Frame
<1>3. ReadCancel => G!ReadCancel
  BY DEF ReadCancel, G!ReadCancel
<1>4. ReadQuit => G!ReadQuit
  BY DEF ReadQuit, G!ReadQuit
<1>5. ReadBad => G!ReadBad
  BY DEF ReadBad, G!ReadBad
<1>6. NotifyOne => G!NotifyOne
  BY DEF NotifyOne, G!NotifyOne, Woken, G!Woken
<1>7. CompareActive => G!CompareActive
  BY DEF CompareActive, G!CompareActive, Return, G!Return
<1>8. RaiseCancelling => G!RaiseCancelling
  BY DEF RaiseCancelling, G!RaiseCancelling
<1>9. ReportCancelled => G!ReportCancelled
  BY DEF ReportCancelled, G!ReportCancelled, SendToHost, G!SendToHost, Frame,
     G!Frame, Return, G!Return
<1>10. StoreShuttingDown => G!StoreShuttingDown
  BY DEF StoreShuttingDown, G!StoreShuttingDown
<1>11. AimAtActive => G!AimAtActive
  BY DEF AimAtActive, G!AimAtActive
<1>12. NotifyAll => G!NotifyAll
  BY DEF NotifyAll, G!NotifyAll, Woken, G!Woken
<1>13. JoinWorker => G!JoinWorker
  BY DEF JoinWorker, G!JoinWorker
<1> QED
  BY <1>1, <1>2, <1>3, <1>4, <1>5, <1>6, <1>7, <1>8, <1>9, <1>10, <1>11,
     <1>12, <1>13, Zenon DEF MainStep, G!MainStep

\* So is a step of its worker.
LEMMA SameWorkerStep ==
  /\ WorkerStep => G!WorkerStep
  /\ WorkerMishap => G!WorkerMishap
<1> USE DEF Goto, G!Goto, workerVars, G!workerVars, engine, G!engine, mainVars, G!mainVars,
    sharedVars, G!sharedVars, channelVars, G!channelVars, guestVars, G!guestVars
<1>1. CheckShutdown => G!CheckShutdown
  BY DEF CheckShutdown, G!CheckShutdown
<1>2. WaitLeave => G!WaitLeave
  BY DEF WaitLeave, G!WaitLeave
<1>3. WaitTake => G!WaitTake
  BY DEF WaitTake, G!WaitTake
<1>4. WaitPark => G!WaitPark
  BY DEF WaitPark, G!WaitPark
<1>5. Park => G!Park
  BY DEF Park, G!Park
<1>6. ClearCancelling => G!ClearCancelling
  BY DEF ClearCancelling, G!ClearCancelling
<1>7. Activate => G!Activate
  BY DEF Activate, G!Activate
<1>8. SelectVoice => G!SelectVoice
  BY DEF SelectVoice, G!SelectVoice, Kept, G!Kept, Initialize, G!Initialize,
     VoiceOf, G!VoiceOf, engine, G!engine
<1>9. ChunkLoop => G!ChunkLoop
  BY DEF ChunkLoop, G!ChunkLoop
<1>10. Callback => G!Callback
  BY DEF Callback, G!Callback
<1>11. EmitAudio => G!EmitAudio
  BY DEF EmitAudio, G!EmitAudio, SendToHost, G!SendToHost, Frame, G!Frame
<1>12. Verdict => G!Verdict
  BY DEF Verdict, G!Verdict
<1>13. Reply => G!Reply
  BY DEF Reply, G!Reply, SendToHost, G!SendToHost, Frame, G!Frame
<1>14. Retire => G!Retire
  BY DEF Retire, G!Retire
<1>15. SelectFails => G!SelectFails
  BY DEF SelectFails, G!SelectFails, Kept, G!Kept
<1>16. EngineFails => G!EngineFails
  BY DEF EngineFails, G!EngineFails
<1> QED
  BY <1>1, <1>2, <1>3, <1>4, <1>5, <1>6, <1>7, <1>8, <1>9, <1>10, <1>11,
     <1>12, <1>13, <1>14, <1>15, <1>16, Zenon
  DEF WorkerStep, G!WorkerStep, WorkerMishap, G!WorkerMishap

------------------------------------------------------------------------------
(* What the two sides do to the helper's inductive invariant. *)

\* Append, and below it Tail, element by element.
LEMMA AppendElements ==
  ASSUME NEW S, NEW s \in Seq(S), NEW m \in S
  PROVE  /\ Append(s, m) \in Seq(S)
         /\ Len(Append(s, m)) = Len(s) + 1
         /\ Len(s) \in Nat
         /\ \A i \in 1..Len(s) : Append(s, m)[i] = s[i]
         /\ Append(s, m)[Len(s) + 1] = m
         /\ \A i \in 1..Len(Append(s, m)) : i \in 1..Len(s) \/ i = Len(s) + 1
  OBVIOUS

LEMMA TailElements ==
  ASSUME NEW S, NEW s \in Seq(S), s # <<>>
  PROVE  /\ Tail(s) \in Seq(S)
         /\ Len(Tail(s)) = Len(s) - 1
         /\ Len(s) \in Nat /\ Len(s) > 0
         /\ Head(s) \in S
         /\ Head(s) = s[1]
         /\ \A i \in 1..Len(Tail(s)) : i + 1 \in 1..Len(s) /\ Tail(s)[i] = s[i + 1]
  OBVIOUS

\* The cancelled generations of the instance only grow.
LEMMA Widen ==
  ASSUME NEW a \in Nat, NEW b \in Nat, a <= b
  PROVE  1..(a - 1) \subseteq 1..(b - 1) /\ 1..(b - 1) \subseteq Nat
  OBVIOUS

\* The helper's own steps keep its invariant: GuestProofs has shown it.
LEMMA GuestKeepsSound ==
  ASSUME G!IInv, MainStep \/ WorkerStep \/ WorkerMishap,
         UNCHANGED <<latest, currentGeneration>>
  PROVE  G!IInv'
<1> USE ChannelAssumption, VoiceAssumption
<1>1. G!MainStep \/ G!WorkerStep \/ G!WorkerMishap
  BY SameMainStep, SameWorkerStep
<1>2. G!GuestNext
  BY <1>1 DEF G!GuestNext
<1>3. UNCHANGED <<latest, 1 .. (currentGeneration - 1)>>
  OBVIOUS
<1>4. G!TypeOK /\ G!Tagged
  BY DEF G!IInv
<1>5. G!ChannelTypeOK' /\ G!GuestTypeOK' /\ Len(toHost') <= ToHostCap
  BY <1>2, <1>4, G!GuestTyped
<1>6. G!TypeOK'
  BY <1>3, <1>4, <1>5 DEF G!TypeOK
<1>7. G!Tagged'
  <2>1. G!ActiveIsJob'
    BY <1>2, <1>4, G!ActiveIsJobKept DEF G!Tagged
  <2>2. G!RepliesTagged'
    BY <1>2, <1>4, G!RepliesTaggedKept
  <2> QED BY <2>1, <2>2 DEF G!Tagged
<1>8. G!Ordered' /\ G!Guarded'
  <2>1. CASE G!MainStep
    BY <1>3, <2>1, G!MainKeepsOrder
  <2>2. CASE G!WorkerStep \/ G!WorkerMishap
    BY <1>3, <2>2, G!WorkerKeepsOrder
  <2> QED BY <1>1, <2>1, <2>2
<1> QED BY <1>6, <1>7, <1>8 DEF G!IInv

\* The helper's state is unchanged under both its names.
LEMMA GuestSame ==
  ASSUME UNCHANGED guestVars
  PROVE  /\ UNCHANGED G!guestVars
         /\ G!GuestTypeOK => G!GuestTypeOK'
         /\ G!ActiveIsJob => G!ActiveIsJob'
<1> USE DEF guestVars, mainVars, workerVars, engine, sharedVars,
        G!guestVars, G!mainVars, G!workerVars, G!engine, G!sharedVars
<1>1. UNCHANGED G!guestVars
  OBVIOUS
<1>2. G!GuestTypeOK => G!GuestTypeOK'
  <2>1. G!EngineOK => G!EngineOK'
    BY DEF G!EngineOK
  <2> QED BY <2>1 DEF G!GuestTypeOK
<1>3. G!ActiveIsJob => G!ActiveIsJob'
  BY DEF G!ActiveIsJob
<1> QED BY <1>1, <1>2, <1>3

\* A frame written keeps it, if it is in order and cancels what is given up.
LEMMA WriteKeepsSound ==
  ASSUME G!IInv, NEW m \in ToGuestMessage, SendToGuest(m),
         UNCHANGED guestVars, UNCHANGED <<toHost, currentGeneration>>,
         currentGeneration \in Nat,
         m.type \in {"speak", "cancel"}, latest' = m.gen, latest <= m.gen,
         m.type = "cancel" => m.gen \in 1 .. (currentGeneration - 1),
         m.text # NoText => m.gen = GenOf[m.text]
  PROVE  G!IInv'
<1> USE ChannelAssumption, VoiceAssumption
<1>1. m \in G!ToGuestMessage /\ G!SendToGuest(m) /\ m.gen \in Nat
  BY DEF ToGuestMessage, G!ToGuestMessage, Maybe, G!Maybe, SendToGuest,
     G!SendToGuest
<1>2. UNCHANGED G!guestVars
  BY GuestSame
<1>3. (1 .. (currentGeneration - 1))' = 1 .. (currentGeneration - 1)
  OBVIOUS
<1>4. G!TypeOK'
  <2>1. G!ChannelTypeOK
    BY DEF G!IInv, G!TypeOK
  <2>2. toGuest' \in Seq(G!ToGuestMessage) /\ Len(toGuest') <= ToGuestCap
    BY <1>1, <2>1, G!SendToGuestTyped
  <2>3. G!ChannelTypeOK' /\ G!GuestTypeOK'
    BY <2>1, <2>2, GuestSame DEF G!ChannelTypeOK, G!IInv, G!TypeOK
  <2>4. Len(toHost') <= ToHostCap /\ latest' \in Nat
    BY <1>1 DEF G!IInv, G!TypeOK
  <2> QED BY <1>3, <2>3, <2>4 DEF G!IInv, G!TypeOK
<1>5. G!Tagged'
  <2>1. G!ActiveIsJob'
    BY GuestSame DEF G!IInv, G!Tagged
  <2>2. G!RepliesTagged'
    BY DEF G!IInv, G!Tagged, G!RepliesTagged
  <2> QED BY <2>1, <2>2 DEF G!Tagged
<1>6. G!Ordered' /\ G!Guarded'
  <2>1. latest' \in Nat /\ latest <= latest'
    BY <1>1
  <2>2. (1 .. (currentGeneration - 1)) \subseteq (1 .. (currentGeneration - 1))'
    BY <1>3
  <2>3. G!Timed(m) => latest <= m.gen /\ m.gen <= latest'
    BY <1>1
  <2>4. m.type = "cancel" => m.gen > 0 /\ m.gen \in (1 .. (currentGeneration - 1))'
    BY <1>3
  <2> QED BY <1>1, <1>2, <2>1, <2>2, <2>3, <2>4, G!WriteKeepsOrder
<1> QED BY <1>4, <1>5, <1>6 DEF G!IInv

\* A frame read by the host keeps it, and so does a later generation.
LEMMA ReadKeepsSound ==
  ASSUME G!IInv, UNCHANGED guestVars, UNCHANGED <<toGuest, latest>>,
         currentGeneration \in Nat, currentGeneration' \in Nat,
         currentGeneration <= currentGeneration',
         toHost' = toHost \/ (toHost # <<>> /\ toHost' = Tail(toHost))
  PROVE  G!IInv'
<1> USE ChannelAssumption, VoiceAssumption
<1>0. /\ (1..(currentGeneration - 1)) \subseteq (1..(currentGeneration - 1))'
      /\ (1..(currentGeneration - 1))' \subseteq Nat
  BY ONLY Widen, currentGeneration \in Nat, currentGeneration' \in Nat,
     currentGeneration <= currentGeneration'
<1>2. /\ toHost' \in Seq(ToHostMessage) /\ Len(toHost') <= Len(toHost)
      /\ Len(toHost) \in Nat /\ Len(toHost') \in Nat
      /\ \A i \in 1..Len(toHost') : \E j \in 1..Len(toHost) : toHost'[i] = toHost[j]
  <2>1. toHost \in Seq(ToHostMessage)
    BY SameChannelTypes DEF G!IInv, G!TypeOK, ChannelTypeOK
  <2>2. CASE toHost' = toHost
    BY ONLY <2>1, <2>2
  <2>3. CASE toHost # <<>> /\ toHost' = Tail(toHost)
    BY ONLY <2>1, <2>3, TailElements
  <2> QED BY ONLY <2>2, <2>3,
     toHost' = toHost \/ (toHost # <<>> /\ toHost' = Tail(toHost))
<1>3. UNCHANGED G!guestVars
  BY GuestSame
<1>4. G!TypeOK'
  <2>1. ChannelTypeOK'
    BY <1>2, SameChannelTypes DEF G!IInv, G!TypeOK, ChannelTypeOK
  <2>2. G!ChannelTypeOK'
    BY <2>1 DEF ChannelTypeOK, G!ChannelTypeOK, ToGuestMessage,
       G!ToGuestMessage, ToHostMessage, G!ToHostMessage, Maybe, G!Maybe
  <2>3. G!GuestTypeOK'
    BY GuestSame DEF G!IInv, G!TypeOK
  <2>4. Len(toHost') <= ToHostCap
    BY <1>2 DEF G!IInv, G!TypeOK
  <2> QED BY <2>2, <2>3, <2>4, <1>0 DEF G!IInv, G!TypeOK
<1>5. G!Tagged'
  <2>1. G!ActiveIsJob'
    BY GuestSame DEF G!IInv, G!Tagged
  <2>2. G!RepliesTagged'
    <3> SUFFICES ASSUME NEW i \in 1..Len(toHost'), toHost'[i].text # NoText
                 PROVE  toHost'[i].gen = GenOf[toHost'[i].text]
      BY DEF G!RepliesTagged
    <3>1. PICK j \in 1..Len(toHost) : toHost'[i] = toHost[j]
      BY <1>2
    <3> QED BY <3>1 DEF G!IInv, G!Tagged, G!RepliesTagged
  <2> QED BY <2>1, <2>2 DEF G!Tagged
<1>6. G!Ordered' /\ G!Guarded'
  BY <1>0, <1>3 DEF G!IInv, G!Ordered, G!Guarded, G!StreamOrdered, G!HeldFirst,
     G!TargetBetween, G!TargetIsHeld, G!ShutdownStored, G!SparesOthers, G!Held,
     G!Serving, G!guestVars, G!mainVars, G!workerVars, G!sharedVars
<1> QED BY <1>4, <1>5, <1>6 DEF G!IInv

\* A helper just started satisfies it.
LEMMA FreshSound ==
  ASSUME FreshHelper
  PROVE  ChannelTypeOK' /\ GuestTypeOK' /\ G!IInv'
<1> USE ChannelAssumption, VoiceAssumption
<1>1. /\ toGuest' = <<>> /\ toHost' = <<>> /\ mainPc' = "read" /\ target' = 0
      /\ ending' = 0 /\ pendingJob' = NoText /\ activeGeneration' = 0
      /\ workerPc' = "check" /\ job' = NoText
      /\ synth' = NoVoice /\ currentLanguage' = NoVoice /\ currentModel' = NoVoice
      /\ offset' = 0 /\ latest' = 0
  BY DEF FreshHelper
<1>2. shuttingDown' \in BOOLEAN /\ cancelling' \in BOOLEAN /\ succeeded' \in BOOLEAN
  BY Zenon DEF FreshHelper
<1>3. ChannelTypeOK'
  BY <1>1 DEF ChannelTypeOK
<1>40. EngineOK' /\ G!EngineOK'
  BY <1>1 DEF EngineOK, G!EngineOK
<1>4. GuestTypeOK'
  BY <1>1, <1>2, <1>40 DEF GuestTypeOK, MainPc, WorkerPc, Engaged, Maybe
<1>5. G!ChannelTypeOK'
  BY <1>1 DEF G!ChannelTypeOK
<1>6. G!GuestTypeOK'
  BY <1>1, <1>2, <1>40 DEF G!GuestTypeOK, G!MainPc, G!WorkerPc, G!Engaged, G!Maybe
<1>7. G!TypeOK'
  <2>1. Len(toHost') <= ToHostCap /\ latest' \in Nat /\ <<>> \in Seq(Text)
    BY <1>1
  <2>2. (1..(currentGeneration - 1))' \subseteq Nat
    OBVIOUS
  <2> QED BY <1>5, <1>6, <2>1, <2>2 DEF G!TypeOK
<1>8. G!Tagged'
  BY <1>1 DEF G!Tagged, G!ActiveIsJob, G!RepliesTagged, G!Engaged
<1>9. G!Ordered'
  BY <1>1 DEF G!Ordered, G!StreamOrdered, G!HeldFirst, G!TargetBetween, G!Held,
     G!Serving
<1>10. G!Guarded'
  BY <1>1 DEF G!Guarded, G!TargetIsHeld, G!ShutdownStored, G!SparesOthers,
     G!Engaged
<1> QED BY <1>3, <1>4, <1>7, <1>8, <1>9, <1>10 DEF G!IInv

------------------------------------------------------------------------------
(* The driver: types. *)

\* Below the bound the generations do not wrap.
LEMMA NextGenerationIs ==
  ASSUME NEW g \in Nat, g < MaxGen
  PROVE  NextGeneration(g) = g + 1
<1>1. Modulus \in Nat /\ MaxGen \in 1..(Modulus - 1)
  BY DriverAssumption
<1>2. (g + 1) % Modulus = g + 1
  BY <1>1
<1> QED BY <1>2 DEF NextGeneration

\* A job held is a job, and its events are there.
LEMMA JobHeld ==
  ASSUME DriverTypeOK, DriverTyped, driverPc \in HasJob
  PROVE  /\ current \in JobRecord /\ current # None
         /\ current.gen \in 1..MaxGen /\ current.utt \in Utterance
         /\ Len(Event) \in Nat /\ Len(Event) >= 1
         /\ driverPc \in Rendering => pos \in 1..(Len(Event) + 1)
         /\ driverPc \in AtEvent => pos \in 1..Len(Event)
<1>1. current \in JobRecord
  BY DEF DriverTyped
<1>2. current.gen \in 1..MaxGen /\ current.utt \in Utterance
  BY ONLY <1>1 DEF JobRecord
<1>3. current # None
  BY ONLY <1>1, NoneAssumption, DriverAssumption DEF JobRecord
<1>4. Event \in Seq({"text", "index"}) /\ Event # <<>>
  BY <1>2, DriverAssumption DEF Event
<1>5. Len(Event) \in Nat /\ Len(Event) >= 1
  BY ONLY <1>4
<1>6. driverPc \in Rendering => pos \in 1..(Len(Event) + 1)
  BY DEF DriverTypeOK
<1>7. driverPc \in AtEvent => driverPc \in Rendering /\ pos <= Len(Event)
  BY DEF DriverTyped, AtEvent, Rendering
<1> QED BY <1>1, <1>2, <1>3, <1>5, <1>6, <1>7

\* A step of the worker with a job keeps the types if what it holds after it
\* is what its new place in the code says.
LEMMA WorkerKeepsTypes ==
  ASSUME DriverTypeOK, DriverTyped, driverPc \in HasJob, driverPc' \in HasJob,
         UNCHANGED <<Rest, jobs, current, paused>>,
         driverActive' \in (1..MaxGen) \cup {None},
         buffered' \in Utterance \cup {None},
         messages' \in Seq(ToHostMessage), Len(messages') <= QueueCap,
         driverPc' \in Rendering => pos' \in 1..(Len(Event) + 1),
         driverPc' \in AtEvent => pos' <= Len(Event),
         driverPc' = "notify" => hand' = IndexItem(current.utt, pos'),
         driverPc' = "announce" => hand' = DoneItem(current.utt),
         driverPc' = "feed" => hand' \in AudioRecord
  PROVE  DriverTypeOK' /\ DriverTyped'
<1>1. current' = current /\ current # None /\ current \in JobRecord /\ Event' = Event
      /\ current.utt \in Utterance /\ Len(Event) \in Nat
  BY JobHeld DEF Event
<1>2. UNCHANGED <<userPc, userActive, stopping, currentGeneration, running,
                  spokenAs, jobs, paused>>
  BY DEF Rest, userVars
<1>3. DriverTyped'
  BY <1>1, <1>2 DEF DriverTyped
<1>4. driverPc' \in Handing => hand' # None
  <2>1. CASE driverPc' = "notify"
    <3>1. pos' \in Nat
      BY <1>1, <2>1 DEF Rendering
    <3> QED BY <1>1, <2>1, <3>1, NoneAssumption DEF IndexItem
  <2>2. CASE driverPc' = "announce"
    BY <1>1, <2>2, NoneAssumption DEF DoneItem
  <2>3. CASE driverPc' = "feed"
    BY <2>3, NoneAssumption DEF AudioRecord
  <2> QED BY <2>1, <2>2, <2>3 DEF Handing
<1>5. driverPc' \in DriverPc
  BY DEF HasJob, Busy, DriverPc
<1>6. DriverTypeOK'
  BY <1>1, <1>2, <1>4, <1>5 DEF DriverTypeOK
<1> QED BY <1>3, <1>6

\* The case of a step that moves on and changes nothing else of its job.
LEMMA MoveKeepsTypes ==
  ASSUME DriverTypeOK, DriverTyped, driverPc \in HasJob,
         driverPc' \in HasJob \ {"notify", "announce", "feed"},
         UNCHANGED <<Rest, jobs, current, pos, messages, paused, buffered>>,
         driverActive' \in {driverActive, current.gen},
         driverPc' \in Rendering => driverPc \in Rendering,
         driverPc' \in AtEvent => driverPc \in AtEvent
  PROVE  DriverTypeOK' /\ DriverTyped'
<1>1. /\ driverActive' \in (1..MaxGen) \cup {None} /\ buffered' \in Utterance \cup {None}
      /\ messages' \in Seq(ToHostMessage) /\ Len(messages') <= QueueCap
  BY JobHeld DEF DriverTypeOK
<1>2. /\ driverPc' \in Rendering => pos' \in 1..(Len(Event) + 1)
      /\ driverPc' \in AtEvent => pos' <= Len(Event)
  BY JobHeld
<1> QED BY <1>1, <1>2, WorkerKeepsTypes

\* A step that leaves the worker where it is keeps them if the queues, the
\* player and the main thread keep theirs.
LEMMA OthersKeepTypes ==
  ASSUME DriverTypeOK, DriverTyped, UNCHANGED renderVars,
         userPc' \in UserPc, userActive' \in (1..MaxGen) \cup {None},
         stopping' \in BOOLEAN, currentGeneration' \in 1..MaxGen,
         jobs' \in Seq(JobRecord \cup {None}),
         messages' \in Seq(ToHostMessage), Len(messages') <= QueueCap,
         running' = running, paused' \in BOOLEAN,
         buffered' \in {buffered, None}, spokenAs' \in [Utterance -> 0..MaxGen]
  PROVE  DriverTypeOK' /\ DriverTyped'
<1>1. UNCHANGED <<driverPc, driverActive, current, pos, hand>> /\ Event' = Event
  BY DEF renderVars, Event
<1>2. DriverTyped'
  BY <1>1 DEF DriverTyped
<1>3. \A i \in 1..Len(jobs') :
        jobs'[i] # None => jobs'[i].gen \in 1..MaxGen /\ jobs'[i].utt \in Utterance
  <2>1. \A i \in 1..Len(jobs') : jobs'[i] \in JobRecord \cup {None}
    OBVIOUS
  <2> QED BY <2>1 DEF JobRecord
<1>4. DriverTypeOK'
  BY <1>1, <1>3 DEF DriverTypeOK
<1> QED BY <1>2, <1>4

\* Each action of the main and of the reader thread keeps the types,
LEMMA CallsKeepTypes ==
  ASSUME ChannelTypeOK, DriverTypeOK, DriverTyped, CancelsOlder,
         UserCall \/ UserEnds \/ UserStep \/ JoinTimesOut \/ ReadFrame
  PROVE  DriverTypeOK' /\ DriverTyped'
<1>1. /\ userPc \in UserPc /\ userActive \in (1..MaxGen) \cup {None}
      /\ currentGeneration \in 1..MaxGen /\ driverActive \in (1..MaxGen) \cup {None}
      /\ jobs \in Seq(JobRecord \cup {None}) /\ spokenAs \in [Utterance -> 0..MaxGen]
      /\ messages \in Seq(ToHostMessage) /\ Len(messages) <= QueueCap
  BY DEF DriverTypeOK, DriverTyped
<1>2. stopping \in BOOLEAN /\ paused \in BOOLEAN
  BY Zenon DEF DriverTypeOK
<1>3. MaxGen \in Nat /\ MaxGen >= 1
  BY DriverAssumption
<1> USE DEF userVars, playerVars, UserGoto, UserPc
<1>4. ASSUME NEW u \in Utterance, SpeakUtterance(u) PROVE DriverTypeOK' /\ DriverTyped'
  <2>1. Job(currentGeneration, u) \in JobRecord \cup {None}
    BY <1>1 DEF Job, JobRecord
  <2>2. jobs' \in Seq(JobRecord \cup {None})
    BY <1>1, <1>4, <2>1 DEF SpeakUtterance
  <2>3. spokenAs' \in [Utterance -> 0..MaxGen]
    BY <1>1, <1>3, <1>4 DEF SpeakUtterance
  <2> QED BY <1>1, <1>2, <1>4, <2>2, <2>3, OthersKeepTypes DEF SpeakUtterance
<1>5. CASE Pause
  <2>1. paused' \in BOOLEAN
    BY <1>2, <1>5, Zenon DEF Pause
  <2> QED BY <1>1, <1>2, <1>5, <2>1, OthersKeepTypes DEF Pause
<1>6. CASE Terminate
  <2>1. stopping' \in BOOLEAN
    BY <1>6, Zenon DEF Terminate
  <2> QED BY <1>1, <1>2, <1>6, <2>1, OthersKeepTypes DEF Terminate
<1>7. CASE BeginCancel
  <2>1. currentGeneration < MaxGen /\ userPc' = "send"
    <3>1. CASE stopping
      BY <1>7, <3>1 DEF BeginCancel, CancelsOlder
    <3>2. CASE ~stopping
      <4>1. currentGeneration < MaxGen - Spare /\ userPc' = "send"
        BY <1>7, <3>2 DEF BeginCancel
      <4> QED BY <1>1, <1>3, <4>1, DriverAssumption
    <3> QED BY <3>1, <3>2
  <2>2. currentGeneration' \in 1..MaxGen
    BY <1>1, <1>3, <1>7, <2>1, NextGenerationIs DEF BeginCancel
  <2> QED BY <1>1, <1>2, <1>7, <2>1, <2>2, OthersKeepTypes DEF BeginCancel
<1>8. CASE SendCancel \/ JoinDriver \/ JoinTimesOut
  BY <1>1, <1>2, <1>8, OthersKeepTypes DEF SendCancel, JoinDriver, JoinTimesOut
<1>9. CASE DrainJobs
  <2>1. userPc' \in UserPc
    BY <1>9 DEF DrainJobs
  <2>2. jobs' \in Seq(JobRecord \cup {None})
    <3>1. jobs' = jobs \/ (jobs # <<>> /\ jobs' = Tail(jobs))
      BY <1>9 DEF DrainJobs
    <3> DEFINE S == JobRecord \cup {None}
    <3>2. jobs \in Seq(S)
      BY <1>1
    <3> HIDE DEF S
    <3>3. jobs' \in Seq(S)
      BY ONLY <3>1, <3>2, TailElements
    <3> QED BY <3>3 DEF S
  <2> QED BY <1>1, <1>2, <1>9, <2>1, <2>2, OthersKeepTypes DEF DrainJobs
<1>10. CASE StopPlayer
  <2>1. paused' \in BOOLEAN
    BY <1>10, Zenon DEF StopPlayer
  <2>2. userPc' \in UserPc
    BY <1>10 DEF StopPlayer
  <2> QED BY <1>1, <1>2, <1>10, <2>1, <2>2, OthersKeepTypes DEF StopPlayer
<1>11. CASE PutSentinel
  <2>1. jobs' \in Seq(JobRecord \cup {None})
    BY <1>1, <1>11 DEF PutSentinel
  <2> QED BY <1>1, <1>2, <1>11, <2>1, OthersKeepTypes DEF PutSentinel
<1>12. CASE ReadFrame
  <2>1. messages' \in Seq(ToHostMessage) /\ Len(messages') <= QueueCap
    <3>1. /\ toHost \in Seq(ToHostMessage) /\ toHost # <<>> /\ QueueCap \in Nat
          /\ Len(messages) < QueueCap /\ messages' = Append(messages, Head(toHost))
      BY <1>12, DriverAssumption DEF ReadFrame, ChannelTypeOK
    <3>2. Head(toHost) \in ToHostMessage
      BY ONLY <3>1, TailElements
    <3> QED BY ONLY <1>1, <3>1, <3>2, AppendElements
  <2> QED BY <1>1, <1>2, <1>12, <2>1, OthersKeepTypes DEF ReadFrame
<1> QED
  BY <1>4, <1>5, <1>6, <1>7, <1>8, <1>9, <1>10, <1>11, <1>12
  DEF UserCall, UserEnds, UserStep

\* the one of the worker that takes a message from the host's queue,
LEMMA AwaitKeepsTypes ==
  ASSUME DriverTypeOK, DriverTyped, OfText(messages), AwaitMessage
  PROVE  DriverTypeOK' /\ DriverTyped'
<1> DEFINE m == Head(messages)
<1>1. /\ driverPc = "await" /\ messages # <<>> /\ messages' = Tail(messages)
      /\ UNCHANGED <<Rest, jobs, driverActive, current, pos, paused, buffered>>
      /\ driverPc \in HasJob /\ driverPc \in AtEvent
  BY DEF AwaitMessage, playerVars, HasJob, Busy, AtEvent
<1>2. /\ messages \in Seq(ToHostMessage) /\ Len(messages) <= QueueCap
      /\ driverActive \in (1..MaxGen) \cup {None} /\ buffered \in Utterance \cup {None}
  BY DEF DriverTypeOK
<1>3. /\ Len(messages) \in Nat /\ m = messages[1] /\ m \in ToHostMessage
      /\ 1 \in 1..Len(messages)
      /\ messages' \in Seq(ToHostMessage) /\ Len(messages') = Len(messages) - 1
  BY ONLY <1>1, <1>2, TailElements
<1>4. m.type = "audio" => m.text \in Text
  BY ONLY <1>3, OfText(messages) DEF OfText
<1>5. m.type = "audio" => AudioItem(m.text, m.chunk) \in AudioRecord
  BY <1>3, <1>4, TextAssumption DEF AudioItem, ToHostMessage, AudioRecord
<1>6. /\ driverPc' \in {"restart", "await", "feed", "settle", "leave"}
      /\ driverPc' = "feed" => m.type = "audio" /\ hand' = AudioItem(m.text, m.chunk)
  BY <1>3 DEF AwaitMessage, ToHostMessage
<1> HIDE DEF m
<1>7. /\ driverPc' = "feed" => hand' \in AudioRecord
      /\ driverPc' \in HasJob /\ driverPc' # "notify" /\ driverPc' # "announce"
  BY ONLY <1>5, <1>6 DEF HasJob, Busy
<1>8. Len(messages') <= QueueCap
  BY ONLY <1>2, <1>3, DriverAssumption
<1>9. pos' \in 1..(Len(Event) + 1) /\ pos' <= Len(Event)
  BY <1>1, JobHeld
<1> QED BY <1>1, <1>2, <1>3, <1>7, <1>8, <1>9, WorkerKeepsTypes

\* the one that looks at the next event,
LEMMA EventKeepsTypes ==
  ASSUME DriverTypeOK, DriverTyped, NextEvent
  PROVE  DriverTypeOK' /\ DriverTyped'
<1>1. /\ driverPc = "event" /\ driverPc \in HasJob /\ driverPc \in Rendering
      /\ UNCHANGED <<Rest, jobs, driverActive, current, pos, messages, paused, buffered>>
  BY DEF NextEvent, playerVars, HasJob, Busy, Rendering
<1>2. /\ driverPc' \in {"finish", "boot", "notify", "leave"}
      /\ driverPc' \in {"boot", "notify"} => ~(pos > Len(Event))
      /\ driverPc' = "notify" => hand' = IndexItem(current.utt, pos)
  <2>1. CASE pos > Len(Event)
    BY <2>1 DEF NextEvent
  <2>2. CASE ~(pos > Len(Event)) /\ Event[pos] = "text"
    BY <2>2 DEF NextEvent, IfCurrent
  <2>3. CASE ~(pos > Len(Event)) /\ Event[pos] # "text"
    BY <2>3 DEF NextEvent, IfCurrent
  <2> QED BY <2>1, <2>2, <2>3
<1>3. pos \in 1..(Len(Event) + 1) /\ Len(Event) \in Nat
  BY <1>1, JobHeld
<1>4. /\ driverPc' \in HasJob /\ driverPc' # "announce" /\ driverPc' # "feed"
      /\ driverPc' \in AtEvent => pos' <= Len(Event)
  BY ONLY <1>1, <1>2, <1>3 DEF HasJob, Busy, AtEvent
<1>5. /\ driverActive' \in (1..MaxGen) \cup {None} /\ buffered' \in Utterance \cup {None}
      /\ messages' \in Seq(ToHostMessage) /\ Len(messages') <= QueueCap
  BY <1>1 DEF DriverTypeOK
<1> QED BY <1>1, <1>2, <1>3, <1>4, <1>5, WorkerKeepsTypes

\* those that notify, feed the player, wait for it or finish,
LEMMA OutputKeepsTypes ==
  ASSUME DriverTypeOK, DriverTyped,
         NotifyIndex \/ FeedPlayer \/ IdlePlayer \/ Finish \/ AnnounceDone
  PROVE  DriverTypeOK' /\ DriverTyped'
<1>1. /\ driverPc \in {"notify", "feed", "idle", "finish", "announce"}
      /\ UNCHANGED <<Rest, jobs, driverActive, current, messages, paused>>
  BY DEF NotifyIndex, FeedPlayer, IdlePlayer, Finish, AnnounceDone, DriverGoto,
     playerVars
<1>2. driverPc \in HasJob /\ driverPc \in Rendering
  BY ONLY <1>1 DEF HasJob, Busy, Rendering
<1>3. /\ pos \in 1..(Len(Event) + 1) /\ Len(Event) \in Nat
      /\ driverPc \in {"notify", "feed", "idle"} => pos <= Len(Event)
  BY <1>1, <1>2, JobHeld DEF AtEvent
<1>4. /\ driverActive' \in (1..MaxGen) \cup {None} /\ buffered \in Utterance \cup {None}
      /\ messages' \in Seq(ToHostMessage) /\ Len(messages') <= QueueCap
  BY <1>1 DEF DriverTypeOK
<1>5. buffered' \in Utterance \cup {None}
  <2>1. CASE FeedPlayer
    <3>1. hand.utt \in Utterance
      BY <2>1 DEF FeedPlayer, DriverTyped, AudioRecord
    <3> QED BY <1>4, <2>1, <3>1 DEF FeedPlayer
  <2>2. CASE IdlePlayer
    BY <1>4, <2>2 DEF IdlePlayer
  <2>3. CASE NotifyIndex \/ Finish \/ AnnounceDone
    BY <1>4, <2>3 DEF NotifyIndex, Finish, AnnounceDone, playerVars
  <2> QED BY <2>1, <2>2, <2>3
<1>6. \/ driverPc' = "leave"
      \/ driverPc' = "event" /\ driverPc \in {"notify", "idle"} /\ pos' = pos + 1
      \/ driverPc' = "await" /\ driverPc = "feed" /\ pos' = pos
      \/ driverPc' = "announce" /\ pos' = pos /\ hand' = DoneItem(current.utt)
  <2>1. CASE NotifyIndex \/ AnnounceDone
    BY <2>1 DEF NotifyIndex, AnnounceDone, DriverGoto
  <2>2. CASE FeedPlayer
    BY <2>2 DEF FeedPlayer
  <2>3. CASE IdlePlayer
    BY <2>3 DEF IdlePlayer
  <2>4. CASE Finish
    BY <2>4 DEF Finish, DriverGoto, IfCurrent
  <2> QED BY <2>1, <2>2, <2>3, <2>4
<1>7. /\ driverPc' \in HasJob /\ driverPc' # "notify" /\ driverPc' # "feed"
      /\ driverPc' \in Rendering => pos' \in 1..(Len(Event) + 1)
      /\ driverPc' \in AtEvent => pos' <= Len(Event)
      /\ driverPc' = "announce" => hand' = DoneItem(current.utt)
  BY ONLY <1>3, <1>6 DEF HasJob, Busy, Rendering, AtEvent
<1> QED BY <1>1, <1>2, <1>4, <1>5, <1>7, WorkerKeepsTypes

\* those that take a job, give it up, or go on in the code,
LEMMA JobKeepsTypes ==
  ASSUME DriverTypeOK, DriverTyped, TestStopping \/ NextJob \/ LeaveRender
  PROVE  DriverTypeOK' /\ DriverTyped'
<1> DEFINE Free == {"get", "exited", "loop"}
<1>1. /\ UNCHANGED <<userPc, userActive, stopping, currentGeneration, running,
                     spokenAs, messages, paused, buffered>>
      /\ driverActive' \in {driverActive, None}
  BY DEF TestStopping, NextJob, LeaveRender, Rest, userVars, playerVars
<1>2. jobs \in Seq(JobRecord \cup {None})
  BY DEF DriverTyped
<1>3. /\ jobs' \in Seq(JobRecord \cup {None})
      /\ \/ driverPc' \in Free
         \/ driverPc' = "check" /\ current' \in JobRecord /\ pos' = 1
  <2>1. CASE NextJob
    <3>1. /\ jobs # <<>> /\ jobs' = Tail(jobs) /\ current' = Head(jobs) /\ pos' = 1
          /\ driverPc' = IF Head(jobs) = None THEN "exited" ELSE "check"
      BY <2>1 DEF NextJob, DriverGoto
    <3>2. Head(jobs) \in JobRecord \cup {None} /\ jobs' \in Seq(JobRecord \cup {None})
      BY ONLY <1>2, <3>1, TailElements
    <3> QED BY ONLY <3>1, <3>2
  <2>2. CASE TestStopping \/ LeaveRender
    BY <1>2, <2>2 DEF TestStopping, LeaveRender, DriverGoto
  <2> QED BY <2>1, <2>2
<1>4. \A i \in 1..Len(jobs') :
        jobs'[i] # None => jobs'[i].gen \in 1..MaxGen /\ jobs'[i].utt \in Utterance
  <2>1. \A i \in 1..Len(jobs') : jobs'[i] \in JobRecord \cup {None}
    BY <1>3
  <2> QED BY <2>1 DEF JobRecord
<1>5. /\ driverPc' \in DriverPc /\ driverPc' \notin Handing /\ driverPc' \notin AtEvent
      /\ driverPc' \notin {"notify", "announce", "feed"}
      /\ driverPc' \in HasJob => current' \in JobRecord
      /\ driverPc' \in Rendering => current' \in JobRecord /\ pos' = 1
  BY ONLY <1>3 DEF DriverPc, Handing, AtEvent, HasJob, Busy, Rendering
<1>6. driverPc' \in Rendering => current' # None /\ pos' \in 1..(Len(Event') + 1)
  <2> SUFFICES ASSUME driverPc' \in Rendering
               PROVE  current' # None /\ pos' \in 1..(Len(Event') + 1)
    OBVIOUS
  <2>1. current'.utt \in Utterance /\ current' # None
    BY <1>5, NoneAssumption, DriverAssumption DEF JobRecord
  <2>2. Len(Event') \in Nat
    BY <2>1, DriverAssumption DEF Event
  <2> QED BY <1>5, <2>1, <2>2
<1>7. DriverTyped'
  BY <1>3, <1>5 DEF DriverTyped
<1>8. DriverTypeOK'
  BY <1>1, <1>4, <1>5, <1>6 DEF DriverTypeOK
<1> QED BY <1>7, <1>8

\* and those that only go on in the code.
LEMMA DriverKeepsTypes ==
  ASSUME ChannelTypeOK, DriverTypeOK, DriverTyped, CancelsOlder, OfText(messages),
         DriverAction
  PROVE  DriverTypeOK' /\ DriverTyped'
<1>1. CASE \/ CheckJob \/ EnterRender \/ AlreadyRunning \/ SendSpeak
           \/ Settle \/ AwaitTimesOut
  <2>1. /\ UNCHANGED <<Rest, jobs, current, pos, messages, paused, buffered>>
        /\ driverActive' \in {driverActive, current.gen}
    BY <1>1 DEF CheckJob, EnterRender, AlreadyRunning, SendSpeak, Settle,
       AwaitTimesOut, playerVars
  <2>2. \/ driverPc = "check" /\ driverPc' \in {"enter", "leave"}
        \/ driverPc = "enter" /\ driverPc' \in {"event", "leave"}
        \/ driverPc = "boot" /\ driverPc' = "send"
        \/ driverPc = "send" /\ driverPc' \in {"await", "leave"}
        \/ driverPc = "settle" /\ driverPc' \in {"idle", "leave"}
        \/ driverPc = "await" /\ driverPc' = "restart"
    BY <1>1 DEF CheckJob, EnterRender, AlreadyRunning, SendSpeak, Settle,
       AwaitTimesOut, DriverGoto, IfCurrent
  <2>3. /\ driverPc \in HasJob /\ driverPc' \in HasJob \ {"notify", "announce", "feed"}
        /\ driverPc' \in Rendering => driverPc \in Rendering
        /\ driverPc' \in AtEvent => driverPc \in AtEvent
    BY ONLY <2>2 DEF HasJob, Busy, Rendering, AtEvent
  <2> QED BY <2>1, <2>3, MoveKeepsTypes
<1> QED
  BY <1>1, CallsKeepTypes, AwaitKeepsTypes, EventKeepsTypes, OutputKeepsTypes,
     JobKeepsTypes
  DEF DriverAction, DriverStep

------------------------------------------------------------------------------
(* The driver: what it writes and reads. *)

\* Who may take a step of the composition.
LEMMA NextCases ==
  ASSUME Next
  PROVE  /\ \/ running /\ GuestAction /\ UNCHANGED <<driverVars, latest>>
            \/ /\ DriverAction /\ UNCHANGED guestVars
               /\ latest' = IF Wrote THEN Written.gen ELSE latest
            \/ StartHelper \/ StartFails \/ StopHelper \/ HelperDies
         /\ mishaps' = mishaps \/ (mishaps < MaxMishaps /\ mishaps' = mishaps + 1)
BY DEF Next, Well, Mishap, GuestMove, DriverMove, GuestAction, DriverAction,
   StartHelper, StopHelper, StartFails, HelperDies

\* The text the worker is at is a text of the job it holds.
LEMMA CurrentTextIs ==
  ASSUME DriverTypeOK, DriverTyped, driverPc \in {"boot", "send", "await", "feed",
         "settle", "idle"}
  PROVE  /\ CurrentText \in Text /\ CurrentText # NoText
         /\ GenOf[CurrentText] = current.gen /\ CurrentText[2] = current.utt
         /\ current.gen \in 1..MaxGen /\ current.utt \in Utterance
<1>1. current \in JobRecord /\ pos \in 1..Len(EventsOf[current.utt])
  BY DriverAssumption DEF DriverTypeOK, DriverTyped, HasJob, Busy, AtEvent,
     Rendering, Event, JobRecord
<1>2. CurrentText \in Text
  BY <1>1, TextAssumption DEF CurrentText, JobRecord
<1>3. CurrentText = <<GenOf[CurrentText], CurrentText[2], CurrentText[3]>>
  BY <1>2, TextAssumption
<1> QED BY <1>1, <1>2, <1>3, ChannelAssumption DEF CurrentText, JobRecord

\* The driver writes only a request or a cancellation, and reads one frame at a time.
LEMMA DriverWrites ==
  ASSUME DriverAction
  PROVE  \/ UNCHANGED toGuest
         \/ /\ driverPc = "send" /\ running /\ SendToGuest(Speak(CurrentText))
            /\ UNCHANGED <<toHost, messages, userVars, currentGeneration, jobs,
                           driverActive, current, pos, hand, running, playerVars, spokenAs>>
            /\ driverPc' = "await"
         \/ /\ userPc = "send" /\ running /\ userActive # None
            /\ SendToGuest(Cancel(userActive))
            /\ UNCHANGED <<toHost, messages, userActive, stopping, currentGeneration,
                           jobs, renderVars, running, playerVars, spokenAs>>
            /\ userPc' = "drain"
<1> USE DEF channelVars, userVars, renderVars, playerVars, Rest, UserGoto, DriverGoto
<1>1. CASE SendSpeak
  BY <1>1 DEF SendSpeak
<1>2. CASE SendCancel
  BY <1>2 DEF SendCancel
<1>3. CASE DriverAction /\ ~SendSpeak /\ ~SendCancel
  <2>1. UNCHANGED toGuest
    BY <1>3 DEF DriverAction, UserCall, UserEnds, UserStep, DriverStep,
       SpeakUtterance, Pause, Terminate, BeginCancel, DrainJobs, StopPlayer,
       PutSentinel, JoinDriver, JoinTimesOut, ReadFrame, TestStopping, NextJob,
       CheckJob, EnterRender, NextEvent, NotifyIndex, AlreadyRunning,
       AwaitMessage, FeedPlayer, Settle, IdlePlayer, Finish, AnnounceDone,
       LeaveRender, AwaitTimesOut
  <2> QED BY <2>1
<1> QED BY <1>1, <1>2, <1>3

\* It reads one frame at a time, and never starts or stops a helper here.
LEMMA DriverReads ==
  ASSUME DriverAction
  PROVE  /\ \/ ReadFrame
            \/ UNCHANGED <<toHost, messages>>
            \/ AwaitMessage
         /\ UNCHANGED running
<1> USE DEF channelVars, userVars, renderVars, playerVars, Rest, UserGoto, DriverGoto
<1> QED
    BY  DEF DriverAction, UserCall, UserEnds, UserStep, DriverStep,
       SpeakUtterance, Pause, Terminate, BeginCancel, DrainJobs, StopPlayer,
       PutSentinel, JoinDriver, JoinTimesOut, ReadFrame, TestStopping, NextJob,
       CheckJob, EnterRender, NextEvent, NotifyIndex, AlreadyRunning,
       AwaitMessage, FeedPlayer, Settle, IdlePlayer, Finish, AnnounceDone,
       LeaveRender, AwaitTimesOut, SendSpeak, SendCancel

\* What the history variable sees of a write.
LEMMA WroteIs ==
  ASSUME ChannelTypeOK
  PROVE  /\ UNCHANGED toGuest => ~Wrote
         /\ \A m \in ToGuestMessage : SendToGuest(m) => Wrote /\ Written = m
<1>1. UNCHANGED toGuest => ~Wrote
  BY DEF Wrote, ChannelTypeOK
<1>2. ASSUME NEW m \in ToGuestMessage, SendToGuest(m) PROVE Wrote /\ Written = m
  <2>1. toGuest \in Seq(ToGuestMessage) /\ toGuest' = Append(toGuest, m)
    BY <1>2 DEF SendToGuest, ChannelTypeOK
  <2> QED BY <2>1, AppendElements DEF Wrote, Written
<1> QED BY <1>1, <1>2

\* The frames are what their constructors were given.
LEMMA FramesTyped ==
  /\ \A t \in Text :
       /\ Speak(t) \in ToGuestMessage /\ Speak(t).type = "speak"
       /\ Speak(t).gen = GenOf[t] /\ Speak(t).text = t
  /\ \A g \in Nat :
       /\ Cancel(g) \in ToGuestMessage /\ Cancel(g).type = "cancel"
       /\ Cancel(g).gen = g /\ Cancel(g).text = NoText
  /\ \A type \in {"audio", "done", "error", "cancelled", "eof"}, g \in Nat,
       t \in Maybe(Text), k \in Nat : Frame(type, g, t, k) \in ToHostMessage
  /\ Eof \in ToHostMessage /\ Eof.type = "eof" /\ Eof.text = NoText
  BY ChannelAssumption DEF Speak, Cancel, Frame, ToGuestMessage, ToHostMessage,
     Maybe, Eof

------------------------------------------------------------------------------
(* The helper: what it does to the channel and its slot. *)

Steady == UNCHANGED <<toGuest, toHost, pendingJob, job>>
Takes == /\ toGuest # <<>> /\ toGuest' = Tail(toGuest) /\ mainPc = "read"
         /\ UNCHANGED <<toHost, job, workerPc>>
         /\ \/ Head(toGuest).type = "cancel" /\ UNCHANGED pendingJob
            \/ Head(toGuest).type = "speak" /\ pendingJob' = Head(toGuest).text
Starts == /\ UNCHANGED <<toGuest, toHost>> /\ job' = pendingJob /\ pendingJob' = NoText
          /\ workerPc' = "clear"
Ends == UNCHANGED <<toGuest, toHost, pendingJob>> /\ job' = NoText /\ workerPc = "retire"
Answers == \E m \in ToHostMessage :
             /\ SendToHost(m) /\ UNCHANGED <<toGuest, pendingJob, job>>
             /\ m.type = "audio" => m.text \in Text
             /\ m.text \in {NoText, job}

\* A step of the helper leaves the wire alone, takes a frame, starts or ends
\* a job, or answers.
LEMMA GuestEffect ==
  ASSUME ChannelTypeOK, GuestTypeOK, OnlyRequests, NeverEnding, GuestAction
  PROVE  NeverEnding' /\ (Steady \/ Takes \/ Starts \/ Ends \/ Answers)
<1> USE ChannelAssumption DEF channelVars, mainVars, workerVars, sharedVars,
    guestVars, NeverEnding
<1>0. toGuest # <<>> => /\ Head(toGuest).type \in {"speak", "cancel"}
                        /\ Head(toGuest).type = "speak" => Head(toGuest).text \in Text
  <2> SUFFICES ASSUME toGuest # <<>>
               PROVE  /\ Head(toGuest).type \in {"speak", "cancel"}
                      /\ Head(toGuest).type = "speak" => Head(toGuest).text \in Text
    OBVIOUS
  <2>1. 1 \in 1..Len(toGuest) /\ Head(toGuest) = toGuest[1]
    BY TailElements DEF ChannelTypeOK
  <2> QED BY <2>1 DEF OnlyRequests
<1>1. CASE ReadSpeak
  BY <1>1 DEF ReadSpeak, Receive, Takes
<1>2. CASE ReadCancel
  BY <1>2 DEF ReadCancel, Receive, Takes
<1>3. CASE ReadEmpty \/ ReadQuit \/ ReadBad
  BY <1>0, <1>3 DEF ReadEmpty, ReadQuit, ReadBad, Receive
<1>4. CASE NotifyOne \/ CompareActive \/ RaiseCancelling
  BY <1>4 DEF NotifyOne, CompareActive, Return, RaiseCancelling, Steady
<1>5. CASE ReportCancelled
  <2> DEFINE m == Frame("cancelled", target, NoText, 0)
  <2>1. m \in ToHostMessage /\ m.text = NoText /\ m.type = "cancelled"
    BY FramesTyped DEF GuestTypeOK, Maybe, Frame
  <2> HIDE DEF m
  <2>2. SendToHost(m) /\ UNCHANGED <<toGuest, pendingJob, job>> /\ NeverEnding'
    BY <1>5 DEF ReportCancelled, Return, m
  <2> QED BY <2>1, <2>2 DEF Answers
<1>6. CASE StoreShuttingDown \/ AimAtActive \/ NotifyAll \/ JoinWorker
  BY <1>6 DEF StoreShuttingDown, AimAtActive, NotifyAll, JoinWorker
<1>7. CASE WaitTake
  BY <1>7 DEF WaitTake, Goto, Starts
<1>8. CASE Retire
  BY <1>8 DEF Retire, Goto, Ends
<1>9. CASE EmitAudio
  <2> DEFINE m == Frame("audio", activeGeneration, job, offset + 1)
  <2>1. job \in Text /\ offset + 1 \in Nat /\ activeGeneration \in Nat
    BY <1>9 DEF EmitAudio, Goto, GuestTypeOK, Engaged
  <2>2. m \in ToHostMessage /\ m.text = job
    BY <2>1, FramesTyped DEF Maybe, Frame
  <2> HIDE DEF m
  <2>3. SendToHost(m) /\ UNCHANGED <<toGuest, pendingJob, job>> /\ NeverEnding'
    BY <1>9 DEF EmitAudio, Goto, m
  <2> QED BY <2>1, <2>2, <2>3 DEF Answers
<1>10. CASE Reply
  <2> DEFINE m == Frame(IF succeeded THEN "done" ELSE "error", GenOf[job], job, 0)
  <2>1. job \in Text /\ GenOf[job] \in Nat
    BY <1>10 DEF Reply, Goto, GuestTypeOK, Engaged
  <2>2. m \in ToHostMessage /\ m.text = job
    BY <2>1, FramesTyped DEF Maybe, Frame
  <2> HIDE DEF m
  <2>3. SendToHost(m) /\ UNCHANGED <<toGuest, pendingJob, job>> /\ NeverEnding'
    BY <1>10 DEF Reply, Goto, m
  <2> QED BY <2>1, <2>2, <2>3 DEF Answers
<1>11. CASE \/ CheckShutdown \/ WaitLeave \/ WaitPark \/ Park \/ ClearCancelling
            \/ Activate \/ SelectVoice \/ ChunkLoop \/ Verdict \/ WorkerMishap
  BY <1>11 DEF CheckShutdown, WaitLeave, WaitPark, Park, ClearCancelling,
     Activate, SelectVoice, ChunkLoop, Verdict, WorkerMishap, SelectFails,
     EngineFails, Goto, Steady
<1>12. CASE Callback
  BY <1>12 DEF Callback, Goto, Steady
<1> QED
  BY <1>1, <1>2, <1>3, <1>4, <1>5, <1>6, <1>7, <1>8, <1>9, <1>10, <1>11, <1>12
     DEF GuestAction, MainStep, WorkerStep

\* The helper keeps what the driver relies on.
LEMMA GuestKeepsWire ==
  ASSUME ChannelTypeOK, GuestTypeOK, OnlyRequests, NeverEnding, OfText(toHost),
         GuestAction
  PROVE  OnlyRequests' /\ NeverEnding' /\ OfText(toHost')
<1>1. NeverEnding'
  BY GuestEffect
<1>2. OnlyRequests'
  <2>1. CASE toGuest # <<>> /\ toGuest' = Tail(toGuest)
    <3>1. \A i \in 1..Len(toGuest') : i + 1 \in 1..Len(toGuest) /\ toGuest'[i] = toGuest[i + 1]
      BY <2>1, TailElements DEF ChannelTypeOK
    <3> QED BY <3>1 DEF OnlyRequests
  <2>2. CASE UNCHANGED toGuest
    BY <2>2 DEF OnlyRequests
  <2> QED BY <2>1, <2>2, GuestEffect DEF Steady, Takes, Starts, Ends, Answers
<1>3. OfText(toHost')
  <2>1. CASE UNCHANGED toHost
    BY <2>1
  <2>2. CASE Answers
    <3>1. PICK m \in ToHostMessage : SendToHost(m) /\ (m.type = "audio" => m.text \in Text)
      BY <2>2 DEF Answers
    <3>2. toHost \in Seq(ToHostMessage) /\ toHost' = Append(toHost, m)
      BY <3>1 DEF SendToHost, ChannelTypeOK
    <3> QED BY <3>1, <3>2, AppendElements DEF OfText
  <2> QED BY <2>1, <2>2, GuestEffect DEF Steady, Takes, Starts, Ends
<1> QED BY <1>1, <1>2, <1>3

------------------------------------------------------------------------------
(* The driver: frames and generations. *)

\* The driver writes requests only, and moves frames without changing them.
LEMMA DriverKeepsWire ==
  ASSUME ChannelTypeOK, DriverTypeOK, DriverTyped, OnlyRequests, OfText(toHost),
         OfText(messages), DriverAction
  PROVE  ChannelTypeOK' /\ OnlyRequests' /\ OfText(toHost)' /\ OfText(messages)'
<1>1. ASSUME NEW m \in ToGuestMessage, SendToGuest(m),
             m.type = "cancel" \/ (m.type = "speak" /\ m.text \in Text)
      PROVE  /\ toGuest' \in Seq(ToGuestMessage) /\ Len(toGuest') <= ToGuestCap
             /\ OnlyRequests'
  BY <1>1, AppendElements, ChannelAssumption DEF SendToGuest, ChannelTypeOK,
     OnlyRequests
<1>2. toGuest' \in Seq(ToGuestMessage) /\ Len(toGuest') <= ToGuestCap /\ OnlyRequests'
  <2>1. CASE UNCHANGED toGuest
    BY <2>1 DEF ChannelTypeOK, OnlyRequests
  <2>2. CASE driverPc = "send" /\ SendToGuest(Speak(CurrentText))
    BY <1>1, <2>2, CurrentTextIs, FramesTyped
  <2>3. CASE userActive # None /\ SendToGuest(Cancel(userActive))
    <3>1. userActive \in Nat
      BY <2>3 DEF DriverTypeOK
    <3> QED BY <1>1, <2>3, <3>1, FramesTyped
  <2> QED BY <2>1, <2>2, <2>3, DriverWrites
<1>3. toHost' \in Seq(ToHostMessage) /\ OfText(toHost') /\ OfText(messages')
  <2>1. toHost \in Seq(ToHostMessage) /\ messages \in Seq(ToHostMessage)
    BY DEF ChannelTypeOK, DriverTypeOK
  <2>2. CASE ReadFrame
    <3>1. /\ toHost # <<>> /\ toHost' = Tail(toHost)
          /\ messages' = Append(messages, Head(toHost))
      BY <2>2 DEF ReadFrame
    <3>2. /\ toHost' \in Seq(ToHostMessage)
          /\ \A i \in 1..Len(toHost') : toHost'[i] = toHost[i + 1]
          /\ Len(toHost') = Len(toHost) - 1 /\ Len(toHost) \in Nat
          /\ Head(toHost) = toHost[1] /\ Head(toHost) \in ToHostMessage
      BY <2>1, <3>1, TailElements
    <3>20. /\ OfText(toHost')
           /\ Head(toHost).type = "audio" => Head(toHost).text \in Text
      BY <3>2 DEF OfText
    <3>3. OfText(messages')
      BY <2>1, <3>1, <3>2, <3>20, AppendElements DEF OfText
    <3> QED BY <3>2, <3>20, <3>3
  <2>3. CASE UNCHANGED <<toHost, messages>>
    BY <2>1, <2>3
  <2>4. CASE AwaitMessage
    <3>1. toHost' = toHost /\ messages # <<>> /\ messages' = Tail(messages)
      BY <2>4 DEF AwaitMessage, channelVars
    <3>2. OfText(messages')
      BY <2>1, <3>1, TailElements DEF OfText
    <3> QED BY <2>1, <3>1, <3>2
  <2> QED BY <2>2, <2>3, <2>4, DriverReads
<1> QED BY <1>2, <1>3 DEF ChannelTypeOK

\* What the driver writes is never older than what it wrote last.
LEMMA DriverInOrder ==
  ASSUME ChannelTypeOK, DriverTypeOK, DriverTyped, GenerationsSound, CancelsOlder,
         DriverAction,
         latest' = IF Wrote THEN Written.gen ELSE latest
  PROVE  /\ UNCHANGED toGuest => latest' = latest
         /\ driverPc = "send" /\ SendToGuest(Speak(CurrentText)) =>
              Wrote /\ Written.gen = current.gen /\ latest' = current.gen /\ latest <= current.gen
         /\ userPc = "send" /\ userActive # None /\ SendToGuest(Cancel(userActive)) =>
              Wrote /\ Written.gen = userActive /\ latest' = userActive /\ latest <= userActive
                /\ userActive \in 1..(currentGeneration - 1)
<1>1. UNCHANGED toGuest => latest' = latest
  BY WroteIs
<1>2. ASSUME driverPc = "send", SendToGuest(Speak(CurrentText))
      PROVE  /\ Wrote /\ Written.gen = current.gen /\ latest' = current.gen
             /\ latest <= current.gen
  <2>1. Wrote /\ Written = Speak(CurrentText) /\ Written.gen = current.gen
    BY <1>2, WroteIs, CurrentTextIs, FramesTyped
  <2>2. latest <= current.gen
    BY <1>2 DEF GenerationsSound, Busy
  <2> QED BY <2>1, <2>2
<1>3. ASSUME userPc = "send", userActive # None, SendToGuest(Cancel(userActive))
      PROVE  Wrote /\ Written.gen = userActive /\ latest' = userActive /\ latest <= userActive
               /\ userActive \in 1..(currentGeneration - 1)
  <2>1. userActive \in 1..MaxGen /\ userActive \in Nat /\ currentGeneration \in 1..MaxGen
    BY <1>3 DEF DriverTypeOK
  <2>2. Wrote /\ Written = Cancel(userActive) /\ Written.gen = userActive
    BY <1>3, <2>1, WroteIs, FramesTyped
  <2>3. latest <= userActive /\ userActive < currentGeneration
    BY <1>3 DEF CancelsOlder
  <2> QED BY <2>1, <2>2, <2>3
<1> QED BY <1>1, <1>2, <1>3

\* No action of the driver brings the generations out of order.
LEMMA DriverKeepsGenerations ==
  ASSUME ChannelTypeOK, DriverTypeOK, DriverTyped, GenerationsSound, CancelsOlder,
         DriverAction,
         latest \in Nat,
         latest' = IF Wrote THEN Written.gen ELSE latest
  PROVE  latest' \in Nat /\ GenerationsSound' /\ CancelsOlder'
<1>0. /\ \A i \in 1..Len(jobs) : jobs[i] # None => jobs[i].gen \in 1..MaxGen
      /\ jobs \in Seq(JobRecord \cup {None}) /\ currentGeneration \in 1..MaxGen
      /\ driverPc \in HasJob => current \in JobRecord /\ current.gen \in 1..MaxGen
      /\ driverActive \in 1..MaxGen \cup {None} /\ userActive \in 1..MaxGen \cup {None}
      /\ None \notin Nat /\ MaxGen \in Nat
  BY NoneAssumption, DriverAssumption DEF DriverTypeOK, DriverTyped, JobRecord
<1>00. UNCHANGED toGuest => latest' = latest
  BY DriverInOrder
<1> USE <1>0 DEF GenerationsSound, CancelsOlder, HasJob, Busy,
    userVars, renderVars, playerVars, Rest, UserGoto, DriverGoto, channelVars
<1>1. ASSUME NEW u \in Utterance, SpeakUtterance(u)
      PROVE latest' \in Nat /\ GenerationsSound' /\ CancelsOlder'
  BY <1>00, <1>1, AppendElements DEF SpeakUtterance, Job
<1>2. CASE Pause
  BY <1>00, <1>2 DEF Pause
<1>3. CASE Terminate
  BY <1>00, <1>3 DEF Terminate
<1>4. CASE BeginCancel
  <2>1. currentGeneration < MaxGen /\ userPc' = "send"
    <3>1. CASE stopping
      BY <1>4, <3>1 DEF BeginCancel
    <3>2. CASE ~stopping
      <4>1. currentGeneration < MaxGen - Spare /\ userPc' = "send"
        BY <1>4, <3>2 DEF BeginCancel
      <4> QED BY <4>1, DriverAssumption
    <3> QED BY <3>1, <3>2
  <2>2. currentGeneration' = currentGeneration + 1
    BY <1>4, <2>1, NextGenerationIs DEF BeginCancel
  <2>3. /\ latest' = latest /\ userActive' = driverActive
        /\ UNCHANGED <<jobs, driverPc, driverActive, current>>
    BY <1>4, <1>00 DEF BeginCancel
  <2> QED BY <2>1, <2>2, <2>3
<1>5. CASE SendCancel
  <2>1. /\ userPc = "send" /\ userPc' = "drain"
        /\ UNCHANGED <<stopping, currentGeneration, jobs, driverPc, driverActive,
                       current>>
        /\ UNCHANGED toGuest \/ (userActive # None /\ SendToGuest(Cancel(userActive)))
    BY <1>5 DEF SendCancel
  <2>2. latest' = latest \/ (userActive # None /\ latest' = userActive)
    BY <2>1, DriverInOrder
  <2> QED BY <2>1, <2>2
<1>6. CASE DrainJobs
  <2>1. /\ UNCHANGED <<stopping, currentGeneration, driverPc, driverActive, current>>
        /\ userPc' # "send" /\ userPc' # "read" /\ latest' = latest
    BY <1>6, <1>00 DEF DrainJobs
  <2>2. CASE jobs # <<>>
    <3>1. jobs' = Tail(jobs)
      BY <1>6, <2>2 DEF DrainJobs
    <3>2. \A i \in 1..Len(jobs') : i + 1 \in 1..Len(jobs) /\ jobs'[i] = jobs[i + 1]
      BY ONLY <1>0, <2>2, <3>1, TailElements
    <3> QED BY <2>1, <3>2
  <2>3. CASE jobs = <<>>
    BY <1>6, <2>1, <2>3 DEF DrainJobs
  <2> QED BY <2>2, <2>3
<1>7. CASE StopPlayer
  BY <1>00, <1>7 DEF StopPlayer
<1>8. CASE PutSentinel
  BY <1>00, <1>8, AppendElements DEF PutSentinel
<1>9. CASE JoinDriver
  BY <1>00, <1>9 DEF JoinDriver
<1>10. CASE JoinTimesOut
  BY <1>00, <1>10 DEF JoinTimesOut
<1>11. CASE ReadFrame
  BY <1>00, <1>11 DEF ReadFrame
<1>12. CASE TestStopping
  BY <1>00, <1>12 DEF TestStopping
<1>13. CASE NextJob
  BY <1>00, <1>13, TailElements DEF NextJob
<1>14. CASE CheckJob
  BY <1>00, <1>14 DEF CheckJob, IfCurrent
<1>15. CASE EnterRender
  BY <1>00, <1>15 DEF EnterRender
<1>16. CASE NextEvent
  BY <1>00, <1>16 DEF NextEvent, IfCurrent
<1>17. CASE NotifyIndex
  BY <1>00, <1>17 DEF NotifyIndex
<1>18. CASE AlreadyRunning
  BY <1>00, <1>18 DEF AlreadyRunning
<1>19. CASE SendSpeak
  <2>1. CASE running
    <3>1. /\ driverPc = "send" /\ driverPc' = "await" /\ SendToGuest(Speak(CurrentText))
          /\ UNCHANGED <<userPc, userActive, stopping, currentGeneration, jobs,
                         driverActive, current>>
      BY <1>19, <2>1 DEF SendSpeak
    <3>2. latest' = current.gen
      BY <3>1, DriverInOrder
    <3> QED BY <3>1, <3>2
  <2>2. CASE ~running
    BY <1>19, <1>00, <2>2 DEF SendSpeak
  <2> QED BY <2>1, <2>2
<1>20. CASE AwaitMessage
  <2> DEFINE m == Head(messages)
  <2>1. m \in ToHostMessage
    BY <1>20, TailElements DEF AwaitMessage, DriverTypeOK
  <2>2. /\ driverPc' \in {"restart", "await", "feed", "settle", "leave"}
        /\ driverPc = "await"
        /\ UNCHANGED <<toGuest, userPc, userActive, stopping, currentGeneration, jobs,
                       driverActive, current>>
    BY <1>20, <2>1 DEF AwaitMessage, ToHostMessage
  <2> QED BY <1>00, <2>2
<1>21. CASE FeedPlayer
  BY <1>00, <1>21 DEF FeedPlayer
<1>22. CASE Settle
  BY <1>00, <1>22 DEF Settle, IfCurrent
<1>23. CASE IdlePlayer
  BY <1>00, <1>23 DEF IdlePlayer
<1>24. CASE Finish
  BY <1>00, <1>24 DEF Finish, IfCurrent
<1>25. CASE AnnounceDone
  BY <1>00, <1>25 DEF AnnounceDone
<1>26. CASE LeaveRender
  BY <1>00, <1>26 DEF LeaveRender
<1>27. CASE AwaitTimesOut
  BY <1>00, <1>27 DEF AwaitTimesOut
<1> QED
  BY <1>1, <1>2, <1>3, <1>4, <1>5, <1>6, <1>7, <1>8, <1>9, <1>10, <1>11, <1>12,
     <1>13, <1>14, <1>15, <1>16, <1>17, <1>18, <1>19, <1>20, <1>21, <1>22,
     <1>23, <1>24, <1>25, <1>26, <1>27 DEF DriverAction, UserCall, UserEnds,
     UserStep, DriverStep

------------------------------------------------------------------------------
(* The inductive invariant of the composition. *)

\* The current generation grows by one or stays.
LEMMA GenerationGrows ==
  ASSUME DriverTypeOK, CancelsOlder, DriverAction
  PROVE  /\ currentGeneration \in Nat
         /\ currentGeneration' \in {currentGeneration, currentGeneration + 1}
<1> USE DEF channelVars, userVars, renderVars, playerVars, Rest, UserGoto, DriverGoto
<1>1. CASE BeginCancel
  <2>1. currentGeneration < MaxGen
    <3>1. CASE stopping
      BY <1>1, <3>1 DEF BeginCancel, CancelsOlder
    <3>2. CASE ~stopping
      <4>1. currentGeneration < MaxGen - Spare
        BY <1>1, <3>2 DEF BeginCancel
      <4> QED BY <4>1, DriverAssumption DEF DriverTypeOK
    <3> QED BY <3>1, <3>2
  <2> QED BY <1>1, <2>1, NextGenerationIs, DriverAssumption DEF BeginCancel,
     DriverTypeOK
<1>2. CASE ~BeginCancel
  <2>1. UNCHANGED currentGeneration
    BY <1>2 DEF DriverAction, UserCall, UserEnds, UserStep, DriverStep,
       SpeakUtterance, Pause, Terminate, DrainJobs, StopPlayer, PutSentinel,
       JoinDriver, JoinTimesOut, ReadFrame, TestStopping, NextJob, CheckJob,
       EnterRender, NextEvent, NotifyIndex, AlreadyRunning, AwaitMessage,
       FeedPlayer, Settle, IdlePlayer, Finish, AnnounceDone, LeaveRender,
       AwaitTimesOut, SendSpeak, SendCancel
  <2> QED BY <2>1, DriverAssumption DEF DriverTypeOK
<1> QED BY <1>1, <1>2

\* So the driver is a host that GuestProofs' helper may have.
LEMMA DriverKeepsSound ==
  ASSUME BaseInv, DriverAction, UNCHANGED guestVars,
         latest' = IF Wrote THEN Written.gen ELSE latest
  PROVE  GuestSound'
<1>1. ASSUME running PROVE G!IInv'
  <2>0. /\ G!IInv /\ currentGeneration \in Nat /\ currentGeneration' \in Nat
        /\ currentGeneration <= currentGeneration'
    BY <1>1, GenerationGrows DEF BaseInv, GuestSound, TypeOK
  <2>1. CASE UNCHANGED toGuest
    <3>1. latest' = latest
      BY <2>1, DriverInOrder DEF BaseInv, TypeOK
    <3>2. toHost' = toHost \/ (toHost # <<>> /\ toHost' = Tail(toHost))
      BY DriverReads DEF ReadFrame, AwaitMessage, channelVars
    <3> QED BY <2>0, <2>1, <3>1, <3>2, ReadKeepsSound
  <2>2. CASE /\ driverPc = "send" /\ SendToGuest(Speak(CurrentText))
             /\ UNCHANGED <<toHost, currentGeneration>>
    <3> DEFINE m == Speak(CurrentText)
    <3>1. latest' = current.gen /\ latest <= current.gen
      BY <2>2, DriverInOrder DEF BaseInv, TypeOK
    <3>2. /\ m \in ToGuestMessage /\ m.type = "speak" /\ m.gen = current.gen
          /\ m.gen = GenOf[m.text]
      BY <2>2, CurrentTextIs, FramesTyped DEF BaseInv, TypeOK
    <3> HIDE DEF m
    <3>3. SendToGuest(m) /\ UNCHANGED <<toHost, currentGeneration>>
      BY <2>2 DEF m
    <3> QED BY <2>0, <3>1, <3>2, <3>3, WriteKeepsSound
  <2>3. CASE /\ userPc = "send" /\ userActive # None /\ SendToGuest(Cancel(userActive))
             /\ UNCHANGED <<toHost, currentGeneration>>
    <3> DEFINE m == Cancel(userActive)
    <3>1. /\ latest' = userActive /\ latest <= userActive
          /\ userActive \in 1..(currentGeneration - 1)
      BY <2>3, DriverInOrder DEF BaseInv, TypeOK
    <3>2. /\ m \in ToGuestMessage /\ m.type = "cancel" /\ m.gen = userActive
          /\ m.text = NoText
      BY <3>1, FramesTyped
    <3> HIDE DEF m
    <3>3. SendToGuest(m) /\ UNCHANGED <<toHost, currentGeneration>>
      BY <2>3 DEF m
    <3> QED BY <2>0, <3>1, <3>2, <3>3, WriteKeepsSound
  <2> QED BY <2>1, <2>2, <2>3, DriverWrites
<1> QED BY <1>1, DriverReads DEF GuestSound

\* The four kinds of step keep the inductive invariant: the driver's,
LEMMA DriverKeepsBase ==
  ASSUME BaseInv, DriverAction, UNCHANGED guestVars,
         latest' = IF Wrote THEN Written.gen ELSE latest
  PROVE  /\ ChannelTypeOK' /\ GuestTypeOK' /\ DriverTypeOK' /\ latest' \in 0..MaxGen
         /\ DriverTyped'
         /\ OnlyRequests' /\ NeverEnding' /\ OfText(toHost)' /\ OfText(messages)'
         /\ GenerationsSound' /\ CancelsOlder' /\ GuestSound'
<1>1. ChannelTypeOK /\ GuestTypeOK /\ DriverTypeOK /\ latest \in Nat
  BY DriverAssumption DEF BaseInv, TypeOK
<1>2. DriverTypeOK' /\ DriverTyped'
  BY <1>1, DriverKeepsTypes DEF BaseInv
<1>3. ChannelTypeOK' /\ OnlyRequests' /\ OfText(toHost)' /\ OfText(messages)'
  BY <1>1, DriverKeepsWire DEF BaseInv
<1>4. latest' \in Nat /\ GenerationsSound' /\ CancelsOlder'
  BY <1>1, DriverKeepsGenerations DEF BaseInv
<1>5. latest' \in 0..MaxGen
  BY <1>2, <1>4, DriverAssumption DEF GenerationsSound, DriverTypeOK
<1>6. GuestTypeOK' /\ NeverEnding'
  <2>1. EngineOK'
    BY <1>1, EngineSame DEF GuestTypeOK, guestVars, workerVars
  <2> QED BY <1>1, <2>1 DEF BaseInv, GuestTypeOK, NeverEnding, guestVars,
     mainVars, workerVars, sharedVars
<1>7. GuestSound'
  BY DriverKeepsSound
<1> QED BY <1>2, <1>3, <1>4, <1>5, <1>6, <1>7

\* the helper's,
LEMMA GuestKeepsBase ==
  ASSUME BaseInv, running, GuestAction, UNCHANGED <<driverVars, latest>>
  PROVE  /\ ChannelTypeOK' /\ GuestTypeOK' /\ DriverTypeOK' /\ latest' \in 0..MaxGen
         /\ DriverTyped'
         /\ OnlyRequests' /\ NeverEnding' /\ OfText(toHost)' /\ OfText(messages)'
         /\ GenerationsSound' /\ CancelsOlder' /\ GuestSound'
<1>1. ChannelTypeOK /\ GuestTypeOK /\ DriverTypeOK /\ latest \in 0..MaxGen /\ G!IInv
  BY DEF BaseInv, TypeOK, GuestSound
<1>2. UNCHANGED <<userPc, userActive, stopping, currentGeneration, jobs, driverPc,
                  driverActive,
                  current, pos, hand, messages, running, paused, buffered, spokenAs, latest>>
  BY DEF driverVars, userVars, renderVars, playerVars
<1>3. DriverTypeOK' /\ DriverTyped'
  BY <1>1, <1>2 DEF BaseInv, DriverTypeOK, DriverTyped, Event
<1>4. OnlyRequests' /\ NeverEnding' /\ OfText(toHost)' /\ OfText(messages)'
  BY <1>1, <1>2, GuestKeepsWire DEF BaseInv
<1>5. GenerationsSound' /\ CancelsOlder'
  BY <1>2 DEF BaseInv, GenerationsSound, CancelsOlder
<1>6. G!IInv'
  BY <1>1, <1>2, GuestKeepsSound DEF GuestAction
<1>7. ChannelTypeOK' /\ GuestTypeOK'
  <2>1. G!ChannelTypeOK' /\ G!GuestTypeOK'
    BY <1>6 DEF G!IInv, G!TypeOK
  <2>2. ChannelTypeOK'
    BY <2>1 DEF ChannelTypeOK, G!ChannelTypeOK, ToGuestMessage,
       G!ToGuestMessage, ToHostMessage, G!ToHostMessage, Maybe, G!Maybe
  <2>30. EngineOK' <=> G!EngineOK'
    BY Zenon DEF EngineOK, G!EngineOK
  <2>3. GuestTypeOK'
    BY <2>1, <2>30, Zenon DEF GuestTypeOK, G!GuestTypeOK, MainPc, G!MainPc, WorkerPc,
       G!WorkerPc, Maybe, G!Maybe, Engaged, G!Engaged
  <2> QED BY <2>2, <2>3
<1> QED BY <1>1, <1>2, <1>3, <1>4, <1>5, <1>6, <1>7 DEF GuestSound

\* the start and the stop of a helper,
LEMMA FreshKeepsBase ==
  ASSUME BaseInv, StartHelper \/ StopHelper
  PROVE  /\ ChannelTypeOK' /\ GuestTypeOK' /\ DriverTypeOK' /\ latest' \in 0..MaxGen
         /\ DriverTyped'
         /\ OnlyRequests' /\ NeverEnding' /\ OfText(toHost)' /\ OfText(messages)'
         /\ GenerationsSound' /\ CancelsOlder' /\ GuestSound'
<1>1. FreshHelper /\ UNCHANGED <<userPc, userActive, stopping, currentGeneration, jobs,
                                 driverActive,
                  current, pos, hand, paused, buffered, spokenAs>>
  BY DEF StartHelper, StopHelper, userVars, playerVars
<1>2. \/ driverPc = "coldstart" /\ driverPc' = "loop"
      \/ driverPc = "boot" /\ driverPc' = "send"
      \/ driverPc = "reboot" /\ driverPc' = "leave"
      \/ driverPc = "restart" /\ driverPc' = "reboot"
  BY DEF StartHelper, StopHelper, DriverGoto
<1>3. running' \in BOOLEAN
  BY Zenon DEF StartHelper, StopHelper
<1>4. ChannelTypeOK' /\ GuestTypeOK' /\ G!IInv'
  BY <1>1, FreshSound
<1>5. toGuest' = <<>> /\ toHost' = <<>> /\ messages' = <<>> /\ latest' = 0
      /\ mainPc' = "read" /\ ending' = 0 /\ shuttingDown' = FALSE
  BY <1>1 DEF FreshHelper
<1>6. OnlyRequests' /\ NeverEnding' /\ OfText(toHost)' /\ OfText(messages)'
  BY <1>5 DEF OnlyRequests, NeverEnding, OfText
<1>7. DriverTypeOK' /\ DriverTyped' /\ latest' \in 0..MaxGen
  BY <1>1, <1>2, <1>3, <1>5, DriverAssumption DEF BaseInv, TypeOK, DriverTypeOK,
     DriverTyped, Event, HasJob, Busy, AtEvent, Rendering, Handing, DriverPc
<1>8. GenerationsSound' /\ CancelsOlder'
  BY <1>1, <1>2, <1>5, NoneAssumption, DriverAssumption DEF BaseInv,
     GenerationsSound, CancelsOlder, HasJob, Busy, TypeOK, DriverTypeOK
<1> QED BY <1>4, <1>6, <1>7, <1>8 DEF GuestSound

\* and a start that fails or a helper that dies.
LEMMA FailureKeepsBase ==
  ASSUME BaseInv, StartFails \/ HelperDies
  PROVE  /\ ChannelTypeOK' /\ GuestTypeOK' /\ DriverTypeOK' /\ latest' \in 0..MaxGen
         /\ DriverTyped'
         /\ OnlyRequests' /\ NeverEnding' /\ OfText(toHost)' /\ OfText(messages)'
         /\ GenerationsSound' /\ CancelsOlder' /\ GuestSound'
<1>0. UNCHANGED <<guestVars, userPc, userActive, stopping, currentGeneration, jobs,
                  driverActive,
                  current, pos, hand, messages, paused, buffered, spokenAs, latest>>
  BY DEF StartFails, HelperDies, userVars, renderVars, playerVars
<1>1. GuestTypeOK' /\ NeverEnding'
  <2>1. EngineOK'
    BY <1>0, EngineSame DEF BaseInv, TypeOK, GuestTypeOK, guestVars, workerVars
  <2> QED BY <1>0, <2>1 DEF BaseInv, TypeOK, GuestTypeOK, NeverEnding,
     guestVars, mainVars, workerVars, sharedVars
<1>2. CASE StartFails
  <2>1. \/ driverPc = "coldstart" /\ driverPc' = "loop"
        \/ driverPc = "boot" /\ driverPc' = "leave"
        \/ driverPc = "reboot" /\ driverPc' = "leave"
    BY <1>2 DEF StartFails, DriverGoto
  <2>2. UNCHANGED <<toGuest, toHost, running>>
    BY <1>2 DEF StartFails, channelVars
  <2>3. ChannelTypeOK' /\ OnlyRequests' /\ OfText(toHost)' /\ OfText(messages)'
    BY <1>0, <2>2 DEF BaseInv, TypeOK, ChannelTypeOK, OnlyRequests, OfText
  <2>4. DriverTypeOK' /\ DriverTyped' /\ latest' \in 0..MaxGen
    BY <1>0, <2>1, <2>2 DEF BaseInv, TypeOK, DriverTypeOK, DriverTyped, Event,
       HasJob, Busy, AtEvent, Rendering, Handing, DriverPc
  <2>5. GenerationsSound' /\ CancelsOlder'
    BY <1>0, <2>1 DEF BaseInv, GenerationsSound, CancelsOlder, HasJob, Busy
  <2>6. running => G!IInv'
    BY <1>0, <2>2, ReadKeepsSound, DriverAssumption DEF BaseInv, GuestSound,
       TypeOK, DriverTypeOK
  <2> QED BY <1>1, <2>2, <2>3, <2>4, <2>5, <2>6 DEF GuestSound
<1>3. CASE HelperDies
  <2>1. driverPc' = driverPc /\ toGuest' = <<>> /\ toHost' = Append(toHost, Eof)
    BY <1>3 DEF HelperDies, renderVars
  <2>2. running' = FALSE
    BY <1>3 DEF HelperDies
  <2>3. toHost' \in Seq(ToHostMessage) /\ OfText(toHost)'
    BY <2>1, FramesTyped, AppendElements DEF BaseInv, TypeOK, ChannelTypeOK,
       OfText
  <2>4. ChannelTypeOK' /\ OnlyRequests' /\ OfText(messages)'
    BY <1>0, <2>1, <2>3, ChannelAssumption DEF BaseInv, ChannelTypeOK,
       OnlyRequests, OfText
  <2>5. running' \in BOOLEAN
    BY <2>2
  <2>6. DriverTypeOK' /\ DriverTyped' /\ latest' \in 0..MaxGen
    BY <1>0, <2>1, <2>5 DEF BaseInv, TypeOK, DriverTypeOK, DriverTyped, Event
  <2>7. GenerationsSound' /\ CancelsOlder'
    BY <1>0, <2>1 DEF BaseInv, GenerationsSound, CancelsOlder
  <2> QED BY <1>1, <2>2, <2>3, <2>4, <2>6, <2>7 DEF GuestSound
<1> QED BY <1>2, <1>3

------------------------------------------------------------------------------
(* What it gives. *)

\* The invariant holds at the start,
LEMMA BaseInitial == Init => BaseInv
<1> SUFFICES ASSUME Init PROVE BaseInv OBVIOUS
<1> USE ChannelAssumption, VoiceAssumption, DriverAssumption, MishapAssumption
<1>1. /\ toGuest = <<>> /\ toHost = <<>> /\ messages = <<>> /\ jobs = <<>>
      /\ mainPc = "read" /\ target = 0 /\ ending = 0 /\ pendingJob = NoText
      /\ activeGeneration = 0 /\ workerPc = "check" /\ job = NoText
      /\ synth = NoVoice /\ currentLanguage = NoVoice /\ currentModel = NoVoice
      /\ offset = 0
      /\ userPc = "idle" /\ userActive = None /\ driverPc = "coldstart"
      /\ driverActive = None
      /\ current = None /\ pos = 1 /\ buffered = None /\ latest = 0 /\ mishaps = 0
      /\ currentGeneration = NextGeneration(0) /\ spokenAs = [u \in Utterance |-> 0]
  BY Zenon DEF Init, ChannelInit, GuestInit, DriverInit
<1>2. /\ shuttingDown = FALSE /\ running = FALSE
      /\ cancelling \in BOOLEAN /\ succeeded \in BOOLEAN /\ stopping \in BOOLEAN
      /\ paused \in BOOLEAN
  BY Zenon DEF Init, GuestInit, DriverInit
<1>20. /\ shuttingDown \in BOOLEAN /\ running \in BOOLEAN /\ cancelling \in BOOLEAN
       /\ succeeded \in BOOLEAN /\ stopping \in BOOLEAN /\ paused \in BOOLEAN
  BY Zenon DEF Init, GuestInit, DriverInit
<1>3. currentGeneration = 1 /\ MaxGen \in Nat /\ 1 <= MaxGen
  <2>1. currentGeneration = NextGeneration(0)
    BY <1>1
  <2> QED BY ONLY <2>1, NextGenerationIs, DriverAssumption DEF NextGeneration
<1>4. ChannelTypeOK
  BY <1>1 DEF ChannelTypeOK
<1>50. EngineOK
  BY <1>1 DEF EngineOK
<1>51. /\ mainPc = "read" /\ target = 0 /\ ending = 0 /\ pendingJob = NoText
       /\ activeGeneration = 0 /\ workerPc = "check" /\ job = NoText
       /\ offset = 0
  BY <1>1
<1>5. GuestTypeOK
  BY ONLY <1>51, <1>20, <1>50, ChannelAssumption DEF GuestTypeOK, MainPc, WorkerPc,
     Engaged, Maybe
<1>6. DriverTypeOK
  BY ONLY <1>1, <1>20, <1>3, DriverAssumption DEF DriverTypeOK, UserPc,
     DriverPc, Rendering, Handing
<1>7. DriverTyped
  BY <1>1 DEF DriverTyped, HasJob, Busy, AtEvent
<1>8. OnlyRequests /\ NeverEnding /\ OfText(toHost) /\ OfText(messages)
  BY <1>1, <1>2 DEF OnlyRequests, NeverEnding, OfText
<1>9. GenerationsSound /\ CancelsOlder
  BY <1>1, <1>3 DEF GenerationsSound, CancelsOlder, HasJob, Busy
<1>10. GuestSound
  BY <1>2 DEF GuestSound
<1> QED BY <1>1, <1>3, <1>4, <1>5, <1>6, <1>7, <1>8, <1>9, <1>10 DEF BaseInv,
   TypeOK

\* and every step keeps it.
LEMMA BaseInductive == BaseInv /\ [Next]_vars => BaseInv'
<1> SUFFICES ASSUME BaseInv, [Next]_vars PROVE BaseInv' OBVIOUS
<1>1. CASE Next
  <2>1. mishaps' \in 0..MaxMishaps
    BY <1>1, NextCases, MishapAssumption DEF BaseInv, TypeOK
  <2>2. CASE running /\ GuestAction /\ UNCHANGED <<driverVars, latest>>
    BY <2>1, <2>2, GuestKeepsBase DEF BaseInv, TypeOK
  <2>3. CASE DriverAction /\ UNCHANGED guestVars /\ latest' = IF Wrote THEN Written.gen ELSE latest
    BY <2>1, <2>3, DriverKeepsBase DEF BaseInv, TypeOK
  <2>4. CASE StartHelper \/ StopHelper
    BY <2>1, <2>4, FreshKeepsBase DEF BaseInv, TypeOK
  <2>5. CASE StartFails \/ HelperDies
    BY <2>1, <2>5, FailureKeepsBase DEF BaseInv, TypeOK
  <2> QED BY <1>1, <2>2, <2>3, <2>4, <2>5, NextCases
<1>2. CASE UNCHANGED vars
  <2>1. UNCHANGED <<toGuest, toHost, guestVars, userPc, userActive, stopping,
                    currentGeneration, jobs,
                    driverPc, driverActive, current, pos, hand, messages, running, paused, buffered,
                    spokenAs, latest, mishaps>>
    BY <1>2 DEF vars, channelVars, driverVars, userVars, renderVars, playerVars
  <2>20. EngineOK'
    BY <2>1, EngineSame DEF BaseInv, TypeOK, GuestTypeOK, guestVars, workerVars
  <2>2. TypeOK'
    BY <2>1, <2>20 DEF BaseInv, TypeOK, ChannelTypeOK, GuestTypeOK,
       DriverTypeOK, Event, guestVars, mainVars, workerVars, sharedVars
  <2>3. /\ DriverTyped' /\ OnlyRequests' /\ NeverEnding' /\ OfText(toHost)'
        /\ OfText(messages)'
    BY <2>1 DEF BaseInv, DriverTyped, Event, OnlyRequests, NeverEnding, OfText,
       guestVars, mainVars, workerVars, engine, sharedVars
  <2>4. GenerationsSound' /\ CancelsOlder'
    BY <2>1 DEF BaseInv, GenerationsSound, CancelsOlder
  <2>5. GuestSound'
    BY <2>1, ReadKeepsSound, DriverAssumption DEF BaseInv, GuestSound, TypeOK,
       DriverTypeOK
  <2> QED BY <2>2, <2>3, <2>4, <2>5 DEF BaseInv
<1> QED BY <1>1, <1>2

\* Every variable of the three programs keeps its type, the queues their
\* sizes and the generations their range, for any utterances and bounds.
THEOREM SystemTypes == Spec => []TypeOK
<1>1. BaseInv => TypeOK
  BY DEF BaseInv
<1> QED BY <1>1, BaseInitial, BaseInductive, PTL DEF Spec

\* The flag that silences the engine is never up against the utterance that
\* is wanted, however many calls, cancellations and helpers there have been:
\* the cancellation decided under _generationLock is sent after it
\* (samsungTVVoices.py:593-596) and carried out in three steps by the guest
\* (samsung_guest.cpp:241-244).
THEOREM CancelsAlwaysOnlyUnwanted == Spec => []CancelsOnlyUnwanted
<1>1. BaseInv => CancelsOnlyUnwanted
  <2> SUFFICES ASSUME BaseInv, workerPc \in Engaged, cancelling, running, ~shuttingDown,
                      IsCurrent(GenOf[job])
               PROVE  FALSE
    BY DEF CancelsOnlyUnwanted
  <2>1. GenOf[job] \in 1 .. (currentGeneration - 1)
    BY DEF BaseInv, GuestSound, G!IInv, G!Guarded, G!SparesOthers, G!Engaged,
       Engaged
  <2> QED BY <2>1, DriverAssumption DEF IsCurrent, BaseInv, TypeOK, DriverTypeOK
<1> QED BY <1>1, BaseInitial, BaseInductive, PTL DEF Spec

\* The frames a helper gets are in the order of their generations, from two
\* threads that write without a common lock over the decision
\* (samsungTVVoices.py:588-596, 659): the premise of GuestProofs.
THEOREM DisciplineKept == Spec => KeepsDiscipline
<1>1. BaseInv /\ [Next]_vars => [Wrote => Written.gen >= latest]_vars
  <2> SUFFICES ASSUME BaseInv, Next, Wrote PROVE Written.gen >= latest
    OBVIOUS
  <2>0. ChannelTypeOK /\ DriverTypeOK /\ DriverTyped /\ GenerationsSound /\ CancelsOlder
    BY DEF BaseInv, TypeOK
  <2>1. CASE running /\ GuestAction /\ UNCHANGED <<driverVars, latest>>
    <3>1. UNCHANGED toGuest \/ (toGuest # <<>> /\ toGuest' = Tail(toGuest))
      BY <2>1, GuestEffect DEF BaseInv, TypeOK, Steady, Takes, Starts, Ends,
         Answers
    <3> QED BY <2>0, <3>1, TailElements DEF Wrote, ChannelTypeOK
  <2>2. CASE DriverAction /\ UNCHANGED guestVars /\ latest' = IF Wrote THEN Written.gen ELSE latest
    <3>1. CASE UNCHANGED toGuest
      BY <2>0, <3>1, WroteIs
    <3>2. CASE driverPc = "send" /\ SendToGuest(Speak(CurrentText))
      <4>1. Written.gen = current.gen /\ latest <= current.gen
        BY <2>0, <2>2, <3>2, DriverInOrder
      <4> QED BY <2>0, <3>2, <4>1, CurrentTextIs DEF BaseInv, TypeOK
    <3>3. CASE userPc = "send" /\ userActive # None /\ SendToGuest(Cancel(userActive))
      <4>1. /\ Written.gen = userActive /\ latest <= userActive
            /\ userActive \in 1 .. (currentGeneration - 1)
        BY <2>0, <2>2, <3>3, DriverInOrder
      <4> QED BY <4>1, DriverAssumption DEF BaseInv, TypeOK
    <3> QED BY <2>2, <3>1, <3>2, <3>3, DriverWrites
  <2>3. CASE StartHelper \/ StopHelper \/ HelperDies
    <3>1. toGuest' = <<>>
      BY <2>3 DEF StartHelper, StopHelper, HelperDies, FreshHelper
    <3> QED BY <2>0, <3>1 DEF Wrote, ChannelTypeOK
  <2>4. CASE StartFails
    BY <2>0, <2>4, WroteIs DEF StartFails, channelVars
  <2> QED BY <2>1, <2>2, <2>3, <2>4, NextCases
<1> QED BY <1>1, BaseInitial, BaseInductive, PTL DEF Spec, KeepsDiscipline

------------------------------------------------------------------------------
(* Announcements: every utterance is begun once. *)

\* The queue is appended to or loses its head.
LEMMA QueueEffect ==
  ASSUME DriverAction
  PROVE  \/ UNCHANGED <<jobs, spokenAs>>
         \/ \E u \in Utterance :
              /\ spokenAs[u] = 0 /\ jobs' = Append(jobs, Job(currentGeneration, u))
              /\ spokenAs' = [spokenAs EXCEPT ![u] = currentGeneration]
         \/ jobs' = Append(jobs, None) /\ UNCHANGED spokenAs
         \/ jobs # <<>> /\ jobs' = Tail(jobs) /\ UNCHANGED spokenAs
<1> USE DEF channelVars, userVars, renderVars, playerVars, Rest, UserGoto, DriverGoto
<1>1. ASSUME NEW u \in Utterance, SpeakUtterance(u)
      PROVE  /\ spokenAs[u] = 0 /\ jobs' = Append(jobs, Job(currentGeneration, u))
             /\ spokenAs' = [spokenAs EXCEPT ![u] = currentGeneration]
  BY <1>1 DEF SpeakUtterance
<1>2. PutSentinel => jobs' = Append(jobs, None) /\ UNCHANGED spokenAs
  BY DEF PutSentinel
<1>3. NextJob \/ DrainJobs => UNCHANGED <<jobs,
                                          /\ spokenAs>> \/ (jobs # <<>>
                                          /\ jobs' = Tail(jobs)
                                          /\ UNCHANGED spokenAs)
  BY DEF NextJob, DrainJobs
<1>4. CASE /\ DriverAction /\ ~(\E u \in Utterance : SpeakUtterance(u))
           /\ ~PutSentinel /\ ~NextJob /\ ~DrainJobs
  <2>1. UNCHANGED <<jobs, spokenAs>>
    BY <1>4 DEF DriverAction, UserCall, UserEnds, UserStep, DriverStep, Pause,
       BeginCancel, Terminate, StopPlayer, JoinDriver, JoinTimesOut, SendCancel,
       SendSpeak, ReadFrame, TestStopping, CheckJob, EnterRender, NextEvent,
       NotifyIndex, AlreadyRunning, AwaitMessage, FeedPlayer, Settle,
       IdlePlayer, Finish, AnnounceDone, LeaveRender, AwaitTimesOut
  <2> QED BY <2>1
<1> QED BY <1>1, <1>2, <1>3, <1>4

\* Membership of the queue.
LEMMA QueuedIs ==
  ASSUME NEW u
  PROVE  u \in Queued <=> \E i \in 1..Len(jobs) : jobs[i] # None /\ jobs[i].utt = u
BY DEF Queued

\* An utterance once begun stays so, and is never queued again.
LEMMA BegunGrows ==
  ASSUME DriverTypeOK, DriverTyped, SpokenOnce, DriverAction
  PROVE  SpokenOnce' /\ Begun \subseteq Begun'
<1>0. jobs \in Seq(JobRecord \cup {None}) /\ Len(jobs) \in Nat
  BY DEF DriverTyped
<1>1. CASE UNCHANGED <<jobs, spokenAs>>
  BY <1>1 DEF SpokenOnce, Begun, Queued
<1>2. ASSUME NEW u \in Utterance, spokenAs[u] = 0, jobs' = Append(jobs,
             Job(currentGeneration, u)),
             spokenAs' = [spokenAs EXCEPT ![u] = currentGeneration]
      PROVE  SpokenOnce' /\ Begun \subseteq Begun'
  <2> DEFINE j == Job(currentGeneration, u)
  <2>1. j \in JobRecord \cup {None} /\ j # None /\ j.utt = u /\ currentGeneration > 0
        /\ spokenAs' \in [Utterance -> 0..MaxGen] /\ spokenAs'[u] = currentGeneration
        /\ \A v \in Utterance : v # u => spokenAs'[v] = spokenAs[v]
    BY <1>2, NoneAssumption, DriverAssumption DEF Job, JobRecord, DriverTypeOK
  <2> HIDE DEF j
  <2>2. /\ Len(jobs') = Len(jobs) + 1 /\ \A i \in 1..Len(jobs) : jobs'[i] = jobs[i]
        /\ jobs'[Len(jobs) + 1] = j
        /\ \A i \in 1..Len(jobs') : i \in 1..Len(jobs) \/ i = Len(jobs) + 1
    BY <1>0, <1>2, <2>1, AppendElements DEF j
  <2>3. \A i \in 1..Len(jobs) : jobs[i] # None => jobs[i].utt \in Utterance /\ spokenAs[jobs[i].utt] > 0 /\ jobs[i].utt # u
    BY <1>2, DriverAssumption DEF SpokenOnce, DriverTypeOK
  <2>4. SpokenOnce'
    <3> SUFFICES ASSUME NEW a \in 1..Len(jobs'), NEW b \in 1..Len(jobs')
                 PROVE  /\ jobs'[a] # None => spokenAs'[jobs'[a].utt] > 0
                        /\ a < b /\ jobs'[a] # None /\ jobs'[b] # None => jobs'[a].utt # jobs'[b].utt
      BY DEF SpokenOnce
    <3>1. jobs'[a] # None => spokenAs'[jobs'[a].utt] > 0
      BY <2>1, <2>2, <2>3
    <3>2. ASSUME a < b, jobs'[a] # None, jobs'[b] # None PROVE jobs'[a].utt # jobs'[b].utt
      <4>1. a \in 1..Len(jobs)
        BY <1>0, <2>2, <3>2
      <4>2. CASE b \in 1..Len(jobs)
        BY <2>2, <3>2, <4>1, <4>2 DEF SpokenOnce
      <4>3. CASE b = Len(jobs) + 1
        BY <2>1, <2>2, <2>3, <3>2, <4>1, <4>3
      <4> QED BY <2>2, <4>2, <4>3
    <3> QED BY <3>1, <3>2
  <2>5. Begun \subseteq Begun'
    <3> SUFFICES ASSUME NEW v \in Begun PROVE v \in Begun'
      OBVIOUS
    <3>1. v \in Utterance /\ spokenAs[v] > 0 /\ v # u /\ ~\E i \in 1..Len(jobs) : jobs[i] # None /\ jobs[i].utt = v
      BY <1>2, DriverAssumption DEF Begun, Queued, DriverTypeOK
    <3>2. ~\E i \in 1..Len(jobs') : jobs'[i] # None /\ jobs'[i].utt = v
      BY <2>1, <2>2, <3>1
    <3> QED BY <2>1, <3>1, <3>2 DEF Begun, Queued
  <2> QED BY <2>4, <2>5
<1>3. CASE jobs' = Append(jobs, None) /\ UNCHANGED spokenAs
  <2>2. /\ Len(jobs') = Len(jobs) + 1 /\ \A i \in 1..Len(jobs) : jobs'[i] = jobs[i]
        /\ jobs'[Len(jobs) + 1] = None
        /\ \A i \in 1..Len(jobs') : i \in 1..Len(jobs) \/ i = Len(jobs) + 1
    BY <1>0, <1>3, AppendElements
  <2>3. SpokenOnce'
    BY <1>3, <2>2 DEF SpokenOnce
  <2>4. Begun \subseteq Begun'
    BY <1>3, <2>2 DEF Begun, Queued
  <2> QED BY <2>3, <2>4
<1>4. CASE jobs # <<>> /\ jobs' = Tail(jobs) /\ UNCHANGED spokenAs
  <2>2. /\ Len(jobs') = Len(jobs) - 1
        /\ \A i \in 1..Len(jobs') : i + 1 \in 1..Len(jobs) /\ jobs'[i] = jobs[i + 1]
    BY <1>0, <1>4, TailElements
  <2>3. SpokenOnce'
    <3> SUFFICES ASSUME NEW a \in 1..Len(jobs'), NEW b \in 1..Len(jobs')
                 PROVE  /\ jobs'[a] # None => spokenAs'[jobs'[a].utt] > 0
                        /\ a < b /\ jobs'[a] # None /\ jobs'[b] # None => jobs'[a].utt # jobs'[b].utt
      BY DEF SpokenOnce
    <3>1. a + 1 \in 1..Len(jobs) /\ b + 1 \in 1..Len(jobs) /\ (a < b => a + 1 < b + 1)
      BY <2>2
    <3> QED BY <1>4, <2>2, <3>1 DEF SpokenOnce
  <2>4. Begun \subseteq Begun'
    BY <1>4, <2>2 DEF Begun, Queued
  <2> QED BY <2>3, <2>4
<1> QED BY <1>1, <1>2, <1>3, <1>4, QueueEffect

------------------------------------------------------------------------------
(* Announcements: the driver. *)

\* No text is on its way, either way, of an utterance not begun.
LEMMA DriverKeepsWireBegun ==
  ASSUME ChannelTypeOK, DriverTypeOK, DriverTyped, SpokenOnce, WireBegun, HandBegun,
         DriverAction, UNCHANGED guestVars
  PROVE  WireBegun'
<1>1. Begun \subseteq Begun'
  BY BegunGrows
<1>2. \A t \in {pendingJob', job'} \ {NoText} : t[2] \in Begun'
  BY <1>1 DEF WireBegun, guestVars, workerVars, sharedVars
<1>3. Known(toGuest)'
  <2>0. toGuest \in Seq(ToGuestMessage) /\ Known(toGuest)
    BY DEF ChannelTypeOK, WireBegun
  <2>1. CASE UNCHANGED toGuest
    BY <1>1, <2>0, <2>1 DEF Known
  <2>2. ASSUME NEW m \in ToGuestMessage, SendToGuest(m),
               m.text # NoText => m.text[2] \in Begun
        PROVE  Known(toGuest)'
    <3>1. toGuest' = Append(toGuest, m)
      BY <2>2 DEF SendToGuest
    <3>2. /\ Len(toGuest') = Len(toGuest) + 1 /\ toGuest'[Len(toGuest) + 1] = m
          /\ \A i \in 1..Len(toGuest) : toGuest'[i] = toGuest[i]
          /\ \A i \in 1..Len(toGuest') : i \in 1..Len(toGuest) \/ i = Len(toGuest) + 1
      BY <2>0, <3>1, AppendElements
    <3> QED BY <1>1, <2>0, <2>2, <3>2 DEF Known
  <2>3. CASE driverPc = "send" /\ SendToGuest(Speak(CurrentText))
    <3>1. current.utt \in Begun
      BY <2>3 DEF HandBegun, HasJob, Busy
    <3>2. /\ Speak(CurrentText) \in ToGuestMessage
          /\ Speak(CurrentText).text[2] = current.utt
      BY <2>3, CurrentTextIs, FramesTyped
    <3> QED BY <2>2, <2>3, <3>1, <3>2
  <2>4. CASE userActive # None /\ SendToGuest(Cancel(userActive))
    <3>1. userActive \in Nat
      BY <2>4 DEF DriverTypeOK
    <3> QED BY <2>2, <2>4, <3>1, FramesTyped
  <2> QED BY <2>1, <2>3, <2>4, DriverWrites
<1>4. Known(toHost)' /\ Known(messages)'
  <2>0. /\ toHost \in Seq(ToHostMessage) /\ messages \in Seq(ToHostMessage)
        /\ Known(toHost) /\ Known(messages)
    BY DEF ChannelTypeOK, DriverTypeOK, WireBegun
  <2>1. CASE ReadFrame
    <3>1. /\ toHost # <<>> /\ toHost' = Tail(toHost)
          /\ messages' = Append(messages, Head(toHost))
      BY <2>1 DEF ReadFrame
    <3>2. /\ Len(toHost) \in Nat /\ Len(toHost) > 0 /\ Head(toHost) = toHost[1]
          /\ Head(toHost) \in ToHostMessage
          /\ \A i \in 1..Len(toHost') : i + 1 \in 1..Len(toHost) /\ toHost'[i] = toHost[i + 1]
      BY <2>0, <3>1, TailElements
    <3>3. /\ Len(messages') = Len(messages) + 1
          /\ messages'[Len(messages) + 1] = toHost[1]
          /\ \A i \in 1..Len(messages) : messages'[i] = messages[i]
          /\ \A i \in 1..Len(messages') : i \in 1..Len(messages) \/ i = Len(messages) + 1
      BY <2>0, <3>1, <3>2, AppendElements
    <3>4. Known(toHost)'
      BY <1>1, <2>0, <3>2 DEF Known
    <3>5. Known(messages)'
      BY <1>1, <2>0, <3>2, <3>3 DEF Known
    <3> QED BY <3>4, <3>5
  <2>2. CASE UNCHANGED <<toHost, messages>>
    BY <1>1, <2>0, <2>2 DEF Known
  <2>3. CASE AwaitMessage
    <3>1. toHost' = toHost /\ messages # <<>> /\ messages' = Tail(messages)
      BY <2>3 DEF AwaitMessage, channelVars
    <3>2. \A i \in 1..Len(messages') : i + 1 \in 1..Len(messages) /\ messages'[i] = messages[i + 1]
      BY <2>0, <3>1, TailElements
    <3> QED BY <1>1, <2>0, <3>1, <3>2 DEF Known
  <2> QED BY <2>1, <2>2, <2>3, DriverReads
<1> QED BY <1>2, <1>3, <1>4 DEF WireBegun

\* The worker reaches an announcement only with the player empty of it.
LEMMA DriverKeepsHeard ==
  ASSUME ChannelTypeOK, DriverTypeOK, DriverTyped, OfText(messages), HeardInv,
         DriverAction
  PROVE  HandBegun' /\ Heard' /\ out' \in Seq(Item)
<1>1. Begun \subseteq Begun' /\ jobs \in Seq(JobRecord \cup {None}) /\ out \in Seq(Item)
      /\ None \notin Utterance /\ buffered \in Utterance \cup {None} /\ HandBegun /\ Heard
  BY BegunGrows, NoneAssumption DEF HeardInv, DriverTyped, DriverTypeOK
<1>2. driverPc \in Handing => hand \in Item
  <2>1. CASE driverPc = "notify"
    <3>1. current.utt \in Utterance /\ pos \in Nat /\ hand = IndexItem(current.utt, pos)
      BY <2>1 DEF DriverTyped, DriverTypeOK, HasJob, Busy, JobRecord, Rendering
    <3> QED BY <3>1 DEF Item, IndexItem
  <2>2. CASE driverPc = "announce"
    <3>1. current.utt \in Utterance /\ hand = DoneItem(current.utt)
      BY <2>2 DEF DriverTyped, HasJob, Busy, JobRecord
    <3> QED BY <3>1 DEF Item, DoneItem
  <2>3. CASE driverPc = "feed"
    BY <2>3 DEF DriverTyped, Item, AudioRecord
  <2> QED BY <2>1, <2>2, <2>3 DEF Handing
<1> USE <1>1 DEF HandBegun, Heard, HasJob, Busy, UserGoto, DriverGoto, userVars,
    renderVars, playerVars, Rest
<1>3. CASE \/ \E u \in Utterance : SpeakUtterance(u)
           \/ Pause \/ Terminate \/ BeginCancel \/ SendCancel \/ DrainJobs \/ PutSentinel \/ JoinDriver
           \/ JoinTimesOut \/ ReadFrame
  <2>1. UNCHANGED <<driverPc, current, hand, buffered, out>>
    BY <1>3 DEF SpeakUtterance, Pause, Terminate, BeginCancel, SendCancel,
       DrainJobs, PutSentinel, JoinDriver, JoinTimesOut, ReadFrame
  <2> QED BY <2>1
<1>4. CASE StopPlayer
  <2>1. buffered' = None /\ UNCHANGED <<driverPc, current, out, hand>>
    BY <1>4 DEF StopPlayer
  <2>2. driverPc \in HasJob => current.utt # None
    BY DEF Begun
  <2> QED BY <2>1, <2>2
<1>5. CASE NextJob
  <2>1. /\ jobs # <<>> /\ jobs' = Tail(jobs) /\ driverPc' \in {"exited", "check"}
        /\ current' = Head(jobs)
        /\ Head(jobs) = None => driverPc' = "exited"
        /\ UNCHANGED <<buffered, out, spokenAs>>
    BY <1>5 DEF NextJob
  <2>2. /\ Len(jobs) \in Nat /\ Len(jobs) > 0 /\ Head(jobs) = jobs[1]
        /\ \A i \in 1..Len(jobs') : i + 1 \in 1..Len(jobs) /\ jobs'[i] = jobs[i + 1]
    BY <2>1, TailElements
  <2>3. ASSUME jobs[1] # None
        PROVE  jobs[1].utt \in Begun' /\ jobs[1].utt \in Queued
    <3>1. 1 \in 1..Len(jobs)
      BY <2>2
    <3>2. jobs[1].utt \in Queued /\ spokenAs[jobs[1].utt] > 0 /\ jobs[1].utt \in Utterance
      BY <2>3, <3>1 DEF Queued, HeardInv, SpokenOnce, DriverTypeOK
    <3>3. \A i \in 1..Len(jobs') : jobs'[i] # None => jobs'[i].utt # jobs[1].utt
      <4> SUFFICES ASSUME NEW i \in 1..Len(jobs'), jobs'[i] # None
                   PROVE jobs'[i].utt # jobs[1].utt
        OBVIOUS
      <4>1. /\ i + 1 \in 1..Len(jobs) /\ 1 < i + 1 /\ jobs[i + 1] # None
            /\ jobs'[i] = jobs[i + 1]
        BY <2>2
      <4> QED BY <2>3, <3>1, <4>1 DEF HeardInv, SpokenOnce
    <3> QED BY <2>1, <3>2, <3>3 DEF Begun, Queued
  <2>4. buffered # None => buffered \notin Queued
    BY DEF Begun
  <2>5. driverPc' = "check" => current' = jobs[1] /\ jobs[1] # None
    BY <2>1, <2>2
  <2>6. HandBegun' /\ out' \in Seq(Item)
    BY <2>1, <2>3, <2>5
  <2>7. Heard'
    <3>1. driverPc' = "check" => current'.utt \in Queued /\ current'.utt # None
      BY <2>3, <2>5 DEF Begun
    <3> QED BY <2>1, <2>4, <3>1
  <2> QED BY <2>6, <2>7
<1>6. CASE NotifyIndex
  BY <1>2, <1>6, AppendElements DEF NotifyIndex, Handing
<1>7. CASE AnnounceDone
  BY <1>2, <1>7, AppendElements DEF AnnounceDone, Handing
<1>8. CASE FeedPlayer
  <2>1. CASE userPc = "closed"
    BY <1>8, <2>1 DEF FeedPlayer
  <2>2. CASE userPc # "closed"
    <3>1. out' \in Seq(Item)
      BY <1>2, <1>8, <2>2, AppendElements DEF FeedPlayer, Handing
    <3> QED BY <1>8, <2>2, <3>1 DEF FeedPlayer
  <2> QED BY <2>1, <2>2
<1>9. CASE AwaitMessage
  <2> DEFINE m == Head(messages)
  <2>1. /\ messages \in Seq(ToHostMessage) /\ messages # <<>>
        /\ messages' = Tail(messages)
        /\ driverPc = "await" /\ UNCHANGED <<current, buffered, out>>
    BY <1>9 DEF AwaitMessage, DriverTypeOK
  <2>2. m \in ToHostMessage /\ m = messages[1] /\ 1 \in 1..Len(messages)
    BY <2>1, TailElements
  <2>3. /\ driverPc' \in {"restart", "await", "feed", "settle", "leave"}
        /\ driverPc' = "feed" => m.type = "audio" /\ hand' = AudioItem(m.text, m.chunk)
    BY <1>9, <2>2 DEF AwaitMessage, ToHostMessage
  <2>4. m.type = "audio" => m.text[2] \in Begun
    BY <2>2, ChannelAssumption DEF OfText, HeardInv, WireBegun, Known
  <2> HIDE DEF m
  <2>5. driverPc' = "feed" => hand'.utt \in Begun
    BY <2>3, <2>4 DEF AudioItem
  <2> QED BY <2>1, <2>3, <2>5
<1>10. CASE IdlePlayer
  <2>1. CASE userPc = "closed"
    BY <1>10, <2>1 DEF IdlePlayer
  <2>2. CASE userPc # "closed"
    <3>1. /\ buffered' = None /\ driverPc = "idle" /\ driverPc' = "event"
          /\ UNCHANGED <<current, out, hand>>
      BY <1>10, <2>2 DEF IdlePlayer
    <3>2. current.utt \in Begun
      BY <3>1
    <3>3. current.utt # None
      BY <3>2 DEF Begun
    <3> QED BY <3>1, <3>2, <3>3
  <2> QED BY <2>1, <2>2
<1>11. CASE \/ TestStopping \/ CheckJob \/ EnterRender \/ NextEvent \/ AlreadyRunning \/ SendSpeak
            \/ Settle \/ Finish \/ LeaveRender \/ AwaitTimesOut
  <2>1. UNCHANGED <<buffered, out>>
    BY <1>11 DEF TestStopping, CheckJob, EnterRender, NextEvent, AlreadyRunning,
       SendSpeak, Settle, Finish, LeaveRender, AwaitTimesOut
  <2>2. driverPc' \in HasJob => driverPc \in HasJob /\ current' = current /\ driverPc' # "feed"
        /\ (driverPc' \in {"check", "enter", "event", "notify", "boot", "send", "finish", "announce"}
            => driverPc \in {"check", "enter", "event", "notify", "boot", "send", "finish", "announce"})
    BY <1>11 DEF TestStopping, CheckJob, EnterRender, NextEvent, AlreadyRunning,
       SendSpeak, Settle, Finish, LeaveRender, AwaitTimesOut, IfCurrent
  <2> QED BY <2>1, <2>2
<1> QED
  BY <1>3, <1>4, <1>5, <1>6, <1>7, <1>8, <1>9, <1>10, <1>11 DEF DriverAction,
     UserCall, UserEnds, UserStep, DriverStep

------------------------------------------------------------------------------
(* Announcements: the composition. *)

\* The helper answers only for the texts it was given.
LEMMA GuestKeepsHeard ==
  ASSUME BaseInv, HeardInv, GuestAction, UNCHANGED <<driverVars, latest>>
  PROVE  HeardInv'
<1>1. UNCHANGED <<driverPc, current, hand, messages, buffered, out, spokenAs, jobs>>
  BY DEF driverVars, renderVars, playerVars
<1>2. /\ SpokenOnce' /\ HandBegun' /\ Heard' /\ out' \in Seq(Item) /\ Begun' = Begun
      /\ Known(messages)'
  <2>1. Queued' = Queued /\ Begun' = Begun /\ SpokenOnce' /\ out' \in Seq(Item)
    BY <1>1 DEF HeardInv, SpokenOnce, Begun, Queued
  <2>2. HandBegun' /\ Heard' /\ Known(messages)'
    BY <1>1, <2>1 DEF HeardInv, HandBegun, Heard, WireBegun, Known
  <2> QED BY <2>1, <2>2
<1>3. /\ toGuest \in Seq(ToGuestMessage) /\ toHost \in Seq(ToHostMessage) /\ WireBegun
      /\ Known(toGuest) /\ Known(toHost)
  BY DEF BaseInv, TypeOK, ChannelTypeOK, HeardInv, WireBegun
<1>4. ASSUME toGuest # <<>>, toGuest' = Tail(toGuest)
      PROVE  /\ Known(toGuest)' /\ Head(toGuest) = toGuest[1] /\ 1 \in 1..Len(toGuest)
  <2>1. /\ Head(toGuest) = toGuest[1] /\ Len(toGuest) \in Nat /\ Len(toGuest) > 0
        /\ \A i \in 1..Len(toGuest') : i + 1 \in 1..Len(toGuest) /\ toGuest'[i] = toGuest[i + 1]
    BY <1>3, <1>4, TailElements
  <2> QED BY <1>2, <1>3, <2>1 DEF Known
<1>5. WireBegun'
  <2>1. CASE Steady
    BY <1>2, <1>3, <2>1 DEF Steady, WireBegun, Known
  <2>2. CASE Takes
    <3>1. Known(toGuest)' /\ Known(toHost)'
      BY <1>2, <1>3, <1>4, <2>2 DEF Takes, Known
    <3>2. pendingJob' # NoText => pendingJob'[2] \in Begun
      BY <1>3, <1>4, <2>2, ChannelAssumption DEF Takes, Known, WireBegun
    <3>3. job' = job
      BY <2>2 DEF Takes
    <3> QED BY <1>2, <1>3, <3>1, <3>2, <3>3 DEF WireBegun
  <2>3. CASE Starts \/ Ends
    BY <1>2, <1>3, <2>3 DEF Starts, Ends, WireBegun, Known
  <2>4. CASE Answers
    <3>1. PICK m \in ToHostMessage :
            /\ SendToHost(m) /\ UNCHANGED <<toGuest, pendingJob, job>>
            /\ m.text \in {NoText, job}
      BY <2>4 DEF Answers
    <3>2. toHost' = Append(toHost, m)
      BY <3>1 DEF SendToHost
    <3>3. /\ Len(toHost') = Len(toHost) + 1 /\ toHost'[Len(toHost) + 1] = m
          /\ \A i \in 1..Len(toHost) : toHost'[i] = toHost[i]
          /\ \A i \in 1..Len(toHost') : i \in 1..Len(toHost) \/ i = Len(toHost) + 1
      BY <1>3, <3>2, AppendElements
    <3>4. m.text # NoText => m.text[2] \in Begun
      BY <1>3, <3>1 DEF WireBegun
    <3>5. Known(toHost)'
      BY <1>2, <1>3, <3>3, <3>4 DEF Known
    <3> QED BY <1>2, <1>3, <3>1, <3>5 DEF WireBegun, Known
  <2> QED BY <2>1, <2>2, <2>3, <2>4, GuestEffect DEF BaseInv, TypeOK
<1> QED BY <1>2, <1>5 DEF HeardInv

\* A helper's start, stop and death bring no text.
LEMMA SystemKeepsHeard ==
  ASSUME BaseInv, HeardInv, StartHelper \/ StopHelper \/ StartFails \/ HelperDies
  PROVE  HeardInv'
<1>1. UNCHANGED <<current, hand, buffered, out, spokenAs, jobs>>
  BY DEF StartHelper, StopHelper, StartFails, HelperDies, renderVars, playerVars
<1>2. \/ UNCHANGED driverPc
      \/ driverPc = "coldstart" /\ driverPc' = "loop"
      \/ driverPc = "boot" /\ driverPc' = "send"
      \/ driverPc \in {"reboot", "boot"} /\ driverPc' = "leave"
      \/ driverPc = "restart" /\ driverPc' = "reboot"
  BY DEF StartHelper, StopHelper, StartFails, HelperDies, DriverGoto, renderVars
<1>3. SpokenOnce' /\ HandBegun' /\ Heard' /\ out' \in Seq(Item) /\ Begun' = Begun
  BY <1>1, <1>2 DEF HeardInv, SpokenOnce, HandBegun, Heard, Begun, Queued,
     HasJob, Busy
<1>4. WireBegun'
  <2>1. CASE StartHelper \/ StopHelper
    <3>1. /\ toGuest' = <<>> /\ toHost' = <<>> /\ messages' = <<>>
          /\ pendingJob' = NoText /\ job' = NoText
      BY <2>1 DEF StartHelper, StopHelper, FreshHelper
    <3> QED BY <3>1 DEF WireBegun, Known
  <2>2. CASE StartFails
    BY <1>3, <2>2 DEF StartFails, WireBegun, Known, HeardInv, channelVars,
       guestVars, workerVars, sharedVars
  <2>3. CASE HelperDies
    <3>1. /\ toGuest' = <<>> /\ toHost' = Append(toHost, Eof)
          /\ UNCHANGED <<messages, pendingJob, job>>
      BY <2>3 DEF HelperDies, guestVars, workerVars, sharedVars
    <3>2. /\ Len(toHost') = Len(toHost) + 1 /\ toHost'[Len(toHost) + 1] = Eof
          /\ Eof.text = NoText
          /\ \A i \in 1..Len(toHost) : toHost'[i] = toHost[i]
          /\ \A i \in 1..Len(toHost') : i \in 1..Len(toHost) \/ i = Len(toHost) + 1
      BY <3>1, AppendElements, FramesTyped DEF BaseInv, TypeOK, ChannelTypeOK
    <3>3. Known(toHost)' /\ Known(toGuest)'
      BY <1>3, <3>1, <3>2 DEF HeardInv, WireBegun, Known
    <3> QED BY <1>3, <3>1, <3>3 DEF HeardInv, WireBegun, Known
  <2> QED BY <2>1, <2>2, <2>3
<1> QED BY <1>3, <1>4 DEF HeardInv

\* The announcements' invariant is inductive,
LEMMA HeardInductive == BaseInv /\ HeardInv /\ [Next]_vars => HeardInv'
<1> SUFFICES ASSUME BaseInv, HeardInv, [Next]_vars PROVE HeardInv' OBVIOUS
<1>1. CASE running /\ GuestAction /\ UNCHANGED <<driverVars, latest>>
  BY <1>1, GuestKeepsHeard
<1>2. CASE DriverAction /\ UNCHANGED guestVars
  <2>1. ChannelTypeOK /\ DriverTypeOK /\ DriverTyped /\ OfText(messages)
    BY DEF BaseInv, TypeOK
  <2>2. HandBegun' /\ Heard' /\ out' \in Seq(Item)
    BY <1>2, <2>1, DriverKeepsHeard
  <2>3. WireBegun' /\ SpokenOnce'
    BY <1>2, <2>1, DriverKeepsWireBegun, BegunGrows DEF HeardInv
  <2> QED BY <2>2, <2>3 DEF HeardInv
<1>3. CASE StartHelper \/ StopHelper \/ StartFails \/ HelperDies
  BY <1>3, SystemKeepsHeard
<1>4. CASE UNCHANGED vars
  BY <1>4 DEF vars, channelVars, guestVars, workerVars, sharedVars, driverVars,
     renderVars, playerVars, HeardInv, SpokenOnce, WireBegun, Known, HandBegun,
     Heard, Begun, Queued
<1> QED BY <1>1, <1>2, <1>3, <1>4, NextCases

\* and holds at the start.
LEMMA HeardInitial == Init => HeardInv
<1> SUFFICES ASSUME Init PROVE HeardInv OBVIOUS
<1>1. /\ toGuest = <<>> /\ toHost = <<>> /\ messages = <<>> /\ jobs = <<>> /\ out = <<>>
      /\ pendingJob = NoText /\ job = NoText /\ driverPc = "coldstart" /\ buffered = None
  BY Zenon DEF Init, ChannelInit, GuestInit, DriverInit
<1> QED BY <1>1 DEF HeardInv, SpokenOnce, WireBegun, Known, HandBegun, Heard,
   HasJob, Busy

\* The step that gives NVDA an item is one of three.
LEMMA OutEffect ==
  ASSUME BaseInv, HeardInv, Next
  PROVE  \/ UNCHANGED out
         \/ driverPc \in {"notify", "announce"} /\ out' = Append(out, hand)
         \/ driverPc = "feed" /\ out' = Append(out, hand)
<1> USE DEF channelVars, userVars, renderVars, playerVars, Rest, UserGoto, DriverGoto
<1>1. DriverAction => \/ UNCHANGED out
                      \/ driverPc \in {"notify", "announce"} /\ out' = Append(out, hand)
                      \/ driverPc = "feed" /\ out' = Append(out, hand)
  <2>1. CASE NotifyIndex \/ AnnounceDone \/ FeedPlayer
    BY <2>1 DEF NotifyIndex, AnnounceDone, FeedPlayer
  <2>2. CASE DriverAction /\ ~NotifyIndex /\ ~AnnounceDone /\ ~FeedPlayer
    <3>1. UNCHANGED out
      BY <2>2 DEF DriverAction, UserCall, UserEnds, UserStep, DriverStep,
         SpeakUtterance, Pause, Terminate, BeginCancel, DrainJobs, StopPlayer,
         PutSentinel, JoinDriver, JoinTimesOut, ReadFrame, TestStopping,
         NextJob, CheckJob, EnterRender, NextEvent, AlreadyRunning,
         AwaitMessage, Settle, IdlePlayer, Finish, LeaveRender, AwaitTimesOut,
         SendSpeak, SendCancel
    <3> QED BY <3>1
  <2> QED BY <2>1, <2>2
<1>2. StartHelper \/ StopHelper \/ StartFails \/ HelperDies => UNCHANGED out
  BY DEF StartHelper, StopHelper, StartFails, HelperDies
<1>3. UNCHANGED driverVars => UNCHANGED out
  BY DEF driverVars
<1> QED BY <1>1, <1>2, <1>3, NextCases

\* When an index or the end of an utterance is announced, the player holds
\* no audio of that utterance any more, whatever was cancelled, timed out or
\* restarted before (samsungTVVoices.py:703-711).
THEOREM AlwaysHeard == Spec => AnnouncedWhenHeard
<1>1. BaseInv /\ HeardInv /\ [Next]_vars =>
        [Len(out') > Len(out) /\ out'[Len(out')].kind # "audio" => buffered # out'[Len(out')].utt]_vars
  <2> SUFFICES ASSUME BaseInv, HeardInv, Next, Len(out') > Len(out),
                      out'[Len(out')].kind # "audio"
               PROVE  buffered # out'[Len(out')].utt
    OBVIOUS
  <2>0. out \in Seq(Item) /\ Len(out) \in Nat
    BY DEF HeardInv
  <2>1. CASE UNCHANGED out
    BY <2>0, <2>1
  <2>2. CASE driverPc \in {"notify", "announce"} /\ out' = Append(out, hand)
    <3>1. hand.utt = current.utt /\ buffered # current.utt
      BY <2>2 DEF BaseInv, DriverTyped, HeardInv, Heard, IndexItem, DoneItem
    <3>2. out'[Len(out')] = hand
      BY <2>0, <2>2
    <3> QED BY <3>1, <3>2
  <2>3. CASE driverPc = "feed" /\ out' = Append(out, hand)
    <3>1. hand.kind = "audio"
      BY <2>3 DEF BaseInv, DriverTyped, AudioRecord
    <3>2. out'[Len(out')] = hand
      BY <2>0, <2>3
    <3> QED BY <3>1, <3>2
  <2> QED BY <2>1, <2>2, <2>3, OutEffect
<1>2. Init => BaseInv /\ HeardInv
  BY BaseInitial, HeardInitial
<1>3. BaseInv /\ HeardInv /\ [Next]_vars => (BaseInv /\ HeardInv)'
  BY BaseInductive, HeardInductive
<1> QED BY <1>1, <1>2, <1>3, PTL DEF Spec, AnnouncedWhenHeard

------------------------------------------------------------------------------
(* The request the driver waits for. *)

\* The worker leaves its job by an answer, or by a cancellation.
LEMMA WorkerProgress ==
  ASSUME GuestAction, workerPc \in Working
  PROVE  /\ job' = job
         /\ \/ workerPc' \in Working
            \/ workerPc = "verdict" /\ cancelling
            \/ \E type \in {"done", "error"} : SendToHost(Frame(type, GenOf[job], job, 0))
<1> USE DEF Working, Engaged, channelVars, mainVars, workerVars, sharedVars, guestVars
<1>1. CASE MainStep
  BY <1>1 DEF MainStep, ReadSpeak, ReadEmpty, ReadCancel, ReadQuit, ReadBad,
     NotifyOne, CompareActive, RaiseCancelling, ReportCancelled,
     StoreShuttingDown, AimAtActive, NotifyAll, JoinWorker, Woken
<1>2. CASE Verdict
  BY <1>2 DEF Verdict, Goto
<1>3. CASE Reply
  BY <1>3 DEF Reply, Goto
<1>4. CASE Callback
  BY <1>4 DEF Callback, Goto
<1>5. CASE \/ CheckShutdown \/ WaitLeave \/ WaitTake \/ WaitPark \/ Park \/ Retire
  BY <1>5 DEF CheckShutdown, WaitLeave, WaitTake, WaitPark, Park, Retire, Goto
<1>6. CASE \/ ClearCancelling \/ Activate \/ SelectVoice \/ ChunkLoop \/ EmitAudio \/ WorkerMishap
  BY <1>6 DEF ClearCancelling, Activate, SelectVoice, ChunkLoop, EmitAudio,
     WorkerMishap, SelectFails, EngineFails, Goto
<1> QED BY <1>1, <1>2, <1>3, <1>4, <1>5, <1>6 DEF GuestAction, WorkerStep

\* A step of the helper moves the awaited request one place on.
LEMMA GuestKeepsUnderway ==
  ASSUME BaseInv, running, GuestAction, UNCHANGED <<driverVars, latest>>,
         Waiting, IsCurrent(current.gen), Underway
  PROVE  Underway'
<1>0. /\ CurrentText \in Text /\ CurrentText # NoText /\ CurrentText' = CurrentText
      /\ GenOf[CurrentText] = current.gen
      /\ UNCHANGED <<messages, currentGeneration>>
  BY CurrentTextIs DEF BaseInv, TypeOK, Waiting, CurrentText, driverVars,
     renderVars
<1>1. /\ toGuest \in Seq(ToGuestMessage) /\ toHost \in Seq(ToHostMessage)
      /\ ChannelTypeOK /\ GuestTypeOK /\ G!IInv /\ OnlyRequests /\ NeverEnding
  BY DEF BaseInv, TypeOK, ChannelTypeOK, GuestSound
<1>2. Steady \/ Takes \/ Starts \/ Ends \/ Answers
  BY <1>1, GuestEffect
<1>3. ASSUME Answered(toHost) PROVE Answered(toHost)'
  <2>1. CASE UNCHANGED toHost
    BY <1>0, <1>3, <2>1 DEF Answered
  <2>2. ASSUME NEW m \in ToHostMessage, SendToHost(m) PROVE Answered(toHost)'
    <3>1. /\ Len(toHost') = Len(toHost) + 1 /\ Len(toHost) \in Nat
          /\ \A i \in 1..Len(toHost) : toHost'[i] = toHost[i]
      BY <1>1, <2>2, AppendElements DEF SendToHost
    <3>2. PICK i \in 1..Len(toHost) : toHost[i].type \in {"done", "error"} /\ toHost[i].text = CurrentText
      BY <1>3 DEF Answered
    <3>3. i \in 1..Len(toHost') /\ toHost'[i] = toHost[i]
      BY <3>1
    <3> QED BY <1>0, <3>2, <3>3 DEF Answered
  <2> QED BY <1>2, <2>1, <2>2 DEF Steady, Takes, Starts, Ends, Answers
<1>4. CASE Answered(toHost) \/ Answered(messages)
  BY <1>0, <1>3, <1>4 DEF Underway, Answered
<1>5. CASE toGuest # <<>> /\ toGuest[Len(toGuest)] = Speak(CurrentText)
  <2>1. CASE UNCHANGED toGuest
    BY <1>0, <1>5, <2>1 DEF Underway, Speak
  <2>2. CASE Takes
    <3>1. /\ toGuest' = Tail(toGuest) /\ Len(toGuest') = Len(toGuest) - 1
          /\ toGuest' \in Seq(ToGuestMessage)
          /\ Head(toGuest) = toGuest[1] /\ Len(toGuest) \in Nat /\ Len(toGuest) > 0
          /\ \A i \in 1..Len(toGuest') : i + 1 \in 1..Len(toGuest) /\ toGuest'[i] = toGuest[i + 1]
      BY <1>1, <2>2, TailElements DEF Takes
    <3>2. CASE Len(toGuest) = 1
      <4>1. Head(toGuest) = Speak(CurrentText)
        BY <1>5, <3>1, <3>2
      <4>2. pendingJob' = CurrentText
        BY <1>0, <2>2, <4>1, FramesTyped DEF Takes, Speak
      <4>3. toGuest' = <<>>
        BY <3>1, <3>2
      <4> QED BY <1>0, <4>2, <4>3 DEF Underway
    <3>3. CASE Len(toGuest) > 1
      <4>1. Len(toGuest') \in 1..Len(toGuest') /\ Len(toGuest') + 1 = Len(toGuest)
        BY <3>1, <3>3
      <4>2. toGuest'[Len(toGuest')] = Speak(CurrentText)
        BY <1>5, <3>1, <4>1
      <4>3. toGuest' # <<>>
        BY ONLY <4>1
      <4> QED BY <1>0, <4>2, <4>3 DEF Underway, Speak
    <3> QED BY <3>1, <3>2, <3>3
  <2> QED BY <1>2, <2>1, <2>2 DEF Steady, Starts, Ends, Answers
<1>6. CASE toGuest = <<>> /\ pendingJob = CurrentText
  <2>1. CASE Starts
    <3>1. job' = CurrentText /\ workerPc' \in Working
      BY <1>6, <2>1 DEF Starts, Working
    <3> QED BY <1>0, <3>1 DEF Underway
  <2>2. CASE UNCHANGED <<toGuest, pendingJob>>
    BY <1>0, <1>6, <2>2 DEF Underway
  <2> QED BY <1>2, <1>6, <2>1, <2>2 DEF Steady, Takes, Ends, Answers
<1>7. CASE workerPc \in Working /\ job = CurrentText
  <2>1. CASE workerPc' \in Working
    BY <1>0, <1>7, <2>1, WorkerProgress DEF Underway
  <2>2. CASE workerPc = "verdict" /\ cancelling
    <3>1. GenOf[job] \in 1..(currentGeneration - 1)
      BY <1>1, <2>2 DEF G!IInv, G!Guarded, G!SparesOthers, G!Engaged,
         NeverEnding
    <3>2. currentGeneration \in 1..MaxGen
      BY DEF BaseInv, TypeOK, DriverTypeOK
    <3> QED BY <1>0, <1>7, <3>1, <3>2, DriverAssumption DEF IsCurrent
  <2>3. ASSUME NEW type \in {"done", "error"}, SendToHost(Frame(type, GenOf[job], job, 0))
        PROVE  Underway'
    <3> DEFINE m == Frame(type, GenOf[job], job, 0)
    <3>1. m \in ToHostMessage /\ m.type = type /\ m.text = CurrentText
      BY <1>0, <1>7, FramesTyped, ChannelAssumption DEF Frame, Maybe
    <3> HIDE DEF m
    <3>2. toHost' = Append(toHost, m)
      BY <2>3 DEF SendToHost, m
    <3>3. /\ Len(toHost') = Len(toHost) + 1 /\ Len(toHost) \in Nat
          /\ toHost'[Len(toHost) + 1] = m
      BY <1>1, <3>1, <3>2, AppendElements
    <3>4. Len(toHost') \in 1..Len(toHost') /\ toHost'[Len(toHost')] = m
      BY <3>3
    <3> QED BY <1>0, <3>1, <3>4 DEF Underway, Answered
  <2> QED BY <1>7, <2>1, <2>2, <2>3, WorkerProgress
<1> QED BY <1>4, <1>5, <1>6, <1>7 DEF Underway

\* Only a request just written makes the driver wait anew.
LEMMA StaysWaiting ==
  ASSUME BaseInv, DriverAction, Waiting', IsCurrent(current.gen)'
  PROVE  \/ driverPc = "send"
         \/ Waiting /\ IsCurrent(current.gen) /\ UNCHANGED <<current, pos>>
<1> USE DEF userVars, renderVars, playerVars, Rest, UserGoto, DriverGoto, Waiting
<1>1. CASE SendSpeak
  BY <1>1 DEF SendSpeak
<1>2. CASE DriverAction /\ ~SendSpeak
  <2>1. driverPc \in {"await", "feed"} /\ UNCHANGED <<current, pos>>
    BY <1>2 DEF DriverAction, UserCall, UserEnds, UserStep, DriverStep,
       SpeakUtterance, Pause, Terminate, BeginCancel, DrainJobs, StopPlayer,
       PutSentinel, JoinDriver, JoinTimesOut, ReadFrame, TestStopping, NextJob,
       CheckJob, EnterRender, NextEvent, NotifyIndex, AlreadyRunning,
       AwaitMessage, FeedPlayer, Settle, IdlePlayer, Finish, AnnounceDone,
       LeaveRender, AwaitTimesOut, SendCancel, IfCurrent
  <2>3. /\ currentGeneration \in 1..MaxGen /\ current.gen <= currentGeneration
        /\ current.gen \in 1..MaxGen
        /\ currentGeneration' \in {currentGeneration, currentGeneration + 1}
    BY <2>1, GenerationGrows DEF BaseInv, TypeOK, DriverTypeOK, DriverTyped,
       GenerationsSound, HasJob, Busy, JobRecord
  <2>4. ~stopping' /\ current'.gen = currentGeneration'
    BY DEF IsCurrent
  <2>5. current.gen = currentGeneration
    BY <2>1, <2>3, <2>4, DriverAssumption
  <2>6. ~stopping
    BY <2>4 DEF DriverAction, UserCall, UserEnds, UserStep, DriverStep,
       SpeakUtterance, Pause, Terminate, BeginCancel, DrainJobs, StopPlayer,
       PutSentinel, JoinDriver, JoinTimesOut, ReadFrame, TestStopping, NextJob,
       CheckJob, EnterRender, NextEvent, NotifyIndex, AlreadyRunning,
       AwaitMessage, FeedPlayer, Settle, IdlePlayer, Finish, AnnounceDone,
       LeaveRender, AwaitTimesOut, SendCancel, SendSpeak
  <2> QED BY <2>1, <2>5, <2>6 DEF IsCurrent
<1> QED BY <1>1, <1>2

\* A step of the driver loses the request or its answer nowhere.
LEMMA DriverKeepsUnderway ==
  ASSUME BaseInv, NotLostInv, DriverAction, UNCHANGED guestVars,
         Waiting', IsCurrent(current.gen)', running'
  PROVE  Underway'
<1>0. /\ running /\ DriverTypeOK /\ DriverTyped /\ toGuest \in Seq(ToGuestMessage)
      /\ toHost \in Seq(ToHostMessage)
      /\ messages \in Seq(ToHostMessage) /\ UNCHANGED <<pendingJob, workerPc, job>>
  BY DriverReads DEF BaseInv, TypeOK, ChannelTypeOK, DriverTypeOK, guestVars,
     workerVars, sharedVars
<1>1. CASE driverPc = "send"
  <2>1. SendSpeak
    BY <1>1 DEF Waiting, DriverAction, UserCall, UserEnds, UserStep, DriverStep,
       SpeakUtterance, Pause, Terminate, BeginCancel, DrainJobs, StopPlayer,
       PutSentinel, JoinDriver, JoinTimesOut, ReadFrame, TestStopping, NextJob,
       CheckJob, EnterRender, NextEvent, NotifyIndex, AlreadyRunning,
       AwaitMessage, FeedPlayer, Settle, IdlePlayer, Finish, AnnounceDone,
       LeaveRender, AwaitTimesOut, SendCancel, renderVars, UserGoto, DriverGoto
  <2>2. SendToGuest(Speak(CurrentText)) /\ CurrentText' = CurrentText
    BY <1>0, <2>1 DEF SendSpeak, CurrentText
  <2>3. Speak(CurrentText) \in ToGuestMessage
    BY <1>0, <1>1, CurrentTextIs, FramesTyped
  <2>4. toGuest' = Append(toGuest, Speak(CurrentText))
    BY <2>2 DEF SendToGuest
  <2>5. toGuest' # <<>> /\ toGuest'[Len(toGuest')] = Speak(CurrentText)
    BY <1>0, <2>3, <2>4
  <2> QED BY <2>2, <2>5 DEF Underway, Speak
<1>2. CASE Waiting /\ IsCurrent(current.gen) /\ UNCHANGED <<current, pos>>
  <2>0. /\ Underway /\ CurrentText' = CurrentText /\ Tagged(messages)
        /\ GenOf[CurrentText] = current.gen /\ CurrentText # NoText
    BY <1>0, <1>2, CurrentTextIs DEF NotLostInv, CurrentText, Waiting
  <2>1. toGuest' = toGuest
    <3>1. ~(userPc = "send" /\ running)
      BY <1>2, DriverAssumption DEF BaseInv, TypeOK, DriverTypeOK, CancelsOlder,
         IsCurrent, Waiting, HasJob, Busy
    <3> QED BY <1>2, <3>1, DriverWrites DEF Waiting
  <2>2. CASE UNCHANGED <<toHost, messages>>
    BY <1>0, <2>0, <2>1, <2>2 DEF Underway, Answered
  <2>3. CASE ReadFrame
    <3>1. /\ toHost # <<>> /\ toHost' = Tail(toHost)
          /\ messages' = Append(messages, Head(toHost))
      BY <2>3 DEF ReadFrame
    <3>2. /\ Len(toHost) \in Nat /\ Len(toHost) > 0 /\ Head(toHost) = toHost[1]
          /\ Head(toHost) \in ToHostMessage
          /\ Len(toHost') = Len(toHost) - 1
          /\ \A i \in 1..Len(toHost') : i + 1 \in 1..Len(toHost) /\ toHost'[i] = toHost[i + 1]
      BY <1>0, <3>1, TailElements
    <3>3. /\ Len(messages') = Len(messages) + 1
          /\ messages'[Len(messages) + 1] = toHost[1] /\ Len(messages) \in Nat
          /\ \A i \in 1..Len(messages) : messages'[i] = messages[i]
      BY <1>0, <3>1, <3>2, AppendElements
    <3>4. ASSUME Answered(toHost) PROVE Answered(toHost)' \/ Answered(messages)'
      <4>1. PICK i \in 1..Len(toHost) : toHost[i].type \in {"done", "error"} /\ toHost[i].text = CurrentText
        BY <3>4 DEF Answered
      <4>2. CASE i = 1
        <5>1. /\ Len(messages') \in 1..Len(messages')
              /\ messages'[Len(messages')] = toHost[1]
          BY <3>3
        <5> QED BY <2>0, <4>1, <4>2, <5>1 DEF Answered
      <4>3. CASE i # 1
        <5>1. i - 1 \in 1..Len(toHost') /\ toHost'[i - 1] = toHost[i]
          BY <3>2, <4>3
        <5> QED BY <2>0, <4>1, <5>1 DEF Answered
      <4> QED BY <4>2, <4>3
    <3>5. ASSUME Answered(messages) PROVE Answered(messages)'
      <4>1. PICK i \in 1..Len(messages) : messages[i].type \in {"done", "error"} /\ messages[i].text = CurrentText
        BY <3>5 DEF Answered
      <4>2. i \in 1..Len(messages') /\ messages'[i] = messages[i]
        BY <3>3
      <4> QED BY <2>0, <4>1, <4>2 DEF Answered
    <3> QED BY <1>0, <2>0, <2>1, <3>4, <3>5 DEF Underway
  <2>4. CASE AwaitMessage
    <3>1. /\ toHost' = toHost /\ messages # <<>> /\ messages' = Tail(messages)
      BY <2>4 DEF AwaitMessage, channelVars
    <3>2. /\ Len(messages) \in Nat /\ Len(messages) > 0 /\ Head(messages) = messages[1]
          /\ Len(messages') = Len(messages) - 1
          /\ \A i \in 1..Len(messages') : i + 1 \in 1..Len(messages) /\ messages'[i] = messages[i + 1]
      BY <1>0, <3>1, TailElements
    <3>3. ASSUME Answered(messages) PROVE Answered(messages)'
      <4>1. PICK i \in 1..Len(messages) : messages[i].type \in {"done", "error"} /\ messages[i].text = CurrentText
        BY <3>3 DEF Answered
      <4>2. CASE i = 1
        <5>1. messages[1].gen = current.gen
          BY <2>0, <4>1, <4>2 DEF Tagged
        <5>2. driverPc' \in {"settle", "leave"}
          BY <2>4, <3>2, <4>1, <4>2, <5>1 DEF AwaitMessage
        <5> QED BY <5>2 DEF Waiting
      <4>3. CASE i # 1
        <5>1. i - 1 \in 1..Len(messages') /\ messages'[i - 1] = messages[i]
          BY <3>2, <4>3
        <5> QED BY <2>0, <4>1, <5>1 DEF Answered
      <4> QED BY <4>2, <4>3
    <3>4. Answered(toHost) => Answered(toHost)'
      BY <2>0, <3>1 DEF Answered
    <3> QED BY <1>0, <2>0, <2>1, <3>3, <3>4 DEF Underway
  <2> QED BY <2>2, <2>3, <2>4, DriverReads
<1> QED BY <1>1, <1>2, StaysWaiting

\* Every answer the host has queued carries the generation of its text.
LEMMA DriverKeepsTagged ==
  ASSUME BaseInv, NotLostInv, DriverAction, running
  PROVE  Tagged(messages)'
<1>0. /\ toHost \in Seq(ToHostMessage) /\ messages \in Seq(ToHostMessage)
      /\ Tagged(messages) /\ Tagged(toHost)
  BY DEF BaseInv, TypeOK, ChannelTypeOK, DriverTypeOK, NotLostInv, GuestSound,
     G!IInv, G!Tagged, G!RepliesTagged, Tagged
<1>1. CASE ReadFrame
  <2>1. /\ toHost # <<>> /\ toHost' = Tail(toHost)
        /\ messages' = Append(messages, Head(toHost))
    BY <1>1 DEF ReadFrame
  <2>2. /\ Len(toHost) \in Nat /\ Len(toHost) > 0 /\ Head(toHost) = toHost[1]
        /\ Head(toHost) \in ToHostMessage
    BY <1>0, <2>1, TailElements
  <2>3. /\ messages'[Len(messages) + 1] = toHost[1]
        /\ \A i \in 1..Len(messages) : messages'[i] = messages[i]
        /\ \A i \in 1..Len(messages') : i \in 1..Len(messages) \/ i = Len(messages) + 1
    BY <1>0, <2>1, <2>2, AppendElements
  <2> QED BY <1>0, <2>2, <2>3 DEF Tagged
<1>2. CASE AwaitMessage
  <2>1. messages # <<>> /\ messages' = Tail(messages)
    BY <1>2 DEF AwaitMessage
  <2>2. \A i \in 1..Len(messages') : i + 1 \in 1..Len(messages) /\ messages'[i] = messages[i + 1]
    BY <1>0, <2>1, TailElements
  <2> QED BY <1>0, <2>2 DEF Tagged
<1>3. CASE UNCHANGED messages
  BY <1>0, <1>3 DEF Tagged
<1> QED BY <1>1, <1>2, <1>3, DriverReads

\* The place of the awaited request is kept by every step,
LEMMA NotLostInductive == BaseInv /\ NotLostInv /\ [Next]_vars => NotLostInv'
<1> SUFFICES ASSUME BaseInv, NotLostInv, [Next]_vars PROVE NotLostInv' OBVIOUS
<1>1. CASE running /\ GuestAction /\ UNCHANGED <<driverVars, latest>>
  <2>1. UNCHANGED <<driverPc, current, messages, running, stopping, currentGeneration>>
    BY <1>1 DEF driverVars, userVars, renderVars
  <2>2. Tagged(messages)'
    BY <1>1, <2>1 DEF NotLostInv, Tagged
  <2>3. Waiting /\ IsCurrent(current.gen) => Underway'
    BY <1>1, GuestKeepsUnderway DEF NotLostInv
  <2> QED BY <1>1, <2>1, <2>2, <2>3 DEF NotLostInv, Waiting, IsCurrent
<1>2. CASE DriverAction /\ UNCHANGED guestVars
  <2>1. running' = running
    BY <1>2, DriverReads
  <2> QED BY <1>2, <2>1, DriverKeepsUnderway, DriverKeepsTagged DEF NotLostInv
<1>3. CASE StartHelper
  BY <1>3 DEF StartHelper, DriverGoto, FreshHelper, NotLostInv, Waiting, Tagged
<1>4. CASE StopHelper \/ HelperDies
  <2>1. running' = FALSE
    BY <1>4 DEF StopHelper, HelperDies
  <2> QED BY <2>1 DEF NotLostInv
<1>5. CASE StartFails
  BY <1>5 DEF StartFails, DriverGoto, NotLostInv, Waiting, Tagged
<1>6. CASE UNCHANGED vars
  BY <1>6 DEF vars, channelVars, guestVars, workerVars, sharedVars, driverVars,
     userVars, renderVars, NotLostInv, Waiting, Tagged, IsCurrent, Underway,
     Answered, CurrentText, Speak
<1> QED BY <1>1, <1>2, <1>3, <1>4, <1>5, <1>6, NextCases

\* and there is none at the start.
LEMMA NotLostInitial == Init => NotLostInv
<1> SUFFICES ASSUME Init PROVE NotLostInv OBVIOUS
<1>1. running = FALSE
  BY DEF Init, DriverInit
<1> QED BY <1>1 DEF NotLostInv

\* While the driver waits for the answer to a text still wanted, the text or
\* its answer is under way: no later request overwrites it in the guest's one
\* slot, and no answer of an earlier one is taken for it
\* (samsungTVVoices.py:659-683, samsung_guest.cpp:284).
THEOREM NeverLost == Spec => []AwaitedNotLost
<1>1. BaseInv /\ NotLostInv => AwaitedNotLost
  <2> SUFFICES ASSUME BaseInv, NotLostInv, driverPc = "await", IsCurrent(current.gen),
                      running
               PROVE  \/ Speak(CurrentText) \in Elements(toGuest)
                      \/ CurrentText \in {pendingJob, job}
                      \/ \E m \in Elements(toHost) \cup Elements(messages) :
                            m.type \in {"done", "error"} /\ m.text = CurrentText
    BY DEF AwaitedNotLost
  <2>1. Underway
    BY DEF NotLostInv, Waiting
  <2>2. CASE toGuest # <<>> /\ toGuest[Len(toGuest)] = Speak(CurrentText)
    <3>1. Len(toGuest) \in 1..Len(toGuest)
      BY <2>2 DEF BaseInv, TypeOK, ChannelTypeOK
    <3> QED BY <2>2, <3>1 DEF Elements
  <2>3. CASE Answered(toHost) \/ Answered(messages)
    BY <2>3 DEF Answered, Elements
  <2> QED BY <2>1, <2>2, <2>3 DEF Underway
<1>2. Init => BaseInv /\ NotLostInv
  BY BaseInitial, NotLostInitial
<1>3. BaseInv /\ NotLostInv /\ [Next]_vars => (BaseInv /\ NotLostInv)'
  BY BaseInductive, NotLostInductive
<1> QED BY <1>1, <1>2, <1>3, PTL DEF Spec
==============================================================================
