----------------------------- MODULE GuestProofs -----------------------------
(***************************************************************************)
(* Theorems about GuestService for every set of texts, generations, voices *)
(* and channel sizes: its types, that every reply carries the generation   *)
(* of its text (RepliesTagged), that a cancellation hits no job but one of *)
(* a cancelled generation (SparesOthers), and what becomes of one text     *)
(* (SpeaksInVoice, StreamsInOrder, DoneMeansComplete).                     *)
(***************************************************************************)
EXTENDS GuestService, TLAPS, SequenceTheorems

\* Frames whose generation counts: QUIT and the end of the stream have none.
Timed(m) == m.type \in {"speak", "cancel"}

\* The texts the guest has read and not finished with.
Held == {pendingJob, job} \ {NoText}

\* The main thread is inside the cancelActive of a CANCEL frame.
Serving == ending = 0 /\ mainPc \in {"compare", "raise", "report"}

\* The generation streamCallback reads is that of the worker's job.
ActiveIsJob == activeGeneration = IF workerPc \in Engaged THEN GenOf[job] ELSE 0

Tagged == ActiveIsJob /\ RepliesTagged

\* Frames wait in the order of their generations, none above the last one
\* written, and a CANCEL among them is one the host asked for.
StreamOrdered ==
  /\ \A i, j \in 1..Len(toGuest) :
       i < j /\ Timed(toGuest[i]) /\ Timed(toGuest[j])
         => toGuest[i].gen <= toGuest[j].gen
  /\ \A i \in 1..Len(toGuest) :
       /\ Timed(toGuest[i]) => toGuest[i].gen <= latest
       /\ toGuest[i].type = "cancel" =>
            toGuest[i].gen > 0 /\ toGuest[i].gen \in cancelled
       /\ toGuest[i].text # NoText => toGuest[i].gen = GenOf[toGuest[i].text]

\* What the guest has read comes before what it has not.
HeldFirst ==
  /\ \A t \in Held :
       /\ GenOf[t] <= latest
       /\ \A i \in 1..Len(toGuest) :
            Timed(toGuest[i]) => GenOf[t] <= toGuest[i].gen
  /\ job # NoText /\ pendingJob # NoText => GenOf[job] <= GenOf[pendingJob]

\* The generation being cancelled lies between the two.
TargetBetween ==
  Serving =>
    /\ target > 0 /\ target \in cancelled /\ target <= latest
    /\ \A i \in 1..Len(toGuest) : Timed(toGuest[i]) => target <= toGuest[i].gen
    /\ \A t \in Held : GenOf[t] <= target

\* Once the comparison has succeeded, every job held is of that generation,
\* and no other can be read before the flag is up.
TargetIsHeld ==
  ending = 0 /\ mainPc = "raise" => \A t \in Held : GenOf[t] = target

ShutdownStored ==
  (ending > 0 /\ mainPc # "stop") \/ mainPc \in {"aim", "wake", "join", "exited"}
    => shuttingDown

Ordered == StreamOrdered /\ HeldFirst /\ TargetBetween
Guarded == TargetIsHeld /\ ShutdownStored /\ SparesOthers
IInv == TypeOK /\ Tagged /\ Ordered /\ Guarded

------------------------------------------------------------------------------
(* What the two operations on a channel do to its elements. *)

LEMMA AppendElements ==
  ASSUME NEW S, NEW s \in Seq(S), NEW m \in S
  PROVE  /\ Append(s, m) \in Seq(S)
         /\ Len(Append(s, m)) = Len(s) + 1
         /\ \A i \in 1..Len(s) : Append(s, m)[i] = s[i]
         /\ Append(s, m)[Len(s) + 1] = m
  OBVIOUS

LEMMA TailElements ==
  ASSUME NEW S, NEW s \in Seq(S), s # <<>>
  PROVE  /\ Tail(s) \in Seq(S)
         /\ Len(Tail(s)) = Len(s) - 1
         /\ Len(s) > 0
         /\ Head(s) \in S
         /\ Head(s) = s[1]
         /\ \A i \in 1..Len(Tail(s)) : i + 1 \in 1..Len(s) /\ Tail(s)[i] = s[i + 1]
  OBVIOUS

\* A write appends a frame of the right type and respects the bound.
LEMMA SendToGuestTyped ==
  ASSUME ChannelTypeOK, NEW m \in ToGuestMessage, SendToGuest(m)
  PROVE  toGuest' \in Seq(ToGuestMessage) /\ Len(toGuest') <= ToGuestCap
  BY AppendElements, ChannelAssumption DEF ChannelTypeOK, SendToGuest

LEMMA SendToHostTyped ==
  ASSUME ChannelTypeOK, NEW m \in ToHostMessage, SendToHost(m)
  PROVE  toHost' \in Seq(ToHostMessage) /\ Len(toHost') <= ToHostCap
  BY AppendElements, ChannelAssumption DEF ChannelTypeOK, SendToHost

\* Taking the head of the stream to the guest.
LEMMA ReceiveTyped ==
  ASSUME ChannelTypeOK, NEW type, Receive(type)
  PROVE  /\ toGuest' \in Seq(ToGuestMessage) /\ Len(toGuest') <= ToGuestCap
         /\ Head(toGuest) \in ToGuestMessage
         /\ Head(toGuest) = toGuest[1] /\ Len(toGuest) > 0
  BY TailElements, ChannelAssumption DEF ChannelTypeOK, Receive

LEMMA FramesTyped ==
  /\ \A t \in Text : Speak(t) \in ToGuestMessage /\ GenOf[t] \in Nat /\ GenOf[t] > 0
  /\ \A g \in Nat : Cancel(g) \in ToGuestMessage /\ Empty(g) \in ToGuestMessage
  /\ Quit \in ToGuestMessage /\ Bad \in ToGuestMessage
  /\ \A type \in {"audio", "done", "error", "cancelled"}, g \in Nat,
       t \in Maybe(Text), k \in Nat : Frame(type, g, t, k) \in ToHostMessage
  BY ChannelAssumption DEF Speak, Cancel, Empty, Quit, Bad, Frame,
     ToGuestMessage, ToHostMessage, Maybe

\* The history keeps its types whatever the guest writes.
LEMMA HistoryTyped ==
  ASSUME TypeOK, IF Wrote THEN Record(Written) ELSE UNCHANGED historyVars
  PROVE  /\ heard' \in [Text -> Nat]
         /\ verdict' \in [Text -> {"none", "done", "error"}]
  BY DEF TypeOK, Record, historyVars

------------------------------------------------------------------------------
(* Type correctness. *)

\* A step that leaves the engine alone leaves its type alone.
LEMMA EngineKept == ASSUME EngineOK, UNCHANGED engine PROVE EngineOK'
  BY DEF EngineOK, engine

\* A job whose voice is selected has an engine of the right type.
LEMMA EngineMade == ASSUME job \in Text, Initialize PROVE EngineOK'
<1>1. /\ synth' \in Language \X Model /\ currentLanguage' \in Language
      /\ currentModel' \in Model
  BY VoiceAssumption DEF Initialize, VoiceOf
<1> QED BY <1>1 DEF EngineOK

LEMMA GuestTyped ==
  ASSUME TypeOK, GuestNext
  PROVE  ChannelTypeOK' /\ GuestTypeOK' /\ Len(toHost') <= ToHostCap
<1>0. UNCHANGED engine => EngineOK'
  BY EngineKept DEF TypeOK, GuestTypeOK
<1> USE <1>0, ChannelAssumption
    DEF TypeOK, ChannelTypeOK, GuestTypeOK, channelVars, mainVars, workerVars,
        sharedVars, guestVars, MainPc, WorkerPc, Engaged, Maybe
<1>1. CASE ReadSpeak
  BY <1>1, ReceiveTyped DEF ReadSpeak, Receive, ToGuestMessage
<1>2. CASE ReadEmpty
  <2>1. Frame("error", Head(toGuest).gen, NoText, 0) \in ToHostMessage
    BY <1>2, ReceiveTyped, FramesTyped DEF ReadEmpty, ToGuestMessage
  <2> QED
    BY <1>2, <2>1, ReceiveTyped, SendToHostTyped DEF ReadEmpty
<1>3. CASE ReadCancel
  BY <1>3, ReceiveTyped DEF ReadCancel, Receive, ToGuestMessage
<1>4. CASE ReadQuit
  BY <1>4, ReceiveTyped DEF ReadQuit, Receive
<1>5. CASE ReadBad
  BY <1>5, ReceiveTyped DEF ReadBad, Receive
<1>6. CASE NotifyOne
  BY <1>6 DEF NotifyOne, Woken
<1>7. CASE CompareActive
  BY <1>7 DEF CompareActive, Return
<1>8. CASE RaiseCancelling
  BY <1>8 DEF RaiseCancelling
<1>9. CASE ReportCancelled
  BY <1>9, SendToHostTyped, FramesTyped DEF ReportCancelled, Return
<1>10. CASE StoreShuttingDown
  BY <1>10 DEF StoreShuttingDown
<1>11. CASE AimAtActive
  BY <1>11 DEF AimAtActive
<1>12. CASE NotifyAll
  BY <1>12 DEF NotifyAll, Woken
<1>13. CASE JoinWorker
  BY <1>13 DEF JoinWorker
<1>14. CASE CheckShutdown
  BY <1>14 DEF CheckShutdown, Goto
<1>15. CASE WaitLeave
  BY <1>15 DEF WaitLeave, Goto
<1>16. CASE WaitTake
  BY <1>16 DEF WaitTake, Goto
<1>17. CASE WaitPark
  BY <1>17 DEF WaitPark, Goto
<1>18. CASE Park
  BY <1>18 DEF Park, Goto
<1>19. CASE ClearCancelling
  BY <1>19 DEF ClearCancelling, Goto
<1>20. CASE Activate
  BY <1>20 DEF Activate, Goto
<1>21. CASE SelectVoice
  <2>1. CASE Kept
    BY <1>21, <2>1 DEF SelectVoice, Goto
  <2>2. CASE ~Kept
    <3>1. EngineOK'
      BY <1>21, <2>2, EngineMade DEF SelectVoice, Goto
    <3> QED BY <1>21, <2>2, <3>1 DEF SelectVoice, Goto
  <2> QED BY <2>1, <2>2
<1>22. CASE ChunkLoop
  BY <1>22 DEF ChunkLoop, Goto
<1>23. CASE Callback
  <2>1. CASE activeGeneration = 0 \/ cancelling
    BY SMTT(30), <1>23, <2>1 DEF Callback, Goto
  <2>2. CASE ~(activeGeneration = 0 \/ cancelling)
    BY <1>23, <2>2 DEF Callback, Goto
  <2> QED BY <2>1, <2>2
<1>24. CASE EmitAudio
  BY <1>24, SendToHostTyped, FramesTyped DEF EmitAudio, Goto
<1>25. CASE Verdict
  BY <1>25 DEF Verdict, Goto
<1>26. CASE Reply
  BY <1>26, SendToHostTyped, FramesTyped DEF Reply, Goto
<1>27. CASE Retire
  BY <1>27 DEF Retire, Goto
<1>28. CASE SelectFails
  <2>1. EngineOK'
    BY <1>28 DEF SelectFails, EngineOK
  <2> QED BY <1>28, <2>1 DEF SelectFails, Goto
<1>29. CASE EngineFails
  BY <1>29 DEF EngineFails, Goto
<1>30. CASE SpuriousWakeup
  BY <1>30 DEF SpuriousWakeup, Goto
<1> QED
  BY <1>1, <1>2, <1>3, <1>4, <1>5, <1>6, <1>7, <1>8, <1>9, <1>10, <1>11,
     <1>12, <1>13, <1>14, <1>15, <1>16, <1>17, <1>18, <1>19, <1>20, <1>21,
     <1>22, <1>23, <1>24, <1>25, <1>26, <1>27, <1>28, <1>29, <1>30
  DEF GuestNext, MainStep, WorkerStep, WorkerMishap

\* A step of the host disturbs the channel and what the host remembers only.
LEMMA HostTyped ==
  ASSUME TypeOK, HostNext
  PROVE  TypeOK'
<1>0. UNCHANGED engine => EngineOK'
  BY EngineKept DEF TypeOK, GuestTypeOK
<1> USE <1>0, ChannelAssumption
    DEF TypeOK, ChannelTypeOK, GuestTypeOK, channelVars, mainVars, workerVars,
        sharedVars, guestVars, hostVars, historyVars
<1>1. ASSUME NEW t \in Text, HostSpeak(t) PROVE TypeOK'
  <2>1. sent' \in Seq(Text) /\ latest' \in Nat
    BY <1>1, FramesTyped DEF HostSpeak
  <2> QED BY <1>1, <2>1, SendToGuestTyped, FramesTyped DEF HostSpeak
<1>2. ASSUME NEW g \in Generation, HostCancel(g) PROVE TypeOK'
  <2>1. g \in Nat BY <1>2, FramesTyped DEF Generation
  <2> QED BY <1>2, <2>1, SendToGuestTyped, FramesTyped DEF HostCancel
<1>3. ASSUME NEW g \in Generation, HostSpeakEmpty(g) PROVE TypeOK'
  <2>1. g \in Nat BY <1>3, FramesTyped DEF Generation
  <2> QED BY <1>3, <2>1, SendToGuestTyped, FramesTyped DEF HostSpeakEmpty
<1>4. CASE HostClose
  BY <1>4, SendToGuestTyped, FramesTyped DEF HostClose
<1>5. CASE HostReceive
  BY <1>5, TailElements DEF HostReceive
<1> QED BY <1>1, <1>2, <1>3, <1>4, <1>5 DEF HostNext

LEMMA TypeInductive == TypeOK /\ [Next]_vars => TypeOK'
<1> SUFFICES ASSUME TypeOK, [Next]_vars PROVE TypeOK' OBVIOUS
<1>1. CASE GuestStep(GuestNext)
  <2>1. ChannelTypeOK' /\ GuestTypeOK' /\ Len(toHost') <= ToHostCap
    BY <1>1, GuestTyped DEF GuestStep
  <2>2. heard' \in [Text -> Nat] /\ verdict' \in [Text -> {"none", "done", "error"}]
    BY <1>1, HistoryTyped DEF GuestStep
  <2> QED BY <1>1, <2>1, <2>2 DEF GuestStep, hostVars, TypeOK
<1>2. CASE HostNext
  BY <1>2, HostTyped
<1>3. CASE UNCHANGED vars
  <2>1. EngineOK'
    BY <1>3, EngineKept
    DEF vars, guestVars, workerVars, TypeOK, GuestTypeOK
  <2> QED
    BY <1>3, <2>1
    DEF vars, TypeOK, ChannelTypeOK, GuestTypeOK, channelVars, mainVars,
        workerVars, sharedVars, guestVars, hostVars, historyVars
<1> QED BY <1>1, <1>2, <1>3 DEF Next

LEMMA TypeInitial == Init => TypeOK
<1> SUFFICES ASSUME Init PROVE TypeOK OBVIOUS
<1>1. ChannelTypeOK /\ Len(toHost) <= ToHostCap
  BY ChannelAssumption DEF Init, ChannelInit, ChannelTypeOK
<1>2. GuestTypeOK
  <2>1. shuttingDown \in BOOLEAN /\ cancelling \in BOOLEAN /\ succeeded \in BOOLEAN
    BY Zenon DEF Init, GuestInit
  <2>2. /\ mainPc = "read" /\ target = 0 /\ ending = 0 /\ pendingJob = NoText
        /\ activeGeneration = 0 /\ workerPc = "check" /\ job = NoText
        /\ synth = NoVoice /\ currentLanguage = NoVoice /\ currentModel = NoVoice
        /\ offset = 0
    BY Zenon DEF Init, GuestInit
  <2>3. EngineOK
    BY <2>2 DEF EngineOK
  <2> QED
    BY <2>1, <2>2, <2>3, ChannelAssumption
    DEF GuestTypeOK, MainPc, WorkerPc, Engaged, Maybe
<1>3. sent \in Seq(Text) /\ cancelled \subseteq Nat /\ latest \in Nat
  BY DEF Init
<1> QED BY <1>1, <1>2, <1>3 DEF Init, TypeOK

\* For every set of texts, of voices and every capacity, the two threads, the
\* channel and the history stay in their types and the program counters agree
\* with the slot and the piece counter.
THEOREM TypeCorrect == Spec => []TypeOK
BY TypeInitial, TypeInductive, PTL DEF Spec

------------------------------------------------------------------------------
(* Every reply carries the generation of its text. *)

\* A frame written with the right generation joins others that have it.
LEMMA WriteKeepsTags ==
  ASSUME TypeOK, RepliesTagged, NEW m \in ToHostMessage, SendToHost(m),
         m.text # NoText => m.gen = GenOf[m.text]
  PROVE  RepliesTagged'
<1>1. toHost \in Seq(ToHostMessage) /\ toHost' = Append(toHost, m)
  BY DEF SendToHost, TypeOK, ChannelTypeOK
<1>2. /\ Len(toHost') = Len(toHost) + 1
      /\ \A i \in 1..Len(toHost) : toHost'[i] = toHost[i]
      /\ toHost'[Len(toHost) + 1] = m
  BY <1>1, AppendElements
<1> SUFFICES ASSUME NEW i \in 1..Len(toHost'), toHost'[i].text # NoText
             PROVE  toHost'[i].gen = GenOf[toHost'[i].text]
  BY DEF RepliesTagged
<1>3. CASE i \in 1..Len(toHost)
  BY <1>2, <1>3 DEF RepliesTagged
<1>4. CASE i = Len(toHost) + 1
  BY <1>2, <1>4
<1> QED BY <1>1, <1>2, <1>3, <1>4

LEMMA ActiveIsJobKept ==
  ASSUME TypeOK, ActiveIsJob, GuestNext
  PROVE  ActiveIsJob'
<1> USE DEF ActiveIsJob, Engaged, channelVars, mainVars, workerVars,
        sharedVars, guestVars
<1>1. CASE MainStep
  <2>1. UNCHANGED <<activeGeneration, job>>
    BY <1>1 DEF MainStep, ReadSpeak, ReadEmpty, ReadCancel, ReadQuit, ReadBad,
       NotifyOne, CompareActive, RaiseCancelling, ReportCancelled,
       StoreShuttingDown, AimAtActive, NotifyAll, JoinWorker
  <2>2. workerPc' \in {workerPc, Woken}
    BY <1>1 DEF MainStep, ReadSpeak, ReadEmpty, ReadCancel, ReadQuit, ReadBad,
       NotifyOne, CompareActive, RaiseCancelling, ReportCancelled,
       StoreShuttingDown, AimAtActive, NotifyAll, JoinWorker
  <2> QED BY <2>1, <2>2 DEF Woken
<1>2. CASE Activate
  BY <1>2 DEF Activate, Goto
<1>3. CASE Retire
  BY <1>3 DEF Retire, Goto
<1>4. CASE \/ CheckShutdown \/ WaitLeave \/ WaitTake \/ WaitPark \/ Park
           \/ SpuriousWakeup \/ ClearCancelling
  BY <1>4 DEF CheckShutdown, WaitLeave, WaitTake, WaitPark, Park,
     SpuriousWakeup, ClearCancelling, Goto
<1>5. CASE \/ SelectVoice \/ ChunkLoop \/ EmitAudio \/ Verdict \/ Reply
           \/ WorkerMishap
  BY <1>5 DEF SelectVoice, ChunkLoop, EmitAudio, Verdict, Reply,
     WorkerMishap, SelectFails, EngineFails, Goto
<1>6. CASE Callback
  BY <1>6 DEF Callback, Goto
<1> QED BY <1>1, <1>2, <1>3, <1>4, <1>5, <1>6 DEF GuestNext, WorkerStep

LEMMA RepliesTaggedKept ==
  ASSUME TypeOK, Tagged, GuestNext
  PROVE  RepliesTagged'
<1> USE DEF Tagged
<1>1. CASE ReadEmpty
  <2>1. /\ Frame("error", Head(toGuest).gen, NoText, 0) \in ToHostMessage
        /\ Frame("error", Head(toGuest).gen, NoText, 0).text = NoText
    BY <1>1, ReceiveTyped, FramesTyped
    DEF ReadEmpty, ToGuestMessage, TypeOK, Maybe, Frame
  <2> QED BY <1>1, <2>1, WriteKeepsTags DEF ReadEmpty
<1>2. CASE ReportCancelled
  <2>1. /\ Frame("cancelled", target, NoText, 0) \in ToHostMessage
        /\ Frame("cancelled", target, NoText, 0).text = NoText
    BY FramesTyped DEF TypeOK, GuestTypeOK, Maybe, Frame
  <2> QED BY <1>2, <2>1, WriteKeepsTags DEF ReportCancelled
<1>3. CASE EmitAudio
  <2> DEFINE m == Frame("audio", activeGeneration, job, offset + 1)
  <2>1. m \in ToHostMessage
    BY FramesTyped, ChannelAssumption DEF TypeOK, GuestTypeOK
  <2>2. m.gen = GenOf[m.text]
    BY <1>3 DEF EmitAudio, Goto, ActiveIsJob, Engaged, Frame
  <2> QED BY <1>3, <2>1, <2>2, WriteKeepsTags DEF EmitAudio
<1>4. CASE Reply
  <2> DEFINE m == Frame(IF succeeded THEN "done" ELSE "error", GenOf[job], job, 0)
  <2>1. m \in ToHostMessage
    BY <1>4, FramesTyped
    DEF TypeOK, GuestTypeOK, Reply, Goto, Engaged, Maybe
  <2>2. m.gen = GenOf[m.text]
    BY DEF Frame
  <2> QED BY <1>4, <2>1, <2>2, WriteKeepsTags DEF Reply
<1>5. CASE UNCHANGED toHost
  BY <1>5 DEF RepliesTagged
<1>6. \/ ReadEmpty \/ ReportCancelled \/ EmitAudio \/ Reply
      \/ UNCHANGED toHost
  BY DEF GuestNext, MainStep, WorkerStep, WorkerMishap, ReadSpeak, ReadCancel,
     ReadQuit, ReadBad, NotifyOne, CompareActive, RaiseCancelling,
     StoreShuttingDown, AimAtActive, NotifyAll, JoinWorker, CheckShutdown,
     WaitLeave, WaitTake, WaitPark, Park, SpuriousWakeup, ClearCancelling,
     Activate, SelectVoice, ChunkLoop, Callback, Verdict, Retire, SelectFails,
     EngineFails, channelVars
<1> QED BY <1>1, <1>2, <1>3, <1>4, <1>5, <1>6

LEMMA TaggedInductive == TypeOK /\ Tagged /\ [Next]_vars => Tagged'
<1> SUFFICES ASSUME TypeOK, Tagged, [Next]_vars PROVE Tagged' OBVIOUS
<1>1. CASE GuestStep(GuestNext)
  BY <1>1, ActiveIsJobKept, RepliesTaggedKept DEF GuestStep, Tagged
<1>2. CASE HostReceive
  <2>1. /\ Len(toHost') = Len(toHost) - 1
        /\ \A i \in 1..Len(toHost') :
             i + 1 \in 1..Len(toHost) /\ toHost'[i] = toHost[i + 1]
    BY <1>2, TailElements DEF HostReceive, TypeOK, ChannelTypeOK
  <2> QED
    BY <1>2, <2>1
    DEF HostReceive, Tagged, ActiveIsJob, RepliesTagged, guestVars, workerVars,
        sharedVars
<1>3. CASE UNCHANGED <<toHost, guestVars>>
  BY <1>3 DEF Tagged, ActiveIsJob, RepliesTagged, guestVars, workerVars,
     sharedVars
<1>4. \/ GuestStep(GuestNext) \/ HostReceive \/ UNCHANGED <<toHost, guestVars>>
  BY DEF Next, HostNext, HostSpeak, HostCancel, HostSpeakEmpty, HostClose, vars,
     channelVars
<1> QED BY <1>1, <1>2, <1>3, <1>4

LEMMA TaggedInitial == Init => Tagged
BY DEF Init, ChannelInit, GuestInit, Tagged, ActiveIsJob, RepliesTagged, Engaged

\* Whatever the texts and generations, every frame about a text carries the
\* generation the text was submitted under: activeGeneration, which
\* streamCallback reads without a lock, is that of the worker's job for as
\* long as the engine may call back (samsung_guest.cpp:115, 187, 235).
THEOREM RepliesAlwaysTagged == Spec => []RepliesTagged
<1>1. Init => TypeOK /\ Tagged
  BY TypeInitial, TaggedInitial
<1>2. TypeOK /\ Tagged /\ [Next]_vars => (TypeOK /\ Tagged)'
  BY TypeInductive, TaggedInductive
<1>3. TypeOK /\ Tagged => RepliesTagged
  BY DEF Tagged
<1> QED BY <1>1, <1>2, <1>3, PTL DEF Spec

------------------------------------------------------------------------------
(* A cancellation hits no job but one of a cancelled generation. *)

\* Reading a frame keeps the rest in order, after what is held already.
LEMMA ReadKeepsOrder ==
  ASSUME IInv, NEW type, Receive(type), UNCHANGED <<latest, cancelled>>
  PROVE  /\ StreamOrdered'
         /\ Timed(Head(toGuest)) =>
              /\ Head(toGuest).gen <= latest
              /\ \A i \in 1..Len(toGuest') :
                   Timed(toGuest'[i]) => Head(toGuest).gen <= toGuest'[i].gen
              /\ \A t \in Held : GenOf[t] <= Head(toGuest).gen
         /\ \A t \in Held, i \in 1..Len(toGuest') :
              Timed(toGuest'[i]) => GenOf[t] <= toGuest'[i].gen
<1> USE DEF IInv, Ordered, StreamOrdered, HeldFirst
<1>1. /\ toGuest' = Tail(toGuest) /\ toGuest # <<>>
      /\ toGuest \in Seq(ToGuestMessage)
  BY DEF Receive, TypeOK, ChannelTypeOK
<1>2. /\ Len(toGuest') = Len(toGuest) - 1 /\ Len(toGuest) > 0
      /\ Len(toGuest) \in Nat
      /\ Head(toGuest) = toGuest[1]
      /\ \A i \in 1..Len(toGuest') :
           i + 1 \in 1..Len(toGuest) /\ toGuest'[i] = toGuest[i + 1]
  BY <1>1, TailElements
<1>3. \A i, j \in 1..Len(toGuest') :
        i < j /\ Timed(toGuest'[i]) /\ Timed(toGuest'[j])
          => toGuest'[i].gen <= toGuest'[j].gen
  <2> SUFFICES ASSUME NEW i \in 1..Len(toGuest'), NEW j \in 1..Len(toGuest'),
                      i < j, Timed(toGuest'[i]), Timed(toGuest'[j])
               PROVE  toGuest'[i].gen <= toGuest'[j].gen
    OBVIOUS
  <2>1. i + 1 \in 1..Len(toGuest) /\ j + 1 \in 1..Len(toGuest) /\ i + 1 < j + 1
    BY <1>2
  <2> QED BY <1>2, <2>1
<1>4. StreamOrdered'
  BY SMTT(30), <1>2, <1>3
<1>5. ASSUME Timed(Head(toGuest))
      PROVE  /\ Head(toGuest).gen <= latest
             /\ \A i \in 1..Len(toGuest') :
                  Timed(toGuest'[i]) => Head(toGuest).gen <= toGuest'[i].gen
             /\ \A t \in Held : GenOf[t] <= Head(toGuest).gen
  <2>1. 1 \in 1..Len(toGuest) BY <1>2
  <2>2. ASSUME NEW i \in 1..Len(toGuest'), Timed(toGuest'[i])
        PROVE  Head(toGuest).gen <= toGuest'[i].gen
    <3>1. i + 1 \in 1..Len(toGuest) /\ 1 < i + 1 /\ toGuest'[i] = toGuest[i + 1]
      BY <1>2
    <3> QED BY <1>2, <1>5, <2>1, <2>2, <3>1
  <2> QED BY <1>2, <1>5, <2>1, <2>2
<1>6. \A t \in Held, i \in 1..Len(toGuest') :
        Timed(toGuest'[i]) => GenOf[t] <= toGuest'[i].gen
  BY <1>2
<1> QED BY <1>4, <1>5, <1>6

\* Writing a frame no older than the last one written keeps the order.
LEMMA WriteKeepsOrder ==
  ASSUME IInv, NEW m \in ToGuestMessage, SendToGuest(m), UNCHANGED guestVars,
         latest' \in Nat, latest <= latest', cancelled \subseteq cancelled',
         Timed(m) => latest <= m.gen /\ m.gen <= latest',
         m.type = "cancel" => m.gen > 0 /\ m.gen \in cancelled',
         m.text # NoText => m.gen = GenOf[m.text]
  PROVE  Ordered' /\ Guarded'
<1> USE DEF guestVars, mainVars, workerVars, sharedVars
<1>1. toGuest \in Seq(ToGuestMessage) /\ toGuest' = Append(toGuest, m)
  BY DEF SendToGuest, IInv, TypeOK, ChannelTypeOK
<1>2. /\ Len(toGuest') = Len(toGuest) + 1 /\ Len(toGuest) \in Nat
      /\ \A i \in 1..Len(toGuest) : toGuest'[i] = toGuest[i]
      /\ toGuest'[Len(toGuest) + 1] = m
      /\ \A i \in 1..Len(toGuest') : i \in 1..Len(toGuest) \/ i = Len(toGuest) + 1
  BY <1>1, AppendElements
<1>3. m.gen \in Nat /\ \A i \in 1..Len(toGuest) : toGuest[i].gen \in Nat
  <2>1. \A i \in 1..Len(toGuest) : toGuest[i] \in ToGuestMessage
    BY <1>1
  <2> QED BY <2>1 DEF ToGuestMessage
<1>4. \A t \in Held : GenOf[t] \in Nat
  BY FramesTyped DEF Held, IInv, TypeOK, GuestTypeOK, Maybe
<1>5. latest \in Nat /\ target \in Nat
  BY DEF IInv, TypeOK, GuestTypeOK
<1>6. StreamOrdered'
  <2>1. ASSUME NEW i \in 1..Len(toGuest'), NEW j \in 1..Len(toGuest'),
               i < j, Timed(toGuest'[i]), Timed(toGuest'[j])
        PROVE  toGuest'[i].gen <= toGuest'[j].gen
    <3>1. i \in 1..Len(toGuest) BY <1>2, <2>1
    <3>2. CASE j \in 1..Len(toGuest)
      BY <1>2, <2>1, <3>1, <3>2 DEF IInv, Ordered, StreamOrdered
    <3>3. CASE j = Len(toGuest) + 1
      BY <1>2, <1>3, <1>5, <2>1, <3>1, <3>3 DEF IInv, Ordered, StreamOrdered
    <3> QED BY <1>2, <3>2, <3>3
  <2>2. ASSUME NEW i \in 1..Len(toGuest')
        PROVE  /\ Timed(toGuest'[i]) => toGuest'[i].gen <= latest'
               /\ toGuest'[i].type = "cancel" =>
                    toGuest'[i].gen > 0 /\ toGuest'[i].gen \in cancelled'
               /\ toGuest'[i].text # NoText =>
                    toGuest'[i].gen = GenOf[toGuest'[i].text]
    <3>1. CASE i \in 1..Len(toGuest)
      BY <1>2, <1>3, <1>5, <3>1 DEF IInv, Ordered, StreamOrdered
    <3>2. CASE i = Len(toGuest) + 1
      BY <1>2, <3>2
    <3> QED BY <1>2, <3>1, <3>2
  <2> QED BY <2>1, <2>2 DEF StreamOrdered
<1>7. HeldFirst'
  <2>1. ASSUME NEW t \in Held
        PROVE  /\ GenOf[t] <= latest'
               /\ \A i \in 1..Len(toGuest') :
                    Timed(toGuest'[i]) => GenOf[t] <= toGuest'[i].gen
    BY <1>2, <1>3, <1>4, <1>5 DEF IInv, Ordered, HeldFirst
  <2>2. Held' = Held /\ UNCHANGED <<job, pendingJob>>
    BY DEF Held
  <2> QED BY <2>1, <2>2 DEF IInv, Ordered, HeldFirst
<1>8. TargetBetween'
  <2>1. ASSUME Serving
        PROVE  /\ target > 0 /\ target \in cancelled' /\ target <= latest'
               /\ \A i \in 1..Len(toGuest') :
                    Timed(toGuest'[i]) => target <= toGuest'[i].gen
               /\ \A t \in Held : GenOf[t] <= target
    BY <1>2, <1>3, <1>5, <2>1 DEF IInv, Ordered, TargetBetween
  <2>2. Held' = Held /\ Serving' = Serving /\ target' = target
    BY DEF Held, Serving
  <2> QED BY <2>1, <2>2 DEF TargetBetween
<1>9. Guarded'
  BY DEF IInv, Guarded, TargetIsHeld, ShutdownStored, SparesOthers, Held
<1> QED BY <1>6, <1>7, <1>8, <1>9 DEF Ordered

\* A step that reads no frame and at most moves or drops a job.
LEMMA QuietKeepsOrder ==
  ASSUME IInv, UNCHANGED <<toGuest, latest, cancelled>>,
         \/ UNCHANGED <<job, pendingJob>>
         \/ job' = pendingJob /\ pendingJob' = NoText
         \/ job' = NoText /\ UNCHANGED pendingJob
  PROVE  StreamOrdered' /\ HeldFirst' /\ Held' \subseteq Held
<1>1. Held' \subseteq Held
  BY DEF Held
<1>2. StreamOrdered'
  BY DEF IInv, Ordered, StreamOrdered
<1>3. HeldFirst'
  BY <1>1 DEF IInv, Ordered, HeldFirst
<1> QED BY <1>1, <1>2, <1>3

LEMMA MainKeepsOrder ==
  ASSUME IInv, MainStep, UNCHANGED <<latest, cancelled>>
  PROVE  Ordered' /\ Guarded'
<1> USE DEF channelVars, mainVars, workerVars, sharedVars, guestVars
<1>0. TypeOK
  BY DEF IInv
<1>1. CASE ReadSpeak
  <2>1. /\ mainPc = "read" /\ mainPc' = "notify" /\ pendingJob' = Head(toGuest).text
        /\ UNCHANGED <<job, workerPc, target, ending, cancelling, shuttingDown>>
        /\ Timed(Head(toGuest)) /\ Head(toGuest).text # NoText
    BY <1>1 DEF ReadSpeak, Receive, Timed
  <2>2. Head(toGuest).gen = GenOf[Head(toGuest).text]
    <3>1. toGuest # <<>> /\ toGuest \in Seq(ToGuestMessage)
      BY <1>0, <1>1 DEF ReadSpeak, Receive, TypeOK, ChannelTypeOK
    <3>2. Head(toGuest) = toGuest[1] /\ 1 \in 1..Len(toGuest)
      BY <3>1, TailElements
    <3>3. \A i \in 1..Len(toGuest) :
            toGuest[i].text # NoText => toGuest[i].gen = GenOf[toGuest[i].text]
      BY DEF IInv, Ordered, StreamOrdered
    <3> QED BY <2>1, <3>2, <3>3
  <2>3. StreamOrdered'
    BY <1>1, ReadKeepsOrder DEF ReadSpeak
  <2>4. HeldFirst'
    <3>1. /\ GenOf[pendingJob'] <= latest
          /\ \A i \in 1..Len(toGuest') :
               Timed(toGuest'[i]) => GenOf[pendingJob'] <= toGuest'[i].gen
      BY <1>1, <2>1, <2>2, ReadKeepsOrder DEF ReadSpeak
    <3>2. job # NoText =>
            /\ GenOf[job] <= latest /\ GenOf[job] <= GenOf[pendingJob']
            /\ \A i \in 1..Len(toGuest') :
                 Timed(toGuest'[i]) => GenOf[job] <= toGuest'[i].gen
      BY <1>1, <2>1, <2>2, ReadKeepsOrder
      DEF ReadSpeak, Held, IInv, Ordered, HeldFirst
    <3> QED BY <2>1, <3>1, <3>2 DEF HeldFirst, Held
  <2> QED
    BY <2>1, <2>3, <2>4
    DEF IInv, Ordered, Guarded, TargetBetween, TargetIsHeld, ShutdownStored,
        SparesOthers, Serving
<1>2. CASE ReadEmpty \/ ReadQuit \/ ReadBad
  <2>1. /\ UNCHANGED <<job, pendingJob, workerPc, cancelling, shuttingDown>>
        /\ (mainPc' = "read" /\ UNCHANGED ending) \/ mainPc' = "stop"
        /\ mainPc = "read"
        /\ Receive("speak") \/ Receive("quit") \/ Receive("bad")
    BY <1>2 DEF ReadEmpty, ReadQuit, ReadBad, Receive
  <2>2. /\ StreamOrdered'
        /\ \A t \in Held, i \in 1..Len(toGuest') :
             Timed(toGuest'[i]) => GenOf[t] <= toGuest'[i].gen
    BY <2>1, ReadKeepsOrder
  <2>3. HeldFirst'
    BY <2>1, <2>2 DEF HeldFirst, Held, IInv, Ordered
  <2> QED
    BY <2>1, <2>2, <2>3
    DEF IInv, Ordered, Guarded, TargetBetween, TargetIsHeld, ShutdownStored,
        SparesOthers, Serving
<1>3. CASE ReadCancel
  <2>1. /\ UNCHANGED <<job, pendingJob, workerPc, cancelling, shuttingDown, ending>>
        /\ mainPc' = "compare" /\ target' = Head(toGuest).gen
        /\ mainPc = "read" /\ Receive("cancel")
    BY <1>3 DEF ReadCancel, Receive
  <2>2. target' > 0 /\ target' \in cancelled /\ Timed(Head(toGuest))
    BY <1>0, <2>1, TailElements
    DEF IInv, Ordered, StreamOrdered, Receive, TypeOK, ChannelTypeOK, Timed
  <2>3. /\ StreamOrdered' /\ target' <= latest
        /\ \A i \in 1..Len(toGuest') :
             Timed(toGuest'[i]) => target' <= toGuest'[i].gen
        /\ \A t \in Held : GenOf[t] <= target'
        /\ \A t \in Held, i \in 1..Len(toGuest') :
             Timed(toGuest'[i]) => GenOf[t] <= toGuest'[i].gen
    BY <2>1, <2>2, ReadKeepsOrder
  <2>4. HeldFirst' /\ Held' = Held
    BY <2>1, <2>3 DEF HeldFirst, Held, IInv, Ordered
  <2>5. TargetBetween'
    BY <2>2, <2>3, <2>4 DEF TargetBetween
  <2> QED
    BY <2>1, <2>3, <2>4, <2>5
    DEF IInv, Ordered, Guarded, TargetIsHeld, ShutdownStored, SparesOthers
<1>4. CASE NotifyOne
  <2>1. StreamOrdered' /\ HeldFirst' /\ Held' \subseteq Held
    BY <1>4, QuietKeepsOrder DEF NotifyOne
  <2> QED
    BY <1>4, <2>1
    DEF NotifyOne, Woken, IInv, Ordered, Guarded, TargetBetween, TargetIsHeld,
        ShutdownStored, SparesOthers, Serving, Engaged
<1>5. CASE CompareActive
  <2>1. StreamOrdered' /\ HeldFirst' /\ Held' = Held
    BY <1>5, QuietKeepsOrder DEF CompareActive, Held
  <2>2. /\ mainPc = "compare" /\ UNCHANGED <<target, ending>>
        /\ mainPc' = "raise" \/ mainPc' = Return
        /\ mainPc' = "raise" => activeGeneration = target
    BY <1>5 DEF CompareActive, Return
  <2>3. TargetBetween'
    BY <1>5, <2>1, <2>2
    DEF CompareActive, Return, TargetBetween, Serving, IInv, Ordered
  <2>4. TargetIsHeld'
    <3> SUFFICES ASSUME ending = 0, mainPc' = "raise", NEW t \in Held
                 PROVE  GenOf[t] = target
      BY <2>1, <2>2 DEF TargetIsHeld
    <3>1. GenOf[job] = target /\ target > 0 /\ GenOf[t] <= target /\ job \in Text
      BY <1>0, <2>2
      DEF IInv, Tagged, ActiveIsJob, Ordered, TargetBetween, Serving, TypeOK,
          GuestTypeOK, Engaged
    <3>2. GenOf[job] <= GenOf[t]
      BY <1>0, <3>1, ChannelAssumption DEF IInv, Ordered, HeldFirst, Held
    <3>3. GenOf[t] \in Nat /\ target \in Nat
      BY <1>0, FramesTyped DEF Held, TypeOK, GuestTypeOK, Maybe
    <3> QED BY <3>1, <3>2, <3>3
  <2>5. ShutdownStored' /\ SparesOthers'
    BY <1>0, <1>5, <2>2
    DEF CompareActive, Return, ShutdownStored, SparesOthers, IInv, Guarded,
        TypeOK, GuestTypeOK
  <2> QED BY <2>1, <2>3, <2>4, <2>5 DEF Ordered, Guarded
<1>6. CASE RaiseCancelling
  <2>1. StreamOrdered' /\ HeldFirst' /\ Held' = Held
    BY <1>6, QuietKeepsOrder DEF RaiseCancelling, Held
  <2>2. TargetBetween' /\ TargetIsHeld' /\ ShutdownStored'
    BY <1>6, <2>1
    DEF RaiseCancelling, TargetBetween, TargetIsHeld, ShutdownStored, Serving,
        IInv, Ordered, Guarded
  <2>3. SparesOthers'
    <3> SUFFICES ASSUME workerPc \in {"activate"} \cup Engaged, ~shuttingDown
                 PROVE  GenOf[job] \in cancelled
      BY <1>6 DEF RaiseCancelling, SparesOthers
    <3>1. ending = 0 /\ mainPc = "raise"
      BY <1>0, <1>6
      DEF RaiseCancelling, IInv, Guarded, ShutdownStored, TypeOK, GuestTypeOK
    <3>2. job \in Held
      BY <1>0, ChannelAssumption DEF Held, TypeOK, GuestTypeOK
    <3>3. GenOf[job] = target
      BY <3>1, <3>2 DEF IInv, Guarded, TargetIsHeld
    <3> QED BY <3>1, <3>3 DEF IInv, Ordered, TargetBetween, Serving
  <2> QED BY <2>1, <2>2, <2>3 DEF Ordered, Guarded
<1>7. CASE ReportCancelled
  <2>1. StreamOrdered' /\ HeldFirst' /\ Held' = Held
    BY <1>7, QuietKeepsOrder DEF ReportCancelled, Held
  <2> QED
    BY <1>0, <1>7, <2>1
    DEF ReportCancelled, Return, TargetBetween, TargetIsHeld, ShutdownStored,
        SparesOthers, Serving, IInv, Ordered, Guarded, TypeOK, GuestTypeOK
<1>8. CASE StoreShuttingDown
  <2>1. StreamOrdered' /\ HeldFirst' /\ Held' = Held
    BY <1>8, QuietKeepsOrder DEF StoreShuttingDown, Held
  <2> QED
    BY <1>8, <2>1
    DEF StoreShuttingDown, TargetBetween, TargetIsHeld, ShutdownStored,
        SparesOthers, Serving, IInv, Ordered, Guarded
<1>9. CASE AimAtActive
  <2>1. StreamOrdered' /\ HeldFirst' /\ Held' = Held
    BY <1>9, QuietKeepsOrder DEF AimAtActive, Held
  <2>2. ending > 0 /\ ending' = ending
    BY <1>0, <1>9 DEF AimAtActive, TypeOK, GuestTypeOK
  <2> QED
    BY <1>9, <2>1, <2>2
    DEF AimAtActive, TargetBetween, TargetIsHeld, ShutdownStored,
        SparesOthers, Serving, IInv, Ordered, Guarded
<1>10. CASE NotifyAll
  <2>1. StreamOrdered' /\ HeldFirst' /\ Held' = Held
    BY <1>10, QuietKeepsOrder DEF NotifyAll, Held
  <2>2. shuttingDown /\ shuttingDown' /\ mainPc' \in {"stop", "join"}
    BY <1>10 DEF NotifyAll, IInv, Guarded, ShutdownStored
  <2> QED
    BY <2>1, <2>2
    DEF TargetBetween, TargetIsHeld, ShutdownStored, SparesOthers, Serving,
        Ordered, Guarded
<1>11. CASE JoinWorker
  <2>1. StreamOrdered' /\ HeldFirst' /\ Held' = Held
    BY <1>11, QuietKeepsOrder DEF JoinWorker, Held
  <2> QED
    BY <1>11, <2>1
    DEF JoinWorker, TargetBetween, TargetIsHeld, ShutdownStored,
        SparesOthers, Serving, IInv, Ordered, Guarded
<1> QED
  BY <1>1, <1>2, <1>3, <1>4, <1>5, <1>6, <1>7, <1>8, <1>9, <1>10, <1>11
  DEF MainStep

\* The worker never touches the stream, and of the shared state it lowers the
\* flag, moves the job and rewrites activeGeneration.
LEMMA WorkerKeepsOrder ==
  ASSUME IInv, WorkerStep \/ WorkerMishap \/ SpuriousWakeup,
         UNCHANGED <<latest, cancelled>>
  PROVE  Ordered' /\ Guarded'
<1> USE DEF channelVars, mainVars, sharedVars
<1>1. /\ UNCHANGED <<toGuest, mainPc, target, ending, shuttingDown>>
      /\ \/ UNCHANGED <<job, pendingJob>>
         \/ job' = pendingJob /\ pendingJob' = NoText
         \/ job' = NoText /\ UNCHANGED pendingJob
  BY DEF WorkerStep, WorkerMishap, CheckShutdown, WaitLeave, WaitTake, WaitPark,
     Park, SpuriousWakeup, ClearCancelling, Activate, SelectVoice, ChunkLoop,
     Callback, EmitAudio, Verdict, Reply, Retire, SelectFails, EngineFails
<1>2. StreamOrdered' /\ HeldFirst' /\ Held' \subseteq Held
  BY <1>1, QuietKeepsOrder
<1>3. TargetBetween' /\ TargetIsHeld' /\ ShutdownStored'
  BY <1>1, <1>2
  DEF TargetBetween, TargetIsHeld, ShutdownStored, Serving, IInv, Ordered,
      Guarded
<1>4. SparesOthers'
  <2>1. CASE ClearCancelling
    BY <2>1 DEF ClearCancelling, SparesOthers
  <2>2. CASE \/ CheckShutdown \/ WaitLeave \/ WaitTake \/ WaitPark \/ Park
             \/ SpuriousWakeup \/ Retire
    BY <2>2
    DEF CheckShutdown, WaitLeave, WaitTake, WaitPark, Park, SpuriousWakeup,
        Retire, Goto, SparesOthers, Engaged
  <2>3. CASE \/ Activate \/ SelectVoice \/ ChunkLoop \/ EmitAudio \/ Verdict
             \/ Reply \/ WorkerMishap
    BY <2>3
    DEF Activate, SelectVoice, ChunkLoop, EmitAudio, Verdict, Reply,
        WorkerMishap, SelectFails, EngineFails, Goto, SparesOthers, Engaged,
        IInv, Guarded
  <2>4. CASE Callback
    BY <2>4 DEF Callback, Goto, SparesOthers, Engaged, IInv, Guarded
  <2> QED BY <2>1, <2>2, <2>3, <2>4 DEF WorkerStep
<1> QED BY <1>2, <1>3, <1>4 DEF Ordered, Guarded

LEMMA HostKeepsOrder ==
  ASSUME IInv, HostNext
  PROVE  Ordered' /\ Guarded'
<1>0. latest \in Nat
  BY DEF IInv, TypeOK
<1>1. ASSUME NEW t \in Text, HostSpeak(t) PROVE Ordered' /\ Guarded'
  <2> DEFINE m == Speak(t)
  <2>1. /\ m \in ToGuestMessage /\ GenOf[t] \in Nat
        /\ m.gen = GenOf[t] /\ m.text = t /\ m.type = "speak"
    BY FramesTyped DEF Speak
  <2>2. SendToGuest(m) /\ latest' = GenOf[t] /\ latest <= GenOf[t]
    BY <1>0, <1>1, <2>1 DEF HostSpeak
  <2> HIDE DEF m
  <2> QED BY <1>1, <2>1, <2>2, WriteKeepsOrder DEF HostSpeak
<1>2. ASSUME NEW g \in Generation, HostCancel(g) PROVE Ordered' /\ Guarded'
  <2> DEFINE m == Cancel(g)
  <2>1. /\ g \in Nat /\ g > 0 /\ m \in ToGuestMessage
        /\ m.gen = g /\ m.text = NoText /\ m.type = "cancel"
    BY FramesTyped DEF Cancel, Generation
  <2>2. /\ SendToGuest(m) /\ latest' = g /\ latest <= g
        /\ cancelled' = cancelled \cup {g}
    BY <1>0, <1>2, <2>1 DEF HostCancel
  <2> HIDE DEF m
  <2> QED BY <1>2, <2>1, <2>2, WriteKeepsOrder DEF HostCancel
<1>3. ASSUME NEW g \in Generation, HostSpeakEmpty(g) PROVE Ordered' /\ Guarded'
  <2> DEFINE m == Empty(g)
  <2>1. /\ g \in Nat /\ m \in ToGuestMessage
        /\ m.gen = g /\ m.text = NoText /\ m.type = "speak"
    BY FramesTyped DEF Empty, Generation
  <2>2. SendToGuest(m) /\ latest' = g /\ latest <= g
    BY <1>0, <1>3, <2>1 DEF HostSpeakEmpty
  <2> HIDE DEF m
  <2> QED BY <1>3, <2>1, <2>2, WriteKeepsOrder DEF HostSpeakEmpty
<1>4. CASE HostClose
  <2>1. PICK m \in {Quit, Bad} : SendToGuest(m)
    BY <1>4 DEF HostClose
  <2>2. m \in ToGuestMessage /\ ~Timed(m) /\ m.type # "cancel" /\ m.text = NoText
    BY FramesTyped DEF Quit, Bad, Timed
  <2> QED BY <1>0, <1>4, <2>1, <2>2, WriteKeepsOrder DEF HostClose
<1>5. CASE HostReceive
  <2>1. UNCHANGED <<toGuest, guestVars, latest, cancelled>>
    BY <1>5 DEF HostReceive, hostVars
  <2> QED
    BY <2>1
    DEF IInv, Ordered, Guarded, StreamOrdered, HeldFirst, TargetBetween,
        TargetIsHeld, ShutdownStored, SparesOthers, Held, Serving, guestVars,
        mainVars, workerVars, sharedVars
<1> QED BY <1>1, <1>2, <1>3, <1>4, <1>5 DEF HostNext

LEMMA IInvInductive == IInv /\ [Next]_vars => IInv'
<1> SUFFICES ASSUME IInv, [Next]_vars PROVE IInv' OBVIOUS
<1>1. TypeOK' /\ Tagged'
  BY TypeInductive, TaggedInductive DEF IInv
<1>2. Ordered' /\ Guarded'
  <2>1. CASE GuestStep(GuestNext)
    <3>1. GuestNext /\ UNCHANGED <<latest, cancelled>>
      BY <2>1 DEF GuestStep, hostVars
    <3> QED BY <3>1, MainKeepsOrder, WorkerKeepsOrder DEF GuestNext
  <2>2. CASE HostNext
    BY <2>2, HostKeepsOrder
  <2>3. CASE UNCHANGED vars
    <3>1. UNCHANGED <<toGuest, guestVars, latest, cancelled>>
      BY <2>3 DEF vars, channelVars, hostVars
    <3> QED
      BY <3>1
      DEF IInv, Ordered, Guarded, StreamOrdered, HeldFirst, TargetBetween,
          TargetIsHeld, ShutdownStored, SparesOthers, Held, Serving, guestVars,
          mainVars, workerVars, sharedVars
  <2> QED BY <2>1, <2>2, <2>3 DEF Next
<1> QED BY <1>1, <1>2 DEF IInv

LEMMA IInvInitial == Init => IInv
<1> SUFFICES ASSUME Init PROVE IInv OBVIOUS
<1>1. /\ toGuest = <<>> /\ Len(toGuest) = 0 /\ pendingJob = NoText
      /\ job = NoText /\ mainPc = "read" /\ ending = 0 /\ workerPc = "check"
  BY DEF Init, ChannelInit, GuestInit
<1>2. Ordered
  BY <1>1
  DEF Ordered, StreamOrdered, HeldFirst, TargetBetween, Held, Serving
<1>3. Guarded
  BY <1>1 DEF Guarded, TargetIsHeld, ShutdownStored, SparesOthers, Engaged
<1> QED BY <1>2, <1>3, TypeInitial, TaggedInitial DEF IInv

\* Whatever the texts, the generations and the sizes of the channel: while the
\* worker is on a job and the cancelling flag is up, the host has asked to
\* cancel that job's own generation, or the helper is shutting down.  The flag
\* is raised two steps after the comparison that justifies it, and no lock
\* keeps the worker from taking another job in between; what saves the other
\* job is the order in which the driver writes its frames
\* (samsung_guest.cpp:185-187, 240-244).
THEOREM CancellationSparesOthers == Spec => []SparesOthers
<1>1. Init => IInv
  BY IInvInitial
<1>2. IInv /\ [Next]_vars => IInv'
  BY IInvInductive
<1>3. IInv => SparesOthers
  BY DEF IInv, Guarded
<1> QED BY <1>1, <1>2, <1>3, PTL DEF Spec

------------------------------------------------------------------------------
(* What the helper makes of one text: it speaks it in its voice, streams its *)
(* pieces in order, and calls it done only when all of them were streamed.   *)
(*                                                                           *)
(* A cancellation is seen by the worker at three places (ChunkLoop,          *)
(* Callback, Verdict), each a moment before it acts.  That a piece dropped   *)
(* in between is never forgotten rests on the flag: the main thread only     *)
(* raises it, and the worker lowers it only for the next job.                *)

Unspoken(t) == heard[t] = 0 /\ verdict[t] = "none"

\* Texts on their way are submitted, are there once, and have no history.
Lined ==
  /\ \A i \in 1..Len(toGuest) :
       toGuest[i].text # NoText =>
         /\ toGuest[i].text \in Submitted
         /\ toGuest[i].text \notin Held
         /\ Unspoken(toGuest[i].text)
  /\ \A i, j \in 1..Len(toGuest) :
       i # j /\ toGuest[i].text # NoText => toGuest[i].text # toGuest[j].text
  /\ Held \subseteq Submitted
  /\ pendingJob # NoText => pendingJob # job /\ Unspoken(pendingJob)
  /\ \A t \in Text \ Submitted : Unspoken(t)

\* What the worker has done for its job: it has answered nothing before it
\* retires, and has streamed every piece unless one was dropped, which leaves
\* the flag up, or refused.
InProgress ==
  /\ workerPc \in {"clear", "activate", "select"} => Unspoken(job)
  /\ workerPc \in Engaged \ {"retire"} => verdict[job] = "none"
  /\ workerPc = "select" => offset = 0
  /\ workerPc \in {"loop", "callback"} /\ ~cancelling => heard[job] = offset
  /\ workerPc = "emit" => heard[job] = offset
  /\ workerPc = "verdict" /\ ~cancelling /\ succeeded => heard[job] = Chunks
  /\ workerPc = "reply" /\ succeeded => heard[job] = Chunks

HistoryInv == TypeOK /\ Tagged /\ Lined /\ InProgress /\ DoneMeansComplete

------------------------------------------------------------------------------
(* The history. *)

LEMMA WrittenIs ==
  ASSUME TypeOK, NEW m \in ToHostMessage, SendToHost(m)
  PROVE  Wrote /\ Written = m
<1>1. toHost \in Seq(ToHostMessage) /\ toHost' = Append(toHost, m)
  BY DEF SendToHost, TypeOK, ChannelTypeOK
<1>2. Len(toHost') = Len(toHost) + 1 /\ toHost'[Len(toHost) + 1] = m
  BY <1>1, AppendElements
<1> QED BY <1>1, <1>2 DEF Wrote, Written

\* The frames of the worker are about its job.
LEMMA EmitWrites ==
  ASSUME TypeOK, EmitAudio
  PROVE  Wrote /\ Written = Frame("audio", activeGeneration, job, offset + 1) /\ job \in Text
<1>1. Frame("audio", activeGeneration, job, offset + 1) \in ToHostMessage
  BY FramesTyped, ChannelAssumption DEF TypeOK, GuestTypeOK
<1> QED BY <1>1, WrittenIs DEF EmitAudio, Goto, TypeOK, GuestTypeOK, Engaged

LEMMA ReplyWrites ==
  ASSUME TypeOK, Reply
  PROVE  /\ Wrote /\ job \in Text
         /\ Written = Frame(IF succeeded THEN "done" ELSE "error", GenOf[job], job, 0)
<1>1. job \in Text
  BY DEF Reply, Goto, TypeOK, GuestTypeOK, Engaged
<1>2. Frame(IF succeeded THEN "done" ELSE "error", GenOf[job], job, 0) \in ToHostMessage
  BY <1>1, FramesTyped DEF TypeOK, GuestTypeOK, Maybe
<1> QED BY <1>1, <1>2, WrittenIs DEF Reply

\* The main thread's frames are about no text.
LEMMA MainWrites ==
  ASSUME TypeOK, ReadEmpty \/ ReportCancelled
  PROVE  Wrote /\ Written.text = NoText /\ Written.type # "audio"
<1>1. CASE ReadEmpty
  <2>1. Frame("error", Head(toGuest).gen, NoText, 0) \in ToHostMessage
    BY <1>1, ReceiveTyped, FramesTyped DEF ReadEmpty, ToGuestMessage, TypeOK, Maybe
  <2> QED BY <1>1, <2>1, WrittenIs DEF ReadEmpty, Frame
<1>2. CASE ReportCancelled
  <2>1. Frame("cancelled", target, NoText, 0) \in ToHostMessage
    BY FramesTyped DEF TypeOK, GuestTypeOK, Maybe
  <2> QED BY <1>2, <2>1, WrittenIs DEF ReportCancelled, Frame
<1> QED BY <1>1, <1>2

\* So history is made by two actions only, each of the job.
LEMMA HistoryStep ==
  ASSUME TypeOK, GuestStep(GuestNext)
  PROVE  /\ EmitAudio =>
              job \in Text /\ heard' = [heard EXCEPT ![job] = @ + 1] /\ verdict' = verdict
         /\ Reply =>
              /\ job \in Text /\ heard' = heard
              /\ verdict' = [verdict EXCEPT ![job] = IF succeeded THEN "done" ELSE "error"]
         /\ ~EmitAudio /\ ~Reply => heard' = heard /\ verdict' = verdict
<1>1. IF Wrote THEN Record(Written) ELSE UNCHANGED historyVars
  BY DEF GuestStep
<1>2. EmitAudio => job \in Text /\ heard' = [heard EXCEPT ![job] = @ + 1] /\ verdict' = verdict
  BY <1>1, EmitWrites DEF Record, Frame
<1>3. Reply =>
        /\ job \in Text /\ heard' = heard
        /\ verdict' = [verdict EXCEPT ![job] = IF succeeded THEN "done" ELSE "error"]
  BY <1>1, ReplyWrites DEF Record, Frame
<1>4. ReadEmpty \/ ReportCancelled => heard' = heard /\ verdict' = verdict
  BY <1>1, MainWrites, ChannelAssumption DEF Record, historyVars
<1>5. UNCHANGED toHost => heard' = heard /\ verdict' = verdict
  BY <1>1 DEF Wrote, historyVars
<1>6. \/ ReadEmpty \/ ReportCancelled \/ EmitAudio \/ Reply
      \/ UNCHANGED toHost
  BY DEF GuestStep, GuestNext, MainStep, WorkerStep, WorkerMishap, ReadSpeak, ReadCancel,
     ReadQuit, ReadBad, NotifyOne, CompareActive, RaiseCancelling,
     StoreShuttingDown, AimAtActive, NotifyAll, JoinWorker, CheckShutdown,
     WaitLeave, WaitTake, WaitPark, Park, SpuriousWakeup, ClearCancelling,
     Activate, SelectVoice, ChunkLoop, Callback, Verdict, Retire, SelectFails,
     EngineFails, channelVars
<1> QED BY <1>2, <1>3, <1>4, <1>5, <1>6

LEMMA OthersKeepHistory ==
  ASSUME TypeOK, GuestStep(GuestNext), NEW t \in Text, t # job, Unspoken(t)
  PROVE  Unspoken(t)'
BY HistoryStep DEF Unspoken, TypeOK

------------------------------------------------------------------------------
(* Texts on their way. *)

LEMMA TextsTyped ==
  ASSUME TypeOK, NEW i \in 1..Len(toGuest), toGuest[i].text # NoText
  PROVE  toGuest[i].text \in Text
<1>1. toGuest[i] \in ToGuestMessage
  BY DEF TypeOK, ChannelTypeOK
<1> QED BY <1>1 DEF ToGuestMessage, Maybe

\* Taking the head of the stream, whoever keeps it.
LEMMA TakeKeepsLined ==
  ASSUME TypeOK, Lined, NEW type, Receive(type)
  PROVE  /\ \A i \in 1..Len(toGuest') : toGuest'[i].text # NoText =>
              /\ toGuest'[i].text \in Text
              /\ toGuest'[i].text \in Submitted
              /\ toGuest'[i].text \notin Held
              /\ Unspoken(toGuest'[i].text)
              /\ toGuest'[i].text # Head(toGuest).text
         /\ \A i, j \in 1..Len(toGuest') :
              i # j /\ toGuest'[i].text # NoText => toGuest'[i].text # toGuest'[j].text
         /\ Head(toGuest).text # NoText =>
              /\ Head(toGuest).text \in Submitted
              /\ Head(toGuest).text \notin Held
              /\ Unspoken(Head(toGuest).text)
<1>1. /\ toGuest \in Seq(ToGuestMessage) /\ toGuest # <<>> /\ toGuest' = Tail(toGuest)
  BY DEF TypeOK, ChannelTypeOK, Receive
<1>2. /\ Len(toGuest) > 0 /\ Head(toGuest) = toGuest[1] /\ Len(toGuest) \in Nat
      /\ \A i \in 1..Len(toGuest') : i + 1 \in 1..Len(toGuest) /\ toGuest'[i] = toGuest[i + 1]
  BY <1>1, TailElements
<1>3. 1 \in 1..Len(toGuest) /\ \A i \in 1..Len(toGuest') : i + 1 # 1
  BY <1>2
<1>4. \A i \in 1..Len(toGuest) : toGuest[i].text # NoText => toGuest[i].text \in Text
  BY TextsTyped
<1>5. \A i, j \in 1..Len(toGuest') : i # j => i + 1 # j + 1
  OBVIOUS
<1>6. \A i, j \in 1..Len(toGuest) :
        i # j /\ toGuest[i].text # NoText => toGuest[i].text # toGuest[j].text
  BY DEF Lined
<1>7. ASSUME NEW i \in 1..Len(toGuest'), toGuest'[i].text # NoText
      PROVE  /\ toGuest'[i].text \in Text
             /\ toGuest'[i].text \in Submitted
             /\ toGuest'[i].text \notin Held
             /\ Unspoken(toGuest'[i].text)
             /\ toGuest'[i].text # Head(toGuest).text
  <2>1. i + 1 \in 1..Len(toGuest) /\ toGuest'[i] = toGuest[i + 1] /\ i + 1 # 1
    BY <1>2, <1>3
  <2>2. toGuest[i + 1].text # toGuest[1].text
    BY <1>3, <1>6, <1>7, <2>1
  <2> QED BY <1>2, <1>4, <1>7, <2>1, <2>2 DEF Lined
<1>8. ASSUME NEW i \in 1..Len(toGuest'), NEW j \in 1..Len(toGuest'),
             i # j, toGuest'[i].text # NoText
      PROVE  toGuest'[i].text # toGuest'[j].text
  BY <1>2, <1>5, <1>6, <1>8
<1>9. Head(toGuest).text # NoText =>
        /\ Head(toGuest).text \in Submitted
        /\ Head(toGuest).text \notin Held
        /\ Unspoken(Head(toGuest).text)
  BY <1>2, <1>3 DEF Lined
<1> QED BY <1>7, <1>8, <1>9

\* It speaks of nothing but these.
LEMMA LinedSame ==
  ASSUME Lined, toGuest' = toGuest, sent' = sent, pendingJob' = pendingJob, job' = job,
         heard' = heard, verdict' = verdict
  PROVE  Lined'
<1>1. /\ Submitted' = Submitted /\ Held' = Held
      /\ \A t : Unspoken(t)' <=> Unspoken(t)
  BY DEF Submitted, Held, Unspoken
<1>2. \A i \in 1..Len(toGuest) :
        toGuest[i].text # NoText =>
          /\ toGuest[i].text \in Submitted
          /\ toGuest[i].text \notin Held
          /\ Unspoken(toGuest[i].text)'
  BY <1>1 DEF Lined
<1>3. pendingJob # NoText => pendingJob # job /\ Unspoken(pendingJob)'
  BY <1>1 DEF Lined
<1>4. \A t \in Text \ Submitted : Unspoken(t)'
  BY <1>1 DEF Lined
<1> QED BY <1>1, <1>2, <1>3, <1>4 DEF Lined

\* A frame of no text, or of a text not submitted before, may join.
LEMMA WriteKeepsLined ==
  ASSUME TypeOK, Lined, NEW m \in ToGuestMessage, SendToGuest(m),
         UNCHANGED <<guestVars, historyVars>>,
         Submitted \subseteq Submitted',
         m.text # NoText => m.text \in Submitted' /\ m.text \notin Submitted
  PROVE  Lined'
<1>1. toGuest \in Seq(ToGuestMessage) /\ toGuest' = Append(toGuest, m)
  BY DEF SendToGuest, TypeOK, ChannelTypeOK
<1>2. /\ Len(toGuest') = Len(toGuest) + 1 /\ Len(toGuest) \in Nat
      /\ \A i \in 1..Len(toGuest) : toGuest'[i] = toGuest[i]
      /\ toGuest'[Len(toGuest) + 1] = m
  BY <1>1, AppendElements
<1>3. /\ Held' = Held /\ pendingJob' = pendingJob /\ job' = job
      /\ \A t : Unspoken(t)' <=> Unspoken(t)
  BY DEF guestVars, workerVars, sharedVars, historyVars, Held, Unspoken
<1>4. m.text # NoText => m.text \in Text /\ Unspoken(m.text) /\ m.text \notin Held
  BY DEF ToGuestMessage, Maybe, Lined
<1>5. \A i \in 1..Len(toGuest') : i \in 1..Len(toGuest) \/ i = Len(toGuest) + 1
  BY <1>2
<1>6. ASSUME NEW i \in 1..Len(toGuest'), toGuest'[i].text # NoText
      PROVE  /\ toGuest'[i].text \in Submitted'
             /\ toGuest'[i].text \notin Held'
             /\ Unspoken(toGuest[i].text)'
  <2>1. CASE i \in 1..Len(toGuest)
    BY <1>2, <1>3, <1>6, <2>1 DEF Lined
  <2>2. CASE i = Len(toGuest) + 1
    BY <1>2, <1>3, <1>4, <1>6, <2>2
  <2> QED BY <1>5, <2>1, <2>2
<1>7. ASSUME NEW i \in 1..Len(toGuest'), NEW j \in 1..Len(toGuest'),
             i # j, toGuest'[i].text # NoText
      PROVE  toGuest'[i].text # toGuest'[j].text
  <2>1. \A k \in 1..Len(toGuest) : toGuest[k].text # NoText => toGuest[k].text # m.text
    BY DEF Lined
  <2>2. CASE i \in 1..Len(toGuest) /\ j \in 1..Len(toGuest)
    BY <1>2, <1>7, <2>2 DEF Lined
  <2>3. CASE i = Len(toGuest) + 1 /\ j \in 1..Len(toGuest)
    BY <1>2, <1>7, <2>1, <2>3
  <2>4. CASE i \in 1..Len(toGuest) /\ j = Len(toGuest) + 1
    BY <1>2, <1>7, <2>1, <2>4
  <2> QED BY <1>5, <1>7, <2>2, <2>3, <2>4
<1>8. \A t \in Text \ Submitted' : Unspoken(t)'
  BY <1>3 DEF Lined
<1>9. Held' \subseteq Submitted' /\ (pendingJob' # NoText => pendingJob' # job' /\ Unspoken(pendingJob)')
  BY <1>3 DEF Lined
<1> QED BY <1>6, <1>7, <1>8, <1>9 DEF Lined

LEMMA GuestKeepsLined ==
  ASSUME TypeOK, Lined, InProgress, GuestStep(GuestNext)
  PROVE  Lined'
<1>1. sent' = sent /\ Submitted' = Submitted
  BY DEF GuestStep, hostVars, Submitted
<1>2. \A t \in Text : t # job /\ Unspoken(t) => Unspoken(t)'
  BY OthersKeepHistory
<1>3. job # NoText => job \in Held
  BY DEF Held
<1>4. pendingJob # NoText => pendingJob \in Text /\ pendingJob \in Held
  BY DEF TypeOK, GuestTypeOK, Maybe, Held
<1>5. \A i \in 1..Len(toGuest) : toGuest[i].text # NoText => toGuest[i].text \in Text
  BY TextsTyped
<1>6. \A t \in Text \ Submitted : Unspoken(t)'
  <2>1. NoText \notin Text /\ Held \subseteq Submitted
    BY ChannelAssumption DEF Lined
  <2>2. \A t \in Text \ Submitted : t # job /\ Unspoken(t)
    BY <1>3, <2>1 DEF Lined
  <2> QED BY <1>2, <2>2
<1>7. NoText \notin Text
  BY ChannelAssumption
<1>8. CASE ReadSpeak
  <2>1. /\ Receive("speak") /\ pendingJob' = Head(toGuest).text /\ job' = job
        /\ Head(toGuest).text # NoText
    BY <1>8 DEF ReadSpeak, workerVars
  <2>2. Head(toGuest).text \in Text
    BY <2>1, ReceiveTyped DEF TypeOK, ToGuestMessage, Maybe
  <2>3. Held' = {Head(toGuest).text, job} \ {NoText}
    BY <2>1 DEF Held
  <2> QED BY <1>1, <1>2, <1>3, <1>6, <1>7, <2>1, <2>2, <2>3, TakeKeepsLined DEF Lined
<1>9. CASE ReadEmpty \/ ReadCancel \/ ReadQuit \/ ReadBad
  <2>1. PICK type : Receive(type)
    BY <1>9 DEF ReadEmpty, ReadCancel, ReadQuit, ReadBad
  <2>2. Held' = Held /\ pendingJob' = pendingJob /\ job' = job
    BY <1>9 DEF ReadEmpty, ReadCancel, ReadQuit, ReadBad, guestVars, sharedVars, workerVars, Held
  <2> QED BY <1>1, <1>2, <1>3, <1>4, <1>6, <1>7, <2>1, <2>2, TakeKeepsLined DEF Lined
<1>10. CASE WaitTake
  <2>1. /\ toGuest' = toGuest /\ job' = pendingJob /\ pendingJob' = NoText
        /\ pendingJob # NoText /\ Held' \subseteq Held
    BY <1>10 DEF WaitTake, channelVars, Held
  <2> QED BY <1>1, <1>2, <1>3, <1>5, <1>6, <1>7, <2>1 DEF Lined
<1>11. CASE Retire
  <2>1. toGuest' = toGuest /\ job' = NoText /\ pendingJob' = pendingJob /\ Held' \subseteq Held
    BY <1>11 DEF Retire, channelVars, Held
  <2> QED BY <1>1, <1>2, <1>3, <1>4, <1>5, <1>6, <1>7, <2>1 DEF Lined
<1>12. CASE UNCHANGED <<toGuest, pendingJob, job>>
  <2>1. Held' = Held
    BY <1>12 DEF Held
  <2> QED BY <1>1, <1>2, <1>3, <1>4, <1>5, <1>6, <1>7, <1>12, <2>1 DEF Lined
<1>13. \/ ReadSpeak \/ ReadEmpty \/ ReadCancel \/ ReadQuit \/ ReadBad
       \/ WaitTake \/ Retire \/ UNCHANGED <<toGuest, pendingJob, job>>
  BY DEF GuestStep, GuestNext, MainStep, WorkerStep, WorkerMishap, NotifyOne,
     CompareActive, RaiseCancelling, ReportCancelled,
     StoreShuttingDown, AimAtActive, NotifyAll, JoinWorker, CheckShutdown,
     WaitLeave, WaitPark, Park, SpuriousWakeup, ClearCancelling,
     Activate, SelectVoice, ChunkLoop, Callback, EmitAudio, Verdict, Reply, SelectFails,
     EngineFails, channelVars, workerVars, sharedVars
<1> QED BY <1>8, <1>9, <1>10, <1>11, <1>12, <1>13

LEMMA HostKeepsLined ==
  ASSUME TypeOK, Lined, HostNext
  PROVE  Lined'
<1>1. UNCHANGED <<guestVars, historyVars>>
  BY DEF HostNext, HostSpeak, HostCancel, HostSpeakEmpty, HostClose, HostReceive
<1>2. ASSUME NEW t \in Text, HostSpeak(t) PROVE Lined'
  <2>1. sent \in Seq(Text) /\ sent' = Append(sent, t) /\ t \notin Submitted
    BY <1>2 DEF HostSpeak, TypeOK
  <2>2. /\ Len(sent') = Len(sent) + 1 /\ Len(sent) \in Nat
        /\ \A i \in 1..Len(sent) : sent'[i] = sent[i]
        /\ sent'[Len(sent) + 1] = t
    BY <2>1, AppendElements
  <2>3. Submitted \subseteq Submitted' /\ t \in Submitted'
    BY <2>2 DEF Submitted
  <2>4. Speak(t) \in ToGuestMessage /\ Speak(t).text = t
    BY FramesTyped DEF Speak
  <2>5. SendToGuest(Speak(t))
    BY <1>2 DEF HostSpeak
  <2> QED BY <1>1, <2>1, <2>3, <2>4, <2>5, WriteKeepsLined
<1>3. CASE \E g \in Generation : HostCancel(g) \/ HostSpeakEmpty(g)
  <2>1. PICK g \in Generation : HostCancel(g) \/ HostSpeakEmpty(g)
    BY <1>3
  <2>2. g \in Nat
    BY FramesTyped DEF Generation
  <2>3. /\ Cancel(g) \in ToGuestMessage /\ Empty(g) \in ToGuestMessage
        /\ Cancel(g).text = NoText /\ Empty(g).text = NoText
    BY <2>2, FramesTyped DEF Cancel, Empty
  <2>4. SendToGuest(Cancel(g)) \/ SendToGuest(Empty(g))
    BY <2>1 DEF HostCancel, HostSpeakEmpty
  <2>5. Submitted' = Submitted
    BY <2>1 DEF HostCancel, HostSpeakEmpty, Submitted
  <2> QED BY <1>1, <2>3, <2>4, <2>5, WriteKeepsLined
<1>4. CASE HostClose
  <2>1. PICK m \in {Quit, Bad} : SendToGuest(m)
    BY <1>4 DEF HostClose
  <2>2. m \in ToGuestMessage /\ m.text = NoText
    BY FramesTyped DEF Quit, Bad
  <2>3. Submitted' = Submitted
    BY <1>4 DEF HostClose, Submitted
  <2> QED BY <1>1, <2>1, <2>2, <2>3, WriteKeepsLined
<1>5. CASE HostReceive
  <2>1. UNCHANGED <<toGuest, guestVars, hostVars, historyVars>>
    BY <1>5 DEF HostReceive
  <2>2. /\ toGuest' = toGuest /\ sent' = sent /\ pendingJob' = pendingJob /\ job' = job
        /\ heard' = heard /\ verdict' = verdict
    BY <2>1 DEF guestVars, workerVars, sharedVars, hostVars, historyVars
  <2> QED BY <2>2, LinedSame
<1> QED BY <1>2, <1>3, <1>4, <1>5 DEF HostNext

------------------------------------------------------------------------------
(* The job. *)

\* The main thread takes nothing back: the flag only goes up.
LEMMA MainKeepsProgress ==
  ASSUME TypeOK, InProgress, MainStep, UNCHANGED historyVars
  PROVE  InProgress'
<1>1. /\ UNCHANGED <<job, offset, succeeded, heard, verdict>>
      /\ cancelling => cancelling'
      /\ workerPc' = workerPc \/ (workerPc = "parked" /\ workerPc' = "wait")
  BY DEF MainStep, ReadSpeak, ReadEmpty, ReadCancel,
     ReadQuit, ReadBad, NotifyOne, CompareActive, RaiseCancelling, ReportCancelled,
     StoreShuttingDown, AimAtActive, NotifyAll, JoinWorker, Woken, guestVars, sharedVars,
     workerVars, historyVars
<1> QED BY <1>1 DEF InProgress, Unspoken, Engaged

LEMMA WorkerKeepsProgress ==
  ASSUME TypeOK, Tagged, Lined, InProgress,
         GuestStep(GuestNext), WorkerStep \/ WorkerMishap \/ SpuriousWakeup
  PROVE  InProgress'
<1> USE DEF InProgress, Unspoken, Engaged, Goto
<1>1. workerPc \notin {"emit", "reply"} => heard' = heard /\ verdict' = verdict
  BY HistoryStep DEF EmitAudio, Reply
<1>2. CASE CheckShutdown \/ WaitLeave \/ WaitPark \/ Park \/ SpuriousWakeup
  BY <1>2 DEF CheckShutdown, WaitLeave, WaitPark, Park, SpuriousWakeup
<1>3. CASE WaitTake
  BY <1>1, <1>3 DEF WaitTake, Lined
<1>4. CASE ClearCancelling
  BY <1>1, <1>4 DEF ClearCancelling
<1>5. CASE Activate
  BY <1>1, <1>5 DEF Activate
<1>6. CASE SelectVoice
  BY <1>1, <1>6 DEF SelectVoice, sharedVars
<1>7. CASE SelectFails
  BY <1>1, <1>7 DEF SelectFails
<1>8. CASE ChunkLoop
  <2>1. offset \in 0..Chunks /\ Chunks \in Nat
    BY ChannelAssumption DEF TypeOK, GuestTypeOK
  <2>2. CASE offset < Chunks /\ ~cancelling
    BY <1>1, <1>8, <2>2 DEF ChunkLoop, sharedVars
  <2>3. CASE cancelling
    BY <1>1, <1>8, <2>3 DEF ChunkLoop, sharedVars
  <2>4. CASE ~(offset < Chunks) /\ ~cancelling
    <3>1. offset = Chunks
      BY <2>1, <2>4
    <3> QED BY <1>1, <1>8, <2>4, <3>1 DEF ChunkLoop, sharedVars
  <2> QED BY <2>2, <2>3, <2>4
<1>9. CASE Callback
  <2>1. activeGeneration # 0
    BY <1>9, FramesTyped DEF Callback, Tagged, ActiveIsJob, TypeOK, GuestTypeOK
  <2> QED BY <1>1, <1>9, <2>1 DEF Callback, sharedVars
<1>10. CASE EngineFails
  BY <1>1, <1>10 DEF EngineFails, sharedVars
<1>11. CASE EmitAudio
  <2>1. heard' = [heard EXCEPT ![job] = @ + 1] /\ verdict' = verdict
    BY <1>11, HistoryStep
  <2> QED BY <1>11, <2>1 DEF EmitAudio, sharedVars, TypeOK, GuestTypeOK
<1>12. CASE Verdict
  BY <1>1, <1>12 DEF Verdict, sharedVars
<1>13. CASE Reply
  BY <1>13 DEF Reply
<1>14. CASE Retire
  BY <1>14 DEF Retire
<1> QED
  BY <1>2, <1>3, <1>4, <1>5, <1>6, <1>7, <1>8, <1>9, <1>10, <1>11, <1>12, <1>13, <1>14
  DEF WorkerStep, WorkerMishap

LEMMA DoneKept ==
  ASSUME TypeOK, InProgress, DoneMeansComplete, GuestStep(GuestNext)
  PROVE  DoneMeansComplete'
<1> USE DEF DoneMeansComplete
<1>1. CASE EmitAudio
  BY <1>1, HistoryStep DEF EmitAudio, Goto, InProgress, Engaged, TypeOK
<1>2. CASE Reply
  BY <1>2, HistoryStep DEF Reply, Goto, InProgress, TypeOK
<1>3. CASE ~EmitAudio /\ ~Reply
  BY <1>3, HistoryStep
<1> QED BY <1>1, <1>2, <1>3

LEMMA HistoryInductive == HistoryInv /\ [Next]_vars => HistoryInv'
<1> SUFFICES ASSUME HistoryInv, [Next]_vars PROVE HistoryInv' OBVIOUS
<1> USE DEF HistoryInv
<1>1. TypeOK' /\ Tagged'
  BY TypeInductive, TaggedInductive
<1>2. CASE GuestStep(GuestNext)
  <2>0. GuestNext
    BY <1>2 DEF GuestStep
  <2>1. Lined' /\ DoneMeansComplete'
    BY <1>2, GuestKeepsLined, DoneKept
  <2>2. ASSUME MainStep PROVE InProgress'
    <3>1. heard' = heard /\ verdict' = verdict
      <4>1. workerPc' = workerPc \/ workerPc' = "wait"
        BY <2>2 DEF MainStep, ReadSpeak, ReadEmpty, ReadCancel,
           ReadQuit, ReadBad, NotifyOne, CompareActive, RaiseCancelling, ReportCancelled,
           StoreShuttingDown, AimAtActive, NotifyAll, JoinWorker, Woken, guestVars,
           workerVars
      <4> QED BY <1>2, <4>1, HistoryStep DEF EmitAudio, Reply, Goto
    <3> QED BY <2>2, <3>1, MainKeepsProgress DEF historyVars
  <2>3. ASSUME WorkerStep \/ WorkerMishap \/ SpuriousWakeup PROVE InProgress'
    BY <1>2, <2>3, WorkerKeepsProgress
  <2> QED BY <1>1, <1>2, <2>0, <2>1, <2>2, <2>3 DEF GuestNext
<1>3. CASE HostNext
  <2>1. UNCHANGED <<guestVars, historyVars>>
    BY <1>3 DEF HostNext, HostSpeak, HostCancel, HostSpeakEmpty, HostClose, HostReceive
  <2>2. InProgress' /\ DoneMeansComplete'
    BY <2>1 DEF InProgress, DoneMeansComplete, Unspoken, guestVars, sharedVars, workerVars,
       historyVars
  <2> QED BY <1>1, <1>3, <2>2, HostKeepsLined
<1>4. CASE UNCHANGED vars
  <2>1. /\ toGuest' = toGuest /\ sent' = sent /\ pendingJob' = pendingJob /\ job' = job
        /\ heard' = heard /\ verdict' = verdict /\ workerPc' = workerPc
        /\ offset' = offset /\ cancelling' = cancelling /\ succeeded' = succeeded
    BY <1>4 DEF vars, channelVars, guestVars, hostVars, historyVars, workerVars, sharedVars
  <2>2. Lined'
    BY <2>1, LinedSame
  <2>3. InProgress' /\ DoneMeansComplete'
    BY <1>1, <2>1 DEF InProgress, DoneMeansComplete, Unspoken
  <2> QED BY <1>1, <2>2, <2>3
<1> QED BY <1>2, <1>3, <1>4 DEF Next

LEMMA HistoryInitial == Init => HistoryInv
<1> SUFFICES ASSUME Init PROVE HistoryInv OBVIOUS
<1>1. Lined
  BY DEF Init, ChannelInit, GuestInit, Lined, Submitted, Held, Unspoken
<1>2. InProgress /\ DoneMeansComplete
  BY DEF Init, GuestInit, InProgress, DoneMeansComplete, Engaged
<1> QED BY <1>1, <1>2, TypeInitial, TaggedInitial DEF HistoryInv

\* Whatever the texts, the number of pieces and the moment of a cancellation: a
\* text is answered with DONE only when each of its pieces was streamed.  A
\* piece that was dropped has left the flag up, which is tested once more
\* before the answer (samsung_guest.cpp:211, 227-229).
THEOREM DoneAlwaysComplete == Spec => []DoneMeansComplete
<1>1. HistoryInv => DoneMeansComplete
  BY DEF HistoryInv
<1> QED BY <1>1, HistoryInitial, HistoryInductive, PTL DEF Spec

\* What the worker remembers is what its synthesizer is initialized for, as
\* long as there is one: initialization sets both, a failure clears both.
Remembers == synth # NoVoice => synth = <<currentLanguage, currentModel>>

\* Whatever was spoken, kept, refused or failed before, the engine speaks a text
\* in the text's own voice: reuse is decided by the language and the model
\* remembered, and these are never stale (samsung_guest.cpp:172-173, 188-199).
THEOREM AlwaysInVoice == Spec => []SpeaksInVoice
<1> USE DEF Remembers, SpeaksInVoice, Speaking
<1>1. Init => Remembers /\ SpeaksInVoice
  BY DEF Init, GuestInit
<1>2. Remembers /\ SpeaksInVoice /\ [Next]_vars => (Remembers /\ SpeaksInVoice)'
  <2> SUFFICES ASSUME Remembers, SpeaksInVoice, [Next]_vars
               PROVE  Remembers' /\ SpeaksInVoice'
    OBVIOUS
  <2>1. CASE GuestStep(GuestNext)
    <3>1. CASE SelectVoice
      <4>1. CASE Kept
        BY <3>1, <4>1 DEF SelectVoice, Goto, Kept, engine, VoiceOf
      <4>2. CASE ~Kept
        BY <3>1, <4>2 DEF SelectVoice, Goto, Initialize, VoiceOf
      <4> QED BY <4>1, <4>2
    <3>2. CASE SelectFails
      BY <3>2 DEF SelectFails, Goto
    <3>3. CASE ~SelectVoice /\ ~SelectFails
      BY <2>1, <3>3
      DEF GuestStep, GuestNext, MainStep, WorkerStep, WorkerMishap, ReadSpeak, ReadEmpty,
          ReadCancel, ReadQuit, ReadBad, NotifyOne, CompareActive, RaiseCancelling,
          ReportCancelled, StoreShuttingDown, AimAtActive, NotifyAll, JoinWorker,
          CheckShutdown, WaitLeave, WaitTake, WaitPark, Park, SpuriousWakeup,
          ClearCancelling, Activate, ChunkLoop, Callback, EmitAudio, Verdict, Reply,
          Retire, EngineFails, Goto, Woken, guestVars, workerVars, engine
    <3> QED BY <3>1, <3>2, <3>3
  <2>2. CASE UNCHANGED guestVars
    BY <2>2 DEF guestVars, workerVars, engine
  <2> QED
    BY <2>1, <2>2
    DEF Next, HostNext, HostSpeak, HostCancel, HostSpeakEmpty, HostClose, HostReceive, vars
<1> QED BY <1>1, <1>2, PTL DEF Spec

\* Whatever the number of pieces, those of a text are streamed from the first
\* on, one after the other, and nothing after the text's one answer
\* (samsung_guest.cpp:115-120, 203-229).
THEOREM AlwaysInOrder == Spec => StreamsInOrder
<1>1. HistoryInv /\ [Next]_vars => [InOrder]_vars
  <2> SUFFICES ASSUME HistoryInv, Next, Wrote, Written.text # NoText
               PROVE  /\ verdict[Written.text] = "none"
                      /\ Written.type = "audio" => Written.chunk = heard[Written.text] + 1
    BY DEF InOrder
  <2> USE DEF HistoryInv
  <2>1. CASE GuestStep(GuestNext)
    <3>1. CASE EmitAudio
      BY <3>1, EmitWrites DEF Frame, EmitAudio, Goto, InProgress, Engaged
    <3>2. CASE Reply
      BY <3>2, ReplyWrites DEF Frame, Reply, Goto, InProgress, Engaged
    <3>3. CASE ReadEmpty \/ ReportCancelled
      BY <3>3, MainWrites
    <3>4. CASE UNCHANGED toHost
      BY <3>4 DEF Wrote
    <3>5. \/ ReadEmpty \/ ReportCancelled \/ EmitAudio \/ Reply
          \/ UNCHANGED toHost
      BY <2>1 DEF GuestStep, GuestNext, MainStep, WorkerStep, WorkerMishap, ReadSpeak,
         ReadCancel, ReadQuit, ReadBad, NotifyOne, CompareActive, RaiseCancelling,
         StoreShuttingDown, AimAtActive, NotifyAll, JoinWorker, CheckShutdown,
         WaitLeave, WaitTake, WaitPark, Park, SpuriousWakeup, ClearCancelling,
         Activate, SelectVoice, ChunkLoop, Callback, Verdict, Retire, SelectFails,
         EngineFails, channelVars
    <3> QED BY <3>1, <3>2, <3>3, <3>4, <3>5
  <2>2. CASE HostNext
    <3>1. CASE UNCHANGED toHost
      BY <3>1 DEF Wrote
    <3>2. CASE HostReceive
      <4>1. Len(toHost') = Len(toHost) - 1 /\ Len(toHost) \in Nat
        BY <3>2, TailElements DEF HostReceive, TypeOK, ChannelTypeOK
      <4> QED BY <4>1 DEF Wrote
    <3> QED
      BY <2>2, <3>1, <3>2 DEF HostNext, HostSpeak, HostCancel, HostSpeakEmpty, HostClose
  <2> QED BY <2>1, <2>2 DEF Next
<1> QED BY <1>1, HistoryInitial, HistoryInductive, PTL DEF Spec, StreamsInOrder
==============================================================================
