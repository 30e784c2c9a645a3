---------------------------- MODULE GuestService -----------------------------
(***************************************************************************)
(* The guest helper against any host that keeps the driver's discipline:   *)
(* each text is submitted once, and the generations of the frames it       *)
(* writes never decrease.  SpeechSystem shows that the driver keeps it.    *)
(***************************************************************************)
EXTENDS SpeechGuest

VARIABLES
  latest,      \* the generation of the last frame the host has written
  sent,        \* the texts submitted, in order
  cancelled,   \* the generations the host has asked to cancel
  open,        \* the host has neither sent QUIT nor gone away
  heard,       \* history: pieces of each text written to the channel
  verdict      \* history: how each text was answered

historyVars == <<heard, verdict>>
hostVars    == <<latest, sent, cancelled, open>>
vars        == <<channelVars, guestVars, hostVars, historyVars>>

Generation == {GenOf[t] : t \in Text}
Submitted  == {sent[i] : i \in 1..Len(sent)}

Init ==
  /\ ChannelInit /\ GuestInit
  /\ latest = 0 /\ sent = <<>> /\ cancelled = {} /\ open = TRUE
  /\ heard = [t \in Text |-> 0]
  /\ verdict = [t \in Text |-> "none"]

------------------------------------------------------------------------------
(* The host. *)

HostSpeak(t) ==
  /\ open
  /\ t \notin Submitted /\ GenOf[t] >= latest
  /\ SendToGuest(Speak(t))
  /\ sent' = Append(sent, t) /\ latest' = GenOf[t]
  /\ UNCHANGED <<toHost, guestVars, cancelled, open, historyVars>>

HostCancel(g) ==
  /\ open
  /\ g >= latest
  /\ SendToGuest(Cancel(g))
  /\ cancelled' = cancelled \cup {g} /\ latest' = g
  /\ UNCHANGED <<toHost, guestVars, sent, open, historyVars>>

HostSpeakEmpty(g) ==
  /\ open
  /\ g > latest
  /\ SendToGuest(Empty(g))
  /\ latest' = g
  /\ UNCHANGED <<toHost, guestVars, sent, cancelled, open, historyVars>>

HostClose ==
  /\ open
  /\ \E m \in {Quit, Bad} : SendToGuest(m)
  /\ open' = FALSE
  /\ UNCHANGED <<toHost, guestVars, latest, sent, cancelled, historyVars>>

HostReceive ==
  /\ toHost # <<>>
  /\ toHost' = Tail(toHost)
  /\ UNCHANGED <<toGuest, guestVars, hostVars, historyVars>>

HostNext ==
  \/ \E t \in Text : HostSpeak(t)
  \/ \E g \in Generation : HostCancel(g) \/ HostSpeakEmpty(g)
  \/ HostClose
  \/ HostReceive

------------------------------------------------------------------------------
(* The history records what the guest writes about each text. *)

Record(m) ==
  CASE m.type = "audio" ->
         /\ heard' = [heard EXCEPT ![m.text] = @ + 1]
         /\ UNCHANGED verdict
    [] m.type \in {"done", "error"} /\ m.text \in Text ->
         /\ verdict' = [verdict EXCEPT ![m.text] = m.type]
         /\ UNCHANGED heard
    [] OTHER -> UNCHANGED historyVars

Wrote == Len(toHost') > Len(toHost)
Written == toHost'[Len(toHost')]

GuestStep(A) ==
  /\ A
  /\ IF Wrote THEN Record(Written) ELSE UNCHANGED historyVars
  /\ UNCHANGED hostVars

Next == GuestStep(GuestNext) \/ HostNext

Spec == Init /\ [][Next]_vars

\* Each thread runs on.  A thread that waits for jobMutex, or for outputMutex
\* and room in the channel, is not passed over for ever, hence strong
\* fairness.  The host goes on reading the channel (the reader thread of the
\* driver does nothing else).  Mishaps and spurious wake-ups need never happen.
Fairness ==
  /\ SF_vars(GuestStep(MainStep))
  /\ SF_vars(GuestStep(WorkerStep))
  /\ WF_vars(HostReceive)

FairSpec == Spec /\ Fairness

------------------------------------------------------------------------------
(* Properties. *)

\* The state of the helper, the channel and the host stays in its types, and
\* the program counters agree with the slot and the piece counter.
TypeOK ==
  /\ ChannelTypeOK /\ GuestTypeOK
  /\ Len(toHost) <= ToHostCap
  /\ latest \in Nat /\ sent \in Seq(Text) /\ cancelled \subseteq Nat
  /\ open \in BOOLEAN
  /\ heard \in [Text -> Nat]
  /\ verdict \in [Text -> {"none", "done", "error"}]

\* A frame about a text carries the generation the text was submitted under,
\* although streamCallback learns it from a global that the worker rewrites
\* from job to job (samsung_guest.cpp:115, 187, 235).
RepliesTagged ==
  \A i \in 1..Len(toHost) :
    toHost[i].text # NoText => toHost[i].gen = GenOf[toHost[i].text]

\* The cancelling flag, raised in a step separate from the comparison that
\* justifies it, never hits a job whose own generation was not cancelled
\* (samsung_guest.cpp:186, 241-244).
SparesOthers ==
  /\ cancelling
  /\ workerPc \in {"activate"} \cup Engaged
  => GenOf[job] \in cancelled \/ shuttingDown

\* DONE is sent only for a text whose every piece was streamed, although the
\* loop over the pieces also ends when the engine refuses one or the job is
\* cancelled (samsung_guest.cpp:211-229).  A cancellation that comes after the
\* last look at the flag leaves a complete text its DONE.
DoneMeansComplete ==
  \A t \in Text : verdict[t] = "done" => heard[t] = Chunks

\* The engine that speaks a text is initialized for the text's own voice,
\* although it is kept from job to job by what the worker remembers of the
\* language and the model, not by what it is initialized for
\* (samsung_guest.cpp:172-173, 188-199).
SpeaksInVoice == workerPc \in Speaking => synth = VoiceOf(job)

\* The pieces of a text are streamed from the first on, none is skipped, and
\* none follows the text's verdict; a verdict is given once.
InOrder ==
  Wrote /\ Written.text # NoText =>
    /\ verdict[Written.text] = "none"
    /\ Written.type = "audio" => Written.chunk = heard[Written.text] + 1
StreamsInOrder == [][InOrder]_vars

\* The request submitted last is answered, unless it is cancelled, overtaken
\* by another, or the host goes away: no wake-up of the worker is lost
\* between the slot and the condition variable (samsung_guest.cpp:178, 283-287).
Newest(t) == Len(sent) > 0 /\ sent[Len(sent)] = t
Settled(t) == verdict[t] # "none" \/ GenOf[t] \in cancelled \/ ~open
NewestAnswered ==
  \A t \in Text : Newest(t) ~> (Settled(t) \/ ~Newest(t))

\* Every cancellation that finds its job active silences it: the worker comes
\* back for the next request (samsung_guest.cpp:211, 227, 235).
CancelEnds ==
  \A t \in Text : (job = t /\ cancelling /\ workerPc \in Engaged) ~> job # t

\* The helper ends when the host sends QUIT or goes away, except that the
\* worker may be left asleep (see ShutdownCompletes).
Stuck == mainPc = "join" /\ workerPc = "parked"
ShutdownOrStuck == ~open ~> (mainPc = "exited" \/ Stuck)

\* main() returns after QUIT or end of stream, so that the guest's init
\* script reaches poweroff (guest/clean-init:13-14).  This fails: the wake-up
\* is sent without jobMutex, and a worker that has evaluated the predicate
\* and not yet blocked misses it (samsung_guest.cpp:178, 298-301).
ShutdownCompletes == ~open ~> mainPc = "exited"
==============================================================================
