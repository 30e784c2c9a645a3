----------------------------- MODULE HostProofs -----------------------------
(***************************************************************************)
(* Theorems about HostLifecycle, for any number of drivers, texts, images  *)
(* and mishaps: at most one helper runs, a refresh takes effect, and a     *)
(* text is ended by no answer but its own.                                 *)
(*                                                                         *)
(* The first two follow from who may own a living helper.  It is the       *)
(* host's process, or the process a thread inside _stopUnlocked has taken  *)
(* out of the host and is about to end; and only one thread is ever there. *)
(* The third follows from whose answers a queue may hold: those of the     *)
(* helper of its own number, and none to a text written to another.        *)
(***************************************************************************)
EXTENDS HostLifecycle, WellFoundedInduction, TLAPS

States == {"none", "boot", "ready", "hung", "dead"}
Messages == [type : {"ready", "answer", "eof"}, gen : Nat, from : Nat]
Starts == [state : States, image : Nat, inbox : Seq(Nat), to : Nat, reading : BOOLEAN,
           queue : Seq(Messages)]

\* The places where a thread has the lifecycle lock.
Locked == {"connect", "ready", "clear", "kill"}
Returns == {"none", "loop", "send", "refreshed"}
Places == Locked \cup Returns \cup {"idle", "exited", "enter", "stop", "write", "get", "join"}
Thread == [pc : Places, then : Returns, tries : Nat, after : {"none", "retry", "restart"},
           doomed : Nat, gen : Nat, target : Nat, from : Nat]

HostTypes ==
  /\ starts \in Seq(Starts) /\ threads \in [Threads -> Thread]
  /\ process \in 0 .. Len(starts) /\ stream \in 0 .. Len(starts)
  /\ messages \in 1 .. Len(starts)
  /\ lifecycleLock \in Threads \cup {Free}
  /\ generation \in Nat /\ current \in [Workers -> Nat] /\ jobs \in [Workers -> Seq(Nat)]
  /\ driver \in Workers /\ spoken \in Nat /\ mishaps \in Nat
  /\ image \in Nat /\ refreshed \in Nat /\ posted \in BOOLEAN
  /\ \A t \in Threads : threads[t].from <= Len(starts) /\ threads[t].target <= Len(starts)

\* The lock is held by the thread that is where it should be, and by no other.
LockHeld == \A t \in Threads : threads[t].pc \in Locked <=> lifecycleLock = t

\* A helper that lives is the host's, or about to be ended.
Owned ==
  /\ \A n \in DOMAIN starts :
       Alive(n) => \/ n = process
                   \/ \E t \in Threads : At(t, "kill") /\ threads[t].doomed = n
  /\ \A t \in Threads : At(t, "kill") => process = None

\* The main thread has ended the helper there was when its refresh began.
Renews(x) ==
  \/ x.pc \in {"enter", "connect", "ready", "refreshed"}
  \/ x.pc \in {"clear", "kill"} /\ x.after = "retry"

\* Helpers are made of the image there is, and are never older than the image a
\* refresh has asked for, once it has ended what it found.
Images ==
  /\ threads[Main].gen <= image /\ refreshed <= image
  /\ Renews(threads[Main]) => \A n \in DOMAIN starts : Alive(n) => starts[n].image >= threads[Main].gen
  /\ RefreshTakesEffect

\* The worker of a driver still to come does nothing.
Waiting ==
  /\ At(Main, "join") => driver < Drivers
  /\ \A d \in Workers : d > driver => threads[d].pc = "none"

HostInv == HostTypes /\ LockHeld /\ Owned /\ Images /\ Waiting

-----------------------------------------------------------------------------
(* Sequences and sets. *)

LEMMA AppendSeq ==
  ASSUME NEW S, NEW s \in Seq(S), NEW m \in S
  PROVE  Append(s, m) \in Seq(S)
  OBVIOUS

LEMMA TailSeq ==
  ASSUME NEW S, NEW s \in Seq(S), s # <<>>
  PROVE  Tail(s) \in Seq(S) /\ Head(s) \in S
  OBVIOUS

LEMMA ExceptSeq ==
  ASSUME NEW S, NEW s \in Seq(S), NEW i, NEW x, i \in DOMAIN s => x \in S
  PROVE  /\ [s EXCEPT ![i] = x] \in Seq(S)
         /\ Len([s EXCEPT ![i] = x]) = Len(s)
         /\ DOMAIN [s EXCEPT ![i] = x] = DOMAIN s
         /\ \A k \in DOMAIN s : [s EXCEPT ![i] = x][k] = IF k = i THEN x ELSE s[k]
<1> DEFINE e == [s EXCEPT ![i] = x]
<1>1. Len(s) \in Nat /\ DOMAIN s = 1 .. Len(s) /\ \A k \in 1 .. Len(s) : s[k] \in S
  OBVIOUS
<1>2. e \in [1 .. Len(s) -> S] /\ \A k \in DOMAIN s : e[k] = IF k = i THEN x ELSE s[k]
  BY <1>1
<1> HIDE DEF e
<1>3. e \in Seq(S) /\ Len(e) = Len(s)
  BY <1>1, <1>2
<1> QED BY <1>1, <1>2, <1>3 DEF e

Less == {pair \in Nat \X Nat : pair[1] < pair[2]}

LEMMA MinIsIn ==
  ASSUME NEW S \in SUBSET Nat, S # {}
  PROVE  Min(S) \in S
<1>1. IsWellFoundedOn(Less, Nat)
  BY NatLessThanWellFounded DEF OpToRel, Less
<1>2. PICK x \in S : \A y \in S : ~(<<y, x>> \in Less)
  BY <1>1, WFMin
<1>3. \A y \in S : ~(y < x)
  BY <1>2 DEF Less
<1>4. \A y \in S : x <= y
  BY <1>3
<1> QED BY <1>4 DEF Min

LEMMA MaxOfTwo ==
  ASSUME NEW a \in Nat, NEW b \in Nat
  PROVE  Max({a, b}) \in {a, b} /\ a <= Max({a, b}) /\ b <= Max({a, b})
<1>1. \E x \in {a, b} : \A y \in {a, b} : x >= y
  OBVIOUS
<1> QED BY <1>1 DEF Max

LEMMA ThreadFacts ==
  /\ Drivers \in Nat \ {0} /\ Main \in Threads /\ Workers \subseteq Threads
  /\ Main \notin Workers /\ Free \notin Threads /\ Threads \subseteq Nat
  /\ \A d \in Workers : d # Main
  BY HostAssumption DEF Main, Workers, Threads, Free

\* A thread that rests holds on to nothing.
LEMMA RestTyped ==
  /\ \A pc \in Places : Rest(pc) \in Thread
  /\ \A pc : Rest(pc).pc = pc /\ Rest(pc).from = 0 /\ Rest(pc).target = 0 /\ Rest(pc).gen = 0
  BY DEF Rest, NewThread, Thread, Returns

-----------------------------------------------------------------------------
(* Starts. *)

LEMMA NewStartTyped ==
  /\ \A n \in Nat : [NewStart EXCEPT !.state = "boot", !.image = n] \in Starts
  /\ \A n \in Nat : [NewStart EXCEPT !.state = "boot", !.image = n].image = n
  /\ Ended(NewStart) \in Starts /\ Ended(NewStart).state = "dead"
  /\ \A s \in Starts : Ended(s) \in Starts /\ Ended(s).state = "dead"
<1>1. <<>> \in Seq(Nat) /\ <<>> \in Seq(Messages)
  OBVIOUS
<1>2. NewStart \in Starts
  BY <1>1 DEF NewStart, Starts, States
<1>3. \A s \in Starts : Ended(s) \in Starts /\ Ended(s).state = "dead"
  BY <1>2 DEF Ended, Starts, States
<1>4. \A n \in Nat : /\ [NewStart EXCEPT !.state = "boot", !.image = n] \in Starts
                     /\ [NewStart EXCEPT !.state = "boot", !.image = n].image = n
  BY <1>2 DEF Starts, States
<1> QED BY <1>2, <1>3, <1>4

\* What a message in a queue leaves alone.
LEMMA TellKeeps ==
  ASSUME NEW s \in Seq(Starts), NEW n, NEW m \in Messages
  PROVE  /\ Tell(s, n, m) \in Seq(Starts) /\ Len(Tell(s, n, m)) = Len(s)
         /\ DOMAIN Tell(s, n, m) = DOMAIN s
         /\ \A k \in DOMAIN s :
              Tell(s, n, m)[k].state = s[k].state /\ Tell(s, n, m)[k].image = s[k].image
<1> DEFINE i == s[n].to
           x == [s[i] EXCEPT !.queue = Append(@, m)]
<1>1. i \in DOMAIN s => x \in Starts /\ x.state = s[i].state /\ x.image = s[i].image
  <2> SUFFICES ASSUME i \in DOMAIN s PROVE x \in Starts /\ x.state = s[i].state /\ x.image = s[i].image
    OBVIOUS
  <2>1. s[i] \in Starts
    OBVIOUS
  <2>2. s[i].queue \in Seq(Messages)
    BY <2>1 DEF Starts
  <2>3. Append(s[i].queue, m) \in Seq(Messages)
    BY <2>2, AppendSeq
  <2> QED BY <2>1, <2>3 DEF Starts
<1>2. Tell(s, n, m) = [s EXCEPT ![i] = x]
  BY DEF Tell
<1> HIDE DEF i, x
<1> QED BY <1>1, <1>2, ExceptSeq

\* The number of a new start is one nobody holds on to.
LEMMA FreshIsNew ==
  ASSUME HostTypes
  PROVE  FreshStart \in 1 .. Len(starts) + 1 /\ FreshStart \notin Held /\ FreshStart # messages
<1>1. Len(starts) \in Nat /\ DOMAIN starts = 1 .. Len(starts)
  BY DEF HostTypes
<1>2. \A k \in Held : k <= Len(starts)
  BY <1>1, ThreadFacts DEF Held, HostTypes
<1>3. messages <= Len(starts)
  BY <1>1 DEF HostTypes
<1>4. Len(starts) + 1 \in (1 .. Len(starts) + 1) \ (Held \cup {messages})
  <2>1. Len(starts) + 1 \notin Held
    BY <1>1, <1>2
  <2> QED BY <1>1, <1>3, <2>1
<1>5. FreshStart \in (1 .. Len(starts) + 1) \ (Held \cup {messages})
  <2>1. (1 .. Len(starts) + 1) \ (Held \cup {messages}) \in SUBSET Nat
    BY <1>1
  <2>2. (1 .. Len(starts) + 1) \ (Held \cup {messages}) # {}
    BY <1>4
  <2> QED BY <2>1, <2>2, MinIsIn DEF FreshStart
<1> QED BY <1>5

LEMMA BeginKeeps ==
  ASSUME HostTypes, NEW s \in Starts
  PROVE  /\ Begin(FreshStart, s) \in Seq(Starts)
         /\ Len(starts) <= Len(Begin(FreshStart, s))
         /\ FreshStart \in 1 .. Len(Begin(FreshStart, s))
         /\ Begin(FreshStart, s)[FreshStart] = s
         /\ \A k \in 1 .. Len(Begin(FreshStart, s)) : k # FreshStart =>
              \/ k \in DOMAIN starts /\ Begin(FreshStart, s)[k] = starts[k]
              \/ Begin(FreshStart, s)[k] = Ended(NewStart)
<1> DEFINE n == FreshStart
           top == Max({n, Len(starts)})
<1>1. Len(starts) \in Nat /\ DOMAIN starts = 1 .. Len(starts) /\ \A k \in DOMAIN starts : starts[k] \in Starts
  BY DEF HostTypes
<1>2. n \in 1 .. Len(starts) + 1 /\ n \notin Held
  BY FreshIsNew
<1>3. top \in Nat /\ n <= top /\ Len(starts) <= top
  BY <1>1, <1>2, MaxOfTwo
<1>4. \A k \in Held : k <= Len(starts)
  BY <1>1, ThreadFacts DEF Held, HostTypes
<1>5. Begin(n, s) = [k \in 1 .. top |->
                       IF k = n THEN s ELSE IF k \in Held THEN starts[k] ELSE Ended(NewStart)]
  BY DEF Begin
<1> HIDE DEF n, top
<1>6. \A k \in 1 .. top : k \in Held => k \in DOMAIN starts
  BY <1>1, <1>3, <1>4
<1>7. Begin(n, s) \in [1 .. top -> Starts]
  BY <1>1, <1>5, <1>6, NewStartTyped
<1>8. Begin(n, s) \in Seq(Starts) /\ Len(Begin(n, s)) = top
  BY <1>3, <1>7
<1>9. n \in 1 .. top
  BY <1>1, <1>2, <1>3
<1>10. ASSUME NEW k \in 1 .. top, k # n
       PROVE  \/ k \in DOMAIN starts /\ Begin(n, s)[k] = starts[k]
              \/ Begin(n, s)[k] = Ended(NewStart)
  BY <1>5, <1>6, <1>10
<1>11. Begin(n, s)[n] = s
  BY <1>5, <1>9
<1> QED BY <1>3, <1>8, <1>9, <1>10, <1>11 DEF n

-----------------------------------------------------------------------------
(* What the steps are, and the types.                                      *)

\* One name for the steps of a thread, of a helper and of the user.
LEMMA StepIs ==
  ASSUME Next
  PROVE  \/ \E t \in Threads : HostStep(t) \/ ConnectFails(t)
         \/ \E d \in Workers :
              TakeJob(d) \/ Send(d) \/ Write(d) \/ Get(d) \/ GetsNothing(d) \/ AnswerLate(d)
         \/ \E n \in DOMAIN starts :
              HelperBoots(n) \/ HelperAnswers(n) \/ ReadEnd(n) \/ HelperFails(n)
         \/ Speak \/ BuildImage \/ Refresh \/ RefreshReturns \/ Terminate \/ NextDriver
  BY ThreadFacts DEF Next, MainStep, WorkerStep, HelperStep

\* What becomes of the helpers that were there: none comes to life, none is
\* made of another image.
Staying == Len(starts') = Len(starts) /\ \A k \in DOMAIN starts :
  Alive(k)' => Alive(k) /\ starts'[k].image = starts[k].image

StartsKept == starts' \in Seq(Starts) /\ Staying

LEMMA SameStarts == HostTypes /\ UNCHANGED starts => StartsKept
  BY DEF HostTypes, StartsKept, Staying, Alive

LEMMA SetStart ==
  ASSUME HostTypes, NEW n, NEW x, starts' = [starts EXCEPT ![n] = x],
         n \in DOMAIN starts =>
           /\ x \in Starts
           /\ x.state \in {"boot", "ready", "hung"} =>
                starts[n].state \in {"boot", "ready", "hung"} /\ x.image = starts[n].image
  PROVE  StartsKept
<1>1. starts \in Seq(Starts)
  BY DEF HostTypes
<1> QED BY <1>1, ExceptSeq DEF StartsKept, Staying, Alive

LEMMA HelperKeepsStarts ==
  ASSUME HostTypes, NEW n \in DOMAIN starts,
         HelperBoots(n) \/ HelperAnswers(n) \/ ReadEnd(n) \/ HelperFails(n)
  PROVE  StartsKept
<1>1. starts[n] \in Starts /\ starts \in Seq(Starts) /\ n \in Nat
  BY DEF HostTypes
<1>2. CASE HelperBoots(n)
  <2> DEFINE x == [starts[n] EXCEPT !.state = "ready"]
             s == [starts EXCEPT ![n] = x]
  <2>1. x \in Starts /\ x.image = starts[n].image /\ starts[n].state = "boot"
    BY <1>1, <1>2 DEF Starts, States, HelperBoots
  <2>2. s \in Seq(Starts) /\ DOMAIN s = DOMAIN starts /\ Len(s) = Len(starts)
        /\ \A k \in DOMAIN starts : s[k] = IF k = n THEN x ELSE starts[k]
    BY <1>1, <2>1, ExceptSeq
  <2>3. Message("ready", 0, n) \in Messages
    BY <1>1 DEF Message, Messages
  <2>4. starts' = Tell(s, n, Message("ready", 0, n))
    BY <1>2 DEF HelperBoots
  <2> HIDE DEF x, s
  <2> QED BY <2>1, <2>2, <2>3, <2>4, TellKeeps DEF StartsKept, Staying, Alive
<1>3. CASE HelperAnswers(n)
  <2> DEFINE x == [starts[n] EXCEPT !.inbox = Tail(@)]
             s == [starts EXCEPT ![n] = x]
  <2>1. starts[n].inbox \in Seq(Nat) /\ starts[n].inbox # <<>>
    BY <1>1, <1>3 DEF Starts, HelperAnswers
  <2>2. Tail(starts[n].inbox) \in Seq(Nat) /\ Head(starts[n].inbox) \in Nat
    BY <2>1, TailSeq
  <2>3. x \in Starts /\ x.image = starts[n].image /\ x.state = starts[n].state
    BY <1>1, <2>2 DEF Starts
  <2>4. s \in Seq(Starts) /\ DOMAIN s = DOMAIN starts /\ Len(s) = Len(starts)
        /\ \A k \in DOMAIN starts : s[k] = IF k = n THEN x ELSE starts[k]
    BY <1>1, <2>3, ExceptSeq
  <2>5. Message("answer", Head(starts[n].inbox), n) \in Messages
    BY <1>1, <2>2 DEF Message, Messages
  <2>6. starts' = Tell(s, n, Message("answer", Head(starts[n].inbox), n))
    BY <1>3 DEF HelperAnswers
  <2> HIDE DEF x, s
  <2> QED BY <2>3, <2>4, <2>5, <2>6, TellKeeps DEF StartsKept, Staying, Alive
<1>4. CASE ReadEnd(n)
  <2> DEFINE x == [starts[n] EXCEPT !.reading = FALSE]
             s == [starts EXCEPT ![n] = x]
  <2>1. x \in Starts /\ x.image = starts[n].image /\ x.state = starts[n].state
    BY <1>1 DEF Starts
  <2>2. s \in Seq(Starts) /\ DOMAIN s = DOMAIN starts /\ Len(s) = Len(starts)
        /\ \A k \in DOMAIN starts : s[k] = IF k = n THEN x ELSE starts[k]
    BY <1>1, <2>1, ExceptSeq
  <2>3. Message("eof", 0, n) \in Messages
    BY <1>1 DEF Message, Messages
  <2>4. starts' = Tell(s, n, Message("eof", 0, n))
    BY <1>4 DEF ReadEnd
  <2> HIDE DEF x, s
  <2> QED BY <2>1, <2>2, <2>3, <2>4, TellKeeps DEF StartsKept, Staying, Alive
<1>5. CASE HelperFails(n)
  <2>1. PICK state \in {"hung", "dead"} : starts' = [starts EXCEPT ![n].state = state]
    BY <1>5 DEF HelperFails
  <2>2. Alive(n)
    BY <1>5 DEF HelperFails
  <2> DEFINE x == [starts[n] EXCEPT !.state = state]
  <2>3. x \in Starts /\ x.image = starts[n].image
    BY <1>1 DEF Starts, States
  <2>4. starts' = [starts EXCEPT ![n] = x]
    BY <2>1
  <2> HIDE DEF x
  <2> QED BY <2>2, <2>3, <2>4, SetStart DEF Alive
<1> QED BY <1>2, <1>3, <1>4, <1>5

\* A thread starts a helper only in EnterStart, when the host has none.
Starting(t) ==
  /\ EnterStart(t) /\ ~Running
  /\ process' = FreshStart
  /\ starts' = Begin(FreshStart, [NewStart EXCEPT !.state = "boot", !.image = image])

LEMMA ThreadKeepsStarts ==
  ASSUME HostTypes, NEW t \in Threads, HostStep(t) \/ ConnectFails(t), ~Starting(t)
  PROVE  StartsKept
<1>1. starts \in Seq(Starts) /\ \A n \in DOMAIN starts : starts[n] \in Starts
  BY DEF HostTypes
<1>2. CASE Connect(t) /\ Alive(process)
  <2> DEFINE x == [starts[process] EXCEPT !.to = messages, !.reading = TRUE]
  <2>1. starts' = [starts EXCEPT ![process] = x]
    BY <1>2 DEF Connect
  <2>2. messages \in Nat
    BY DEF HostTypes
  <2>3. process \in DOMAIN starts => starts[process] \in Starts
    BY <1>1
  <2>4. process \in DOMAIN starts =>
          x \in Starts /\ x.state = starts[process].state /\ x.image = starts[process].image
    BY <2>2, <2>3 DEF Starts
  <2> HIDE DEF x
  <2> QED BY <2>1, <2>4, SetStart
<1>3. CASE AwaitReady(t)
  <2> DEFINE n == threads[t].from
             x == [starts[n] EXCEPT !.queue = Tail(starts[n].queue)]
  <2>1. starts' = [starts EXCEPT ![n] = x] /\ starts[n].queue # <<>>
    BY <1>3 DEF AwaitReady
  <2>2. ASSUME n \in DOMAIN starts
        PROVE  x \in Starts /\ x.state = starts[n].state /\ x.image = starts[n].image
    <3>1. starts[n] \in Starts /\ starts[n].queue \in Seq(Messages)
      BY <1>1, <2>2 DEF Starts
    <3>2. Tail(starts[n].queue) \in Seq(Messages)
      BY <2>1, <3>1, TailSeq
    <3> QED BY <3>1, <3>2 DEF Starts
  <2> HIDE DEF n, x
  <2> QED BY <2>1, <2>2, SetStart
<1>4. CASE Kill(t)
  <2> DEFINE n == threads[t].doomed
  <2>1. UNCHANGED starts \/ starts' = [starts EXCEPT ![n] = Ended(starts[n])]
    BY <1>4 DEF Kill, EndProcess
  <2>2. n \in DOMAIN starts => Ended(starts[n]) \in Starts /\ Ended(starts[n]).state = "dead"
    BY <1>1, NewStartTyped
  <2> HIDE DEF n
  <2> QED BY <2>1, <2>2, SameStarts, SetStart
<1>5. CASE UNCHANGED starts
  BY <1>5, SameStarts
<1>6. (Connect(t) /\ Alive(process)) \/ AwaitReady(t) \/ Kill(t) \/ UNCHANGED starts
  BY DEF HostStep, ConnectFails, EnterStart, Starting, Connect, ReadyTimesOut, EnterStop, Clear,
     hostVars
<1> QED BY <1>2, <1>3, <1>4, <1>5, <1>6

LEMMA WorkerKeepsStarts ==
  ASSUME HostTypes, NEW d \in Workers,
         TakeJob(d) \/ Send(d) \/ Write(d) \/ Get(d) \/ GetsNothing(d) \/ AnswerLate(d)
  PROVE  StartsKept
<1>1. starts \in Seq(Starts) /\ \A n \in DOMAIN starts : starts[n] \in Starts
  BY DEF HostTypes
<1>2. d \in Threads
  BY ThreadFacts
<1>3. CASE Write(d) /\ Alive(threads[d].target)
  <2> DEFINE n == threads[d].target
             x == [starts[n] EXCEPT !.inbox = Append(@, threads[d].gen)]
  <2>1. starts' = [starts EXCEPT ![n] = x]
    BY <1>3 DEF Write
  <2>2. ASSUME n \in DOMAIN starts
        PROVE  x \in Starts /\ x.state = starts[n].state /\ x.image = starts[n].image
    <3>1. starts[n] \in Starts /\ starts[n].inbox \in Seq(Nat) /\ threads[d].gen \in Nat
      BY <1>1, <1>2, <2>2 DEF Starts, HostTypes, Thread
    <3>2. Append(starts[n].inbox, threads[d].gen) \in Seq(Nat)
      BY <3>1, AppendSeq
    <3> QED BY <3>1, <3>2 DEF Starts
  <2> HIDE DEF n, x
  <2> QED BY <2>1, <2>2, SetStart
<1>4. CASE Get(d)
  <2> DEFINE n == threads[d].from
             x == [starts[n] EXCEPT !.queue = Tail(starts[n].queue)]
  <2>1. starts' = [starts EXCEPT ![n] = x] /\ starts[n].queue # <<>>
    BY <1>4 DEF Get
  <2>2. ASSUME n \in DOMAIN starts
        PROVE  x \in Starts /\ x.state = starts[n].state /\ x.image = starts[n].image
    <3>1. starts[n] \in Starts /\ starts[n].queue \in Seq(Messages)
      BY <1>1, <2>2 DEF Starts
    <3>2. Tail(starts[n].queue) \in Seq(Messages)
      BY <2>1, <3>1, TailSeq
    <3> QED BY <3>1, <3>2 DEF Starts
  <2> HIDE DEF n, x
  <2> QED BY <2>1, <2>2, SetStart
<1>5. CASE UNCHANGED starts
  BY <1>5, SameStarts
<1>6. (Write(d) /\ Alive(threads[d].target)) \/ Get(d) \/ UNCHANGED starts
  BY DEF TakeJob, Send, Write, GetsNothing, AnswerLate, hostVars
<1> QED BY <1>3, <1>4, <1>5, <1>6

-----------------------------------------------------------------------------
(* How a thread moves. *)

\* A thread takes the lock, gives it back, or leaves it as it is.
Locks(t, x) ==
  \/ lifecycleLock' = lifecycleLock /\ (x.pc \in Locked <=> threads[t].pc \in Locked)
  \/ lifecycleLock = Free /\ lifecycleLock' = t /\ x.pc \in Locked
  \/ lifecycleLock' = Free /\ threads[t].pc \in Locked /\ x.pc \notin Locked

\* Thread t goes on as x.
Becomes(t, x) ==
  /\ x \in Thread /\ threads' = [threads EXCEPT ![t] = x]
  /\ x.from \in {0, threads[t].from, messages}
  /\ x.target \in {0, threads[t].target, stream}
Moved(t, x) ==
  /\ Becomes(t, x) /\ Locks(t, x)
  /\ threads[t].pc # "none" /\ (x.pc = "join" => driver < Drivers)

LEMMA GoIs ==
  ASSUME HostTypes, NEW t \in Threads, NEW pc \in Places, Go(t, pc)
  PROVE  \E x : Becomes(t, x) /\ x.pc = pc /\ x.gen \in {0, threads[t].gen}
<1> DEFINE x == IF pc \in Resting THEN Rest(pc) ELSE [threads[t] EXCEPT !.pc = pc]
<1>1. threads[t] \in Thread
  BY DEF HostTypes
<1>2. x \in Thread /\ x.pc = pc /\ x.gen \in {0, threads[t].gen}
      /\ x.from \in {0, threads[t].from} /\ x.target \in {0, threads[t].target}
  <2>1. CASE pc \in Resting
    BY <2>1, RestTyped
  <2>2. CASE pc \notin Resting
    BY <1>1, <2>2 DEF Thread
  <2> QED BY <2>1, <2>2
<1>3. threads' = [threads EXCEPT ![t] = x]
  BY DEF Go
<1> QED BY <1>2, <1>3 DEF Becomes

LEMMA CallStartIs ==
  ASSUME HostTypes, NEW t \in Threads, NEW then \in Returns
  PROVE  \E x \in Thread :
           /\ CallStart(t, then) = [threads EXCEPT ![t] = x]
           /\ x.pc \in {"enter", then} /\ x.gen \in {0, threads[t].gen}
           /\ x.from \in {0, threads[t].from} /\ x.target \in {0, threads[t].target}
<1> DEFINE x == IF ~Running THEN [threads[t] EXCEPT !.pc = "enter", !.then = then, !.tries = 0]
                ELSE IF then \in Resting THEN Rest(then) ELSE [threads[t] EXCEPT !.pc = then]
<1>1. threads[t] \in Thread
  BY DEF HostTypes
<1>2. /\ x \in Thread /\ x.pc \in {"enter", then} /\ x.gen \in {0, threads[t].gen}
      /\ x.from \in {0, threads[t].from} /\ x.target \in {0, threads[t].target}
  <2>1. CASE ~Running
    BY <1>1, <2>1 DEF Thread, Places
  <2>2. CASE Running /\ then \in Resting
    BY <2>2, RestTyped DEF Places
  <2>3. CASE Running /\ then \notin Resting
    BY <1>1, <2>3 DEF Thread, Places
  <2> QED BY <2>1, <2>2, <2>3
<1>3. CallStart(t, then) = [threads EXCEPT ![t] = x]
  BY DEF CallStart
<1> QED BY <1>2, <1>3

\* What every move of one thread keeps.
LEMMA MovedKeeps ==
  ASSUME HostInv, NEW t \in Threads, NEW x, Moved(t, x), driver' = driver,
         starts' \in Seq(Starts), Len(starts) <= Len(starts')
  PROVE  /\ threads' \in [Threads -> Thread]
         /\ \A s \in Threads : threads'[s].from <= Len(starts') /\ threads'[s].target <= Len(starts')
         /\ \A s \in Threads : threads'[s] = IF s = t THEN x ELSE threads[s]
         /\ LockHeld' /\ Waiting'
<1>1. threads \in [Threads -> Thread] /\ x \in Thread
  BY DEF HostInv, HostTypes, Moved, Becomes
<1>2. \A s \in Threads : threads'[s] = IF s = t THEN x ELSE threads[s]
  BY <1>1 DEF Moved, Becomes
<1>3. threads' \in [Threads -> Thread]
  BY <1>1 DEF Moved, Becomes
<1>4. ASSUME NEW s \in Threads
      PROVE  threads'[s].from <= Len(starts') /\ threads'[s].target <= Len(starts')
  <2>1. Len(starts) \in Nat /\ Len(starts') \in Nat
    BY DEF HostInv, HostTypes
  <2>2. threads[s].from <= Len(starts) /\ threads[s].target <= Len(starts)
        /\ threads[s].from \in Nat /\ threads[s].target \in Nat
    BY <1>1 DEF HostInv, HostTypes, Thread
  <2>3. messages \in 1 .. Len(starts) /\ stream \in 0 .. Len(starts)
    BY DEF HostInv, HostTypes
  <2>4. CASE s = t
    BY <1>2, <2>1, <2>2, <2>3, <2>4 DEF Moved, Becomes
  <2>5. CASE s # t
    BY <1>2, <2>1, <2>2, <2>5
  <2> QED BY <2>4, <2>5
<1>5. LockHeld'
  <2>1. LockHeld /\ Locks(t, x)
    BY DEF HostInv, Moved
  <2> SUFFICES ASSUME NEW s \in Threads PROVE threads'[s].pc \in Locked <=> lifecycleLock' = s
    BY DEF LockHeld
  <2>2. threads[s].pc \in Locked <=> lifecycleLock = s
    BY <2>1 DEF LockHeld
  <2>3. threads[t].pc \in Locked <=> lifecycleLock = t
    BY <2>1 DEF LockHeld
  <2> QED BY <1>2, <2>1, <2>2, <2>3, ThreadFacts DEF Locks
<1>6. Waiting'
  BY <1>2, ThreadFacts DEF HostInv, Waiting, Moved, At
<1> QED BY <1>2, <1>3, <1>4, <1>5, <1>6

\* The steps of the host that neither begin nor end a helper.
Minor(t) ==
  \/ EnterStart(t) /\ Running
  \/ Connect(t) \/ AwaitReady(t) \/ ReadyTimesOut(t) \/ ConnectFails(t) \/ EnterStop(t)

LEMMA HostStepIs ==
  ASSUME NEW t, HostStep(t) \/ ConnectFails(t)
  PROVE  Minor(t) \/ Starting(t) \/ Clear(t) \/ Kill(t)
  BY DEF HostStep, Minor, Starting, EnterStart

\* A thread that gives a start up, but still holds the lock.
LEMMA RetryIs ==
  ASSUME HostTypes, NEW t \in Threads, threads[t].pc \in {"connect", "ready"},
         threads' = [threads EXCEPT ![t].pc = "clear", ![t].after = "retry"],
         UNCHANGED lifecycleLock
  PROVE  \E x : Moved(t, x) /\ x.pc = "clear" /\ x.after = "retry" /\ x.gen = threads[t].gen
<1> DEFINE x == [threads[t] EXCEPT !.pc = "clear", !.after = "retry"]
<1>1. threads[t] \in Thread /\ threads \in [Threads -> Thread]
  BY DEF HostTypes
<1>2. x \in Thread /\ x.pc = "clear" /\ x.after = "retry" /\ x.gen = threads[t].gen
      /\ x.from = threads[t].from /\ x.target = threads[t].target
  BY <1>1 DEF Thread, Places, Locked
<1>3. threads' = [threads EXCEPT ![t] = x]
  BY <1>1
<1> HIDE DEF x
<1> QED BY <1>2, <1>3 DEF Moved, Becomes, Locks, Locked

\* They move a thread between places that are not "kill"; and what the main
\* thread has renewed stays so.
LEMMA MinorMoves ==
  ASSUME HostTypes, LockHeld, NEW t \in Threads, Minor(t)
  PROVE  /\ UNCHANGED process /\ UNCHANGED <<driverVars, imageVars>>
         /\ threads[t].pc # "kill"
         /\ \E x : /\ Moved(t, x) /\ x.pc # "kill" /\ x.gen \in {0, threads[t].gen}
                   /\ Renews(x) => Renews(threads[t])
<1>1. threads[t] \in Thread /\ threads \in [Threads -> Thread]
  BY DEF HostTypes
<1>2. threads[t].then \in Returns /\ Returns \subseteq Places /\ Returns \cap Locked = {}
      /\ "join" \notin Returns /\ "enter" \notin Locked
  BY <1>1 DEF Thread, Returns, Places, Locked
<1>3. UNCHANGED process /\ UNCHANGED <<driverVars, imageVars>> /\ threads[t].pc # "kill"
  BY DEF Minor, EnterStart, Connect, AwaitReady, ReadyTimesOut, ConnectFails, EnterStop, hostVars, At
<1>4. CASE EnterStart(t) /\ Running
  <2>1. PICK x : Becomes(t, x) /\ x.pc = threads[t].then /\ x.gen \in {0, threads[t].gen}
    BY <1>2, <1>4, GoIs DEF EnterStart
  <2>2. threads[t].pc = "enter" /\ UNCHANGED lifecycleLock
    BY <1>4 DEF EnterStart, At, hostVars
  <2> QED BY <1>2, <1>3, <2>1, <2>2 DEF Moved, Locks, Renews, Locked
<1>5. CASE Connect(t) \/ ConnectFails(t)
  <2>1. threads[t].pc = "connect" /\ UNCHANGED lifecycleLock
    BY <1>5 DEF Connect, ConnectFails, At, hostVars
  <2>2. CASE Connect(t) /\ Alive(process)
    <3> DEFINE x == [threads[t] EXCEPT !.pc = "ready", !.from = messages]
    <3>1. messages \in Nat
      BY DEF HostTypes
    <3>2. x \in Thread /\ x.pc = "ready" /\ x.gen = threads[t].gen
          /\ x.from = messages /\ x.target = threads[t].target
      BY <1>1, <3>1 DEF Thread, Places, Locked
    <3>3. threads' = [threads EXCEPT ![t] = x]
      BY <1>1, <2>2 DEF Connect
    <3> HIDE DEF x
    <3> QED BY <1>3, <2>1, <3>2, <3>3 DEF Moved, Becomes, Locks, Renews, Locked
  <2>3. CASE ~(Connect(t) /\ Alive(process))
    <3>1. threads' = [threads EXCEPT ![t].pc = "clear", ![t].after = "retry"]
      BY <1>5, <2>3 DEF Connect, ConnectFails
    <3> QED BY <1>3, <2>1, <3>1, RetryIs DEF Renews
  <2> QED BY <2>2, <2>3
<1>6. CASE AwaitReady(t)
  <2>1. threads[t].pc = "ready"
    BY <1>6 DEF AwaitReady, At
  <2>2. CASE lifecycleLock' = Free /\ Go(t, threads[t].then)
    <3>1. PICK x : Becomes(t, x) /\ x.pc = threads[t].then /\ x.gen \in {0, threads[t].gen}
      BY <1>2, <2>2, GoIs
    <3> QED BY <1>2, <1>3, <2>1, <2>2, <3>1 DEF Moved, Locks, Renews, Locked
  <2>3. CASE ~(lifecycleLock' = Free /\ Go(t, threads[t].then))
    <3>1. threads' = [threads EXCEPT ![t].pc = "clear", ![t].after = "retry"]
          /\ UNCHANGED lifecycleLock
      BY <1>6, <2>3 DEF AwaitReady
    <3> QED BY <1>3, <2>1, <3>1, RetryIs DEF Renews
  <2> QED BY <2>2, <2>3
<1>7. CASE ReadyTimesOut(t)
  <2>1. threads' = [threads EXCEPT ![t].pc = "clear", ![t].after = "retry"]
        /\ UNCHANGED lifecycleLock /\ threads[t].pc = "ready"
    BY <1>7 DEF ReadyTimesOut, hostVars, At
  <2> QED BY <1>3, <2>1, RetryIs DEF Renews
<1>8. CASE EnterStop(t)
  <2> DEFINE x == [threads[t] EXCEPT !.pc = "clear", !.after = "restart"]
  <2>1. x \in Thread /\ x.pc = "clear" /\ x.after = "restart" /\ x.gen = threads[t].gen
        /\ x.from = threads[t].from /\ x.target = threads[t].target
    BY <1>1 DEF Thread, Places, Locked
  <2>2. threads' = [threads EXCEPT ![t] = x]
    BY <1>1, <1>8 DEF EnterStop
  <2>3. lifecycleLock = Free /\ lifecycleLock' = t /\ threads[t].pc = "stop"
    BY <1>8 DEF EnterStop, At
  <2> HIDE DEF x
  <2> QED BY <1>3, <2>1, <2>2, <2>3 DEF Moved, Becomes, Locks, Renews, Locked
<1> QED BY <1>4, <1>5, <1>6, <1>7, <1>8 DEF Minor

\* A worker's own steps stay clear of the lock.
LEMMA WorkerMoves ==
  ASSUME HostTypes, LockHeld, NEW d \in Workers,
         TakeJob(d) \/ Send(d) \/ Write(d) \/ Get(d) \/ GetsNothing(d) \/ AnswerLate(d)
  PROVE  /\ UNCHANGED <<process, stream, messages, lifecycleLock>>
         /\ UNCHANGED <<generation, current, driver, spoken, imageVars>>
         /\ jobs' \in [Workers -> Seq(Nat)] /\ mishaps' \in Nat
         /\ threads[d].pc # "kill" /\ \E x : Moved(d, x) /\ x.pc # "kill"
<1>1. threads[d] \in Thread /\ threads \in [Threads -> Thread] /\ d \in Threads
  BY ThreadFacts DEF HostTypes
<1>2. current[d] \in Nat /\ stream \in Nat /\ messages \in Nat
  BY DEF HostTypes
<1>3. UNCHANGED <<process, stream, messages, lifecycleLock>>
      /\ UNCHANGED <<generation, current, driver, spoken, imageVars>>
  BY DEF TakeJob, Send, Write, Get, GetsNothing, AnswerLate, GiveUp, driverVars, hostVars
<1>4. threads[d].pc \in {"loop", "send", "write", "get"}
  BY DEF TakeJob, Send, Write, Get, GetsNothing, AnswerLate, At
<1>5. mishaps' \in Nat
  <2>1. mishaps' \in {mishaps, mishaps + 1}
    BY DEF TakeJob, Send, Write, Get, GetsNothing, AnswerLate
  <2>2. mishaps \in Nat
    BY DEF HostTypes
  <2> QED BY <2>1, <2>2
<1>6. jobs \in [Workers -> Seq(Nat)]
  BY DEF HostTypes
<1>7. ASSUME NEW x \in Thread, x.pc \notin Locked \cup {"join"},
             threads' = [threads EXCEPT ![d] = x],
             x.from \in {0, threads[d].from, messages}, x.target \in {0, threads[d].target, stream}
      PROVE  \E y : Moved(d, y) /\ y.pc # "kill"
  BY <1>3, <1>4, <1>7 DEF Moved, Becomes, Locks, Locked
<1>8. /\ \A pc \in {"loop", "stop", "exited"} : Rest(pc) \in Thread
      /\ \A pc \in {"loop", "stop", "exited"} : Rest(pc).pc \notin Locked \cup {"join"}
  BY RestTyped DEF Places, Returns, Locked
<1>9. ASSUME TakeJob(d) PROVE \E y : Moved(d, y) /\ y.pc # "kill"
  <2>1. CASE threads' = threads
    <3>1. threads' = [threads EXCEPT ![d] = threads[d]]
      BY <1>1, <2>1
    <3>2. threads[d].pc \notin Locked \cup {"join"}
      BY <1>4 DEF Locked
    <3> QED BY <1>1, <1>7, <3>1, <3>2
  <2>2. CASE Go(d, "exited")
    <3>1. threads' = [threads EXCEPT ![d] = Rest("exited")]
      BY <2>2 DEF Go, Resting
    <3> QED BY <1>7, <1>8, <3>1, RestTyped
  <2>3. CASE threads' = [CallStart(d, "send") EXCEPT ![d].gen = current[d]]
    <3>1. PICK y \in Thread :
            /\ CallStart(d, "send") = [threads EXCEPT ![d] = y]
            /\ y.pc \in {"enter", "send"}
            /\ y.from \in {0, threads[d].from} /\ y.target \in {0, threads[d].target}
      BY <1>1, CallStartIs DEF Returns
    <3> DEFINE x == [y EXCEPT !.gen = current[d]]
    <3>2. x \in Thread /\ x.pc = y.pc /\ x.from = y.from /\ x.target = y.target
      BY <1>2 DEF Thread
    <3>3. threads' = [threads EXCEPT ![d] = x]
      BY <1>1, <2>3, <3>1
    <3>4. x.pc \notin Locked \cup {"join"}
      BY <3>1, <3>2 DEF Locked
    <3> HIDE DEF x
    <3> QED BY <1>7, <3>1, <3>2, <3>3, <3>4
  <2> QED BY <1>9, <2>1, <2>2, <2>3 DEF TakeJob
<1>10. ASSUME Send(d) PROVE \E y : Moved(d, y) /\ y.pc # "kill"
  <2> DEFINE x == [threads[d] EXCEPT !.pc = "write", !.target = stream]
  <2>1. x \in Thread /\ x.pc = "write" /\ x.from = threads[d].from /\ x.target = stream
    BY <1>1, <1>2 DEF Thread, Places
  <2>2. threads' = [threads EXCEPT ![d] = x] \/ threads' = [threads EXCEPT ![d] = Rest("loop")]
    BY <1>1, <1>10 DEF Send
  <2>3. x.pc \notin Locked \cup {"join"}
    BY <2>1 DEF Locked
  <2> HIDE DEF x
  <2> QED BY <1>7, <1>8, <2>1, <2>2, <2>3, RestTyped
<1>11. ASSUME Write(d) PROVE \E y : Moved(d, y) /\ y.pc # "kill"
  <2> DEFINE x == [threads[d] EXCEPT !.pc = "get", !.from = messages]
  <2>1. x \in Thread /\ x.pc = "get" /\ x.from = messages /\ x.target = threads[d].target
    BY <1>1, <1>2 DEF Thread, Places
  <2>2. threads' = [threads EXCEPT ![d] = x] \/ threads' = [threads EXCEPT ![d] = Rest("loop")]
    BY <1>1, <1>11 DEF Write, Go, Resting
  <2>3. x.pc \notin Locked \cup {"join"}
    BY <2>1 DEF Locked
  <2> HIDE DEF x
  <2> QED BY <1>7, <1>8, <2>1, <2>2, <2>3, RestTyped
<1>12. ASSUME Get(d) PROVE \E y : Moved(d, y) /\ y.pc # "kill"
  <2> DEFINE x == [threads[d] EXCEPT !.from = messages]
             pc == After(d, Head(starts[threads[d].from].queue))
  <2>1. x \in Thread /\ x.pc = threads[d].pc /\ x.from = messages /\ x.target = threads[d].target
    BY <1>1, <1>2 DEF Thread
  <2>2. pc \in {"stop", "loop", "get"}
    BY DEF After
  <2>3. threads' = [threads EXCEPT ![d] = IF pc = "get" THEN x ELSE Rest(pc)]
    BY <1>1, <1>12 DEF Get
  <2>4. x.pc \notin Locked \cup {"join"}
    BY <1>4, <2>1 DEF Locked
  <2> HIDE DEF x, pc
  <2>5. CASE pc = "get"
    BY <1>7, <2>1, <2>3, <2>4, <2>5
  <2>6. CASE pc \in {"stop", "loop"}
    BY <1>7, <1>8, <2>3, <2>6, RestTyped
  <2> QED BY <2>2, <2>5, <2>6
<1>13. ASSUME GetsNothing(d) \/ AnswerLate(d) PROVE \E y : Moved(d, y) /\ y.pc # "kill"
  <2> DEFINE x == [threads[d] EXCEPT !.from = messages]
  <2>1. x \in Thread /\ x.pc = threads[d].pc /\ x.from = messages /\ x.target = threads[d].target
    BY <1>1, <1>2 DEF Thread
  <2>2. threads' = [threads EXCEPT ![d] = x] \/ threads' = [threads EXCEPT ![d] = Rest("stop")]
    BY <1>1, <1>13 DEF GetsNothing, AnswerLate, GiveUp
  <2>3. x.pc \notin Locked \cup {"join"}
    BY <1>4, <2>1 DEF Locked
  <2> HIDE DEF x
  <2> QED BY <1>7, <1>8, <2>1, <2>2, <2>3, RestTyped
<1>14. jobs' \in [Workers -> Seq(Nat)]
  <2>1. CASE UNCHANGED jobs
    BY <1>6, <2>1
  <2>2. CASE ~UNCHANGED jobs
    <3>1. jobs[d] # <<>> /\ jobs' = [jobs EXCEPT ![d] = Tail(@)]
      BY <2>2 DEF TakeJob, Send, Write, Get, GetsNothing, AnswerLate, driverVars
    <3>2. Tail(jobs[d]) \in Seq(Nat)
      BY <1>6, <3>1, TailSeq
    <3> QED BY <1>6, <3>1, <3>2
  <2> QED BY <2>1, <2>2
<1> QED BY <1>3, <1>4, <1>5, <1>9, <1>10, <1>11, <1>12, <1>13, <1>14

\* The three steps that begin and end helpers.
LEMMA StartingMoves ==
  ASSUME HostInv, NEW t \in Threads, Starting(t)
  PROVE  /\ \E x : Moved(t, x) /\ x.pc = "connect" /\ x.gen = threads[t].gen
         /\ threads[t].pc = "enter" /\ lifecycleLock = Free /\ ~Running
         /\ stream' = None /\ messages' = FreshStart
         /\ UNCHANGED <<driverVars, imageVars, mishaps>>
<1> DEFINE x == [threads[t] EXCEPT !.pc = "connect", !.tries = @ + 1]
<1>1. threads[t] \in Thread /\ threads \in [Threads -> Thread]
  BY DEF HostInv, HostTypes
<1>2. threads[t].tries + 1 \in Nat
  BY <1>1 DEF Thread
<1>3. x \in Thread /\ x.pc = "connect" /\ x.gen = threads[t].gen
      /\ x.from = threads[t].from /\ x.target = threads[t].target
  BY <1>1, <1>2 DEF Thread, Places, Locked
<1>4. threads[t].pc = "enter" /\ lifecycleLock = Free /\ lifecycleLock' = t
  BY DEF Starting, EnterStart, At
<1>5. threads' = [threads EXCEPT ![t] = x]
  BY <1>1 DEF Starting, EnterStart
<1> HIDE DEF x
<1>6. Moved(t, x)
  BY <1>3, <1>4, <1>5 DEF Moved, Becomes, Locks, Locked
<1> QED BY <1>3, <1>4, <1>6 DEF Starting, EnterStart

LEMMA ClearMoves ==
  ASSUME HostInv, NEW t \in Threads, Clear(t)
  PROVE  /\ \E x : /\ Moved(t, x) /\ x.pc = "kill" /\ x.gen = threads[t].gen
                   /\ x.doomed = process /\ (Renews(x) => Renews(threads[t]))
         /\ process' = None /\ stream' = None /\ lifecycleLock = t
         /\ UNCHANGED <<messages, starts, driverVars, imageVars, mishaps>>
<1> DEFINE x == [threads[t] EXCEPT !.pc = "kill", !.doomed = process]
<1>1. threads[t] \in Thread /\ threads \in [Threads -> Thread] /\ process \in Nat
  BY DEF HostInv, HostTypes
<1>2. x \in Thread /\ x.pc = "kill" /\ x.gen = threads[t].gen /\ x.doomed = process
      /\ x.from = threads[t].from /\ x.target = threads[t].target /\ x.after = threads[t].after
  BY <1>1 DEF Thread, Places, Locked
<1>3. threads[t].pc = "clear" /\ UNCHANGED lifecycleLock
  BY DEF Clear, At
<1>4. threads' = [threads EXCEPT ![t] = x]
  BY <1>1 DEF Clear
<1>5. lifecycleLock = t
  BY <1>3 DEF HostInv, LockHeld, Locked
<1> HIDE DEF x
<1>6. Moved(t, x)
  BY <1>2, <1>3, <1>4 DEF Moved, Becomes, Locks, Locked
<1>7. Renews(x) => Renews(threads[t])
  BY <1>2, <1>3 DEF Renews
<1> QED BY <1>2, <1>5, <1>6, <1>7 DEF Clear

LEMMA KillMoves ==
  ASSUME HostInv, NEW t \in Threads, Kill(t)
  PROVE  /\ \E x : Moved(t, x) /\ x.pc # "kill" /\ x.gen \in {0, threads[t].gen}
         /\ threads[t].pc = "kill" /\ lifecycleLock = t
         /\ UNCHANGED <<process, stream, messages, driverVars, imageVars, mishaps>>
<1>1. threads[t].pc = "kill" /\ lifecycleLock' = Free
  BY DEF Kill, Abandon, At
<1>2. lifecycleLock = t
  BY <1>1 DEF HostInv, LockHeld, Locked
<1>3. Home(t) \in Returns \cap Places /\ "enter" \in Places
      /\ Home(t) \notin Locked \cup {"join"} /\ "enter" \notin Locked \cup {"join"}
  BY DEF Home, Returns, Places, Locked
<1>4. \E x : Becomes(t, x) /\ x.pc \notin Locked \cup {"join"} /\ x.gen \in {0, threads[t].gen}
  <2>1. CASE Abandon(t)
    <3> DEFINE pc == IF threads[t].tries < 2 THEN "enter" ELSE Home(t)
    <3>1. pc \in Places /\ pc \notin Locked \cup {"join"} /\ Go(t, pc)
      BY <1>3, <2>1 DEF Abandon
    <3> HIDE DEF pc
    <3> QED BY <3>1, GoIs DEF HostInv
  <2>2. CASE threads' = CallStart(t, Home(t))
    <3>1. PICK x \in Thread :
            /\ CallStart(t, Home(t)) = [threads EXCEPT ![t] = x]
            /\ x.pc \in {"enter", Home(t)} /\ x.gen \in {0, threads[t].gen}
            /\ x.from \in {0, threads[t].from} /\ x.target \in {0, threads[t].target}
      BY <1>3, CallStartIs DEF HostInv
    <3> QED BY <1>3, <2>2, <3>1 DEF Becomes
  <2> QED BY <2>1, <2>2 DEF Kill
<1>5. \E x : Moved(t, x) /\ x.pc # "kill" /\ x.gen \in {0, threads[t].gen}
  <2>1. PICK x : Becomes(t, x) /\ x.pc \notin Locked \cup {"join"} /\ x.gen \in {0, threads[t].gen}
    BY <1>4
  <2>2. threads[t].pc \in Locked /\ "kill" \in Locked
    BY <1>1 DEF Locked
  <2> QED BY <1>1, <2>1, <2>2 DEF Moved, Locks
<1> QED BY <1>1, <1>2, <1>5 DEF Kill

-----------------------------------------------------------------------------
(* The invariant. *)

\* Who lives is owned as before when nobody moves to "kill" or away from it.
LEMMA OwnedKept ==
  ASSUME HostInv, StartsKept, UNCHANGED process,
         \A s \in Threads :
           /\ threads'[s].pc = "kill" <=> threads[s].pc = "kill"
           /\ threads[s].pc = "kill" => threads'[s] = threads[s]
  PROVE  Owned'
<1>1. DOMAIN starts' = DOMAIN starts
  BY DEF HostInv, HostTypes, StartsKept, Staying
<1> QED BY <1>1 DEF HostInv, Owned, StartsKept, Staying, At

LEMMA ImagesKept ==
  ASSUME HostInv, StartsKept, image' = image \/ image' = image + 1, refreshed' = refreshed,
         threads'[Main].gen \in {0, threads[Main].gen},
         Renews(threads'[Main]) => Renews(threads[Main])
  PROVE  Images'
<1>1. DOMAIN starts' = DOMAIN starts /\ \A n \in DOMAIN starts : starts[n] \in Starts
  BY DEF HostInv, HostTypes, StartsKept, Staying
<1>2. threads[Main].gen \in Nat /\ image \in Nat /\ refreshed \in Nat
  BY ThreadFacts DEF HostInv, HostTypes, Thread
<1>3. \A n \in DOMAIN starts : starts[n].image \in Nat
  BY <1>1 DEF Starts
<1>4. ASSUME NEW n \in DOMAIN starts, Alive(n)'
      PROVE  Alive(n) /\ starts'[n].image = starts[n].image
  BY <1>4 DEF StartsKept, Staying
<1>5. RefreshTakesEffect'
  BY <1>1, <1>4 DEF HostInv, Images, RefreshTakesEffect
<1>6. threads'[Main].gen <= image' /\ refreshed' <= image'
  BY <1>2 DEF HostInv, Images
<1>7. ASSUME Renews(threads'[Main]), NEW n \in DOMAIN starts', Alive(n)'
      PROVE  starts'[n].image >= threads'[Main].gen
  <2>1. Alive(n) /\ starts'[n].image = starts[n].image
    BY <1>1, <1>4, <1>7
  <2>2. starts[n].image >= threads[Main].gen
    BY <1>1, <1>7, <2>1 DEF HostInv, Images
  <2> QED BY <1>1, <1>2, <1>3, <2>1, <2>2
<1> QED BY <1>5, <1>6, <1>7 DEF Images

\* When no helper lives, nothing more is to be shown about them.
NoneLives == \A n \in DOMAIN starts : ~Alive(n)

LEMMA NoneLivesKeeps ==
  ASSUME NoneLives', \A s \in Threads : At(s, "kill")' => process' = None,
         threads'[Main].gen <= image', refreshed' <= image'
  PROVE  Owned' /\ Images'
  BY DEF NoneLives, Owned, Images, RefreshTakesEffect

\* Nobody moves.
LEMMA StillKeeps ==
  ASSUME HostInv, UNCHANGED <<threads, lifecycleLock, driver>>, Len(starts') = Len(starts)
  PROVE  /\ threads' \in [Threads -> Thread]
         /\ \A s \in Threads : threads'[s].from <= Len(starts') /\ threads'[s].target <= Len(starts')
         /\ LockHeld' /\ Waiting'
  BY DEF HostInv, HostTypes, LockHeld, Waiting, At

LEMMA InitHolds ==
  ASSUME Init
  PROVE  HostInv
<1>1. NewStart \in Starts /\ NewStart.state = "none"
  <2>1. <<>> \in Seq(Nat) /\ <<>> \in Seq(Messages)
    OBVIOUS
  <2> QED BY <2>1 DEF NewStart, Starts, States
<1>2. starts \in Seq(Starts) /\ Len(starts) = 1 /\ DOMAIN starts = {1} /\ starts[1] = NewStart
  BY <1>1 DEF Init
<1>3. /\ NewThread \in Thread /\ [NewThread EXCEPT !.pc = "enter", !.then = "loop"] \in Thread
      /\ Rest("idle") \in Thread
  BY DEF NewThread, Rest, Thread, Places, Returns
<1>4. /\ NewThread.pc = "none" /\ NewThread.from = 0 /\ NewThread.target = 0
      /\ [NewThread EXCEPT !.pc = "enter", !.then = "loop"].pc = "enter"
      /\ [NewThread EXCEPT !.pc = "enter", !.then = "loop"].from = 0
      /\ [NewThread EXCEPT !.pc = "enter", !.then = "loop"].target = 0
      /\ Rest("idle").pc = "idle" /\ Rest("idle").from = 0 /\ Rest("idle").target = 0
      /\ Rest("idle").gen = 0
  BY DEF NewThread, Rest
<1>5. threads = [t \in Threads |->
        IF t = Main THEN Rest("idle")
        ELSE IF t = 1 THEN [NewThread EXCEPT !.pc = "enter", !.then = "loop"] ELSE NewThread]
  BY DEF Init
<1>6. threads \in [Threads -> Thread]
  BY <1>3, <1>5
<1>7. \A t \in Threads : /\ threads[t].pc \in {"idle", "enter", "none"}
                         /\ threads[t].from = 0 /\ threads[t].target = 0
  BY <1>4, <1>5
<1>8. threads[Main].pc = "idle" /\ threads[Main].gen = 0
  BY <1>4, <1>5, ThreadFacts
<1>9. current \in [Workers -> Nat] /\ jobs \in [Workers -> Seq(Nat)] /\ driver \in Workers
  <2>1. <<>> \in Seq(Nat) /\ None \in Nat
    BY DEF None
  <2>2. 1 \in Workers
    BY ThreadFacts DEF Workers
  <2> QED BY <2>1, <2>2 DEF Init
<1>10. HostTypes
  <2>1. process \in 0 .. Len(starts) /\ stream \in 0 .. Len(starts) /\ messages \in 1 .. Len(starts)
    BY <1>2 DEF Init, None
  <2>2. \A t \in Threads : threads[t].from <= Len(starts) /\ threads[t].target <= Len(starts)
    BY <1>2, <1>7
  <2> QED BY <1>2, <1>6, <1>9, <2>1, <2>2 DEF Init, HostTypes
<1>11. \A n \in DOMAIN starts : ~Alive(n)
  BY <1>1, <1>2 DEF Alive
<1>12. LockHeld
  BY <1>7, ThreadFacts DEF Init, LockHeld, Locked
<1>13. Owned
  BY <1>7, <1>11 DEF Owned, At
<1>14. Images
  BY <1>8, <1>11 DEF Init, Images, RefreshTakesEffect
<1>15. Waiting
  BY <1>4, <1>5, <1>8, ThreadFacts DEF Init, Waiting, At, Workers
<1> QED BY <1>10, <1>12, <1>13, <1>14, <1>15 DEF HostInv

LEMMA MinorHolds ==
  ASSUME HostInv, NEW t \in Threads, Minor(t)
  PROVE  HostInv'
<1>1. HostTypes /\ LockHeld
  BY DEF HostInv
<1>2. StartsKept
  <2>1. HostStep(t) \/ ConnectFails(t)
    BY DEF Minor, HostStep
  <2>2. ~Starting(t)
    BY DEF Minor, Starting, EnterStart, Connect, AwaitReady, ReadyTimesOut, ConnectFails, EnterStop, At
  <2> QED BY <1>1, <2>1, <2>2, ThreadKeepsStarts
<1>3. starts' \in Seq(Starts) /\ Len(starts') = Len(starts)
  BY <1>2 DEF StartsKept, Staying
<1>4. /\ UNCHANGED process /\ UNCHANGED <<driverVars, imageVars>> /\ threads[t].pc # "kill"
      /\ \E x : /\ Moved(t, x) /\ x.pc # "kill" /\ x.gen \in {0, threads[t].gen}
                /\ Renews(x) => Renews(threads[t])
  BY <1>1, MinorMoves
<1>5. PICK x : /\ Moved(t, x) /\ x.pc # "kill" /\ x.gen \in {0, threads[t].gen}
               /\ Renews(x) => Renews(threads[t])
  BY <1>4
<1>6. /\ threads' \in [Threads -> Thread]
      /\ \A s \in Threads : threads'[s].from <= Len(starts') /\ threads'[s].target <= Len(starts')
      /\ \A s \in Threads : threads'[s] = IF s = t THEN x ELSE threads[s]
      /\ LockHeld' /\ Waiting'
  <2>1. Len(starts) <= Len(starts') /\ driver' = driver
    BY <1>1, <1>3, <1>4 DEF HostTypes, driverVars
  <2> QED BY <1>3, <1>5, <2>1, MovedKeeps
<1>7. HostTypes'
  <2>1. messages' = messages /\ stream' \in {stream, process}
    BY DEF Minor, EnterStart, Connect, AwaitReady, ReadyTimesOut, ConnectFails, EnterStop, hostVars
  <2>2. mishaps' \in Nat
    <3>1. mishaps' \in {mishaps, mishaps + 1}
      BY DEF Minor, EnterStart, Connect, AwaitReady, ReadyTimesOut, ConnectFails, EnterStop
    <3> QED BY <1>1, <3>1 DEF HostTypes
  <2>3. lifecycleLock' \in Threads \cup {Free}
    BY <1>1, <1>5 DEF Moved, Locks, HostTypes
  <2> QED BY <1>1, <1>3, <1>4, <1>6, <2>1, <2>2, <2>3 DEF HostTypes, driverVars, imageVars
<1>8. Owned'
  BY <1>2, <1>4, <1>5, <1>6, OwnedKept
<1>9. Images'
  <2>1. threads'[Main].gen \in {0, threads[Main].gen} /\ (Renews(threads'[Main]) => Renews(threads[Main]))
    BY <1>5, <1>6, ThreadFacts
  <2> QED BY <1>2, <1>4, <2>1, ImagesKept DEF imageVars
<1> QED BY <1>6, <1>7, <1>8, <1>9 DEF HostInv

\* The first helper of a start finds none alive.
LEMMA StartingHolds ==
  ASSUME HostInv, NEW t \in Threads, Starting(t)
  PROVE  HostInv'
<1>1. HostTypes
  BY DEF HostInv
<1>2. PICK x : Moved(t, x) /\ x.pc = "connect" /\ x.gen = threads[t].gen
  BY StartingMoves
<1>3. /\ threads[t].pc = "enter" /\ lifecycleLock = Free /\ ~Running
      /\ process' = FreshStart /\ stream' = None /\ messages' = FreshStart
      /\ UNCHANGED <<driverVars, imageVars, mishaps>>
  BY StartingMoves DEF Starting
<1> DEFINE s == [NewStart EXCEPT !.state = "boot", !.image = image]
<1>4. s \in Starts /\ s.image = image /\ image \in Nat /\ refreshed \in Nat
  BY <1>1, NewStartTyped DEF HostTypes
<1>5. starts' = Begin(FreshStart, s)
  BY DEF Starting
<1> HIDE DEF s
<1>6. /\ starts' \in Seq(Starts) /\ Len(starts) <= Len(starts')
      /\ FreshStart \in 1 .. Len(starts') /\ starts'[FreshStart] = s
      /\ \A k \in 1 .. Len(starts') : k # FreshStart =>
           (k \in DOMAIN starts /\ starts'[k] = starts[k]) \/ starts'[k] = Ended(NewStart)
  BY <1>1, <1>4, <1>5, BeginKeeps
<1>7. \A q \in Threads : ~At(q, "kill")
  BY <1>3, ThreadFacts DEF HostInv, LockHeld, Locked, At
<1>8. \A k \in DOMAIN starts : ~Alive(k)
  <2> SUFFICES ASSUME NEW k \in DOMAIN starts, Alive(k) PROVE FALSE
    OBVIOUS
  <2>1. k = process
    BY <1>7 DEF HostInv, Owned
  <2>2. process # None
    BY <1>1, <2>1 DEF HostTypes, None
  <2> QED BY <1>3, <2>1, <2>2 DEF Running
<1>9. \A k \in DOMAIN starts' : Alive(k)' => k = FreshStart
  <2> SUFFICES ASSUME NEW k \in DOMAIN starts', Alive(k)', k # FreshStart PROVE FALSE
    OBVIOUS
  <2>1. k \in 1 .. Len(starts')
    BY <1>6
  <2>2. CASE k \in DOMAIN starts /\ starts'[k] = starts[k]
    BY <1>8, <2>2 DEF Alive
  <2>3. CASE starts'[k] = Ended(NewStart)
    BY <2>3, NewStartTyped DEF Alive
  <2> QED BY <1>6, <2>1, <2>2, <2>3
<1>10. /\ threads' \in [Threads -> Thread]
       /\ \A q \in Threads : threads'[q].from <= Len(starts') /\ threads'[q].target <= Len(starts')
       /\ \A q \in Threads : threads'[q] = IF q = t THEN x ELSE threads[q]
       /\ LockHeld' /\ Waiting'
  BY <1>2, <1>3, <1>6, MovedKeeps DEF driverVars
<1>11. HostTypes'
  <2>1. lifecycleLock' \in Threads \cup {Free}
    BY <1>2 DEF Moved, Locks, HostInv, HostTypes
  <2>2. FreshStart \in 0 .. Len(starts') /\ None \in 0 .. Len(starts')
    BY <1>6 DEF None
  <2> QED BY <1>1, <1>3, <1>6, <1>10, <2>1, <2>2 DEF HostTypes, driverVars, imageVars
<1>12. Owned'
  <2>1. \A q \in Threads : ~At(q, "kill")'
    BY <1>2, <1>7, <1>10 DEF At
  <2> QED BY <1>3, <1>9, <2>1 DEF Owned
<1>13. Images'
  <2>1. threads'[Main].gen = threads[Main].gen
    BY <1>2, <1>10, ThreadFacts
  <2>2. threads[Main].gen <= image /\ refreshed <= image /\ threads[Main].gen \in Nat
    BY <1>1, ThreadFacts DEF HostInv, Images, HostTypes, Thread
  <2>3. image' = image /\ refreshed' = refreshed
    BY <1>3 DEF imageVars
  <2>4. \A n \in DOMAIN starts' :
          Alive(n)' => starts'[n].image >= threads'[Main].gen /\ starts'[n].image >= refreshed'
    BY <1>4, <1>6, <1>9, <2>1, <2>2, <2>3
  <2> QED BY <2>1, <2>2, <2>3, <2>4 DEF Images, RefreshTakesEffect
<1> QED BY <1>10, <1>11, <1>12, <1>13 DEF HostInv

\* The process is handed over from the host to the thread that will end it.
LEMMA ClearHolds ==
  ASSUME HostInv, NEW t \in Threads, Clear(t)
  PROVE  HostInv'
<1>1. HostTypes
  BY DEF HostInv
<1>2. PICK x : /\ Moved(t, x) /\ x.pc = "kill" /\ x.gen = threads[t].gen
               /\ x.doomed = process /\ (Renews(x) => Renews(threads[t]))
  BY ClearMoves
<1>3. /\ process' = None /\ stream' = None /\ lifecycleLock = t
      /\ UNCHANGED <<messages, starts, driverVars, imageVars, mishaps>>
  BY ClearMoves
<1>4. StartsKept
  BY <1>1, <1>3, SameStarts
<1>5. starts' \in Seq(Starts) /\ Len(starts) \in Nat
  BY <1>1, <1>3 DEF HostTypes
<1>6. /\ threads' \in [Threads -> Thread]
      /\ \A q \in Threads : threads'[q].from <= Len(starts') /\ threads'[q].target <= Len(starts')
      /\ \A q \in Threads : threads'[q] = IF q = t THEN x ELSE threads[q]
      /\ LockHeld' /\ Waiting'
  BY <1>2, <1>3, <1>5, MovedKeeps DEF driverVars
<1>7. HostTypes'
  <2>1. lifecycleLock' \in Threads \cup {Free}
    BY <1>1, <1>2 DEF Moved, Locks, HostTypes
  <2>2. None \in 0 .. Len(starts')
    BY <1>3, <1>5 DEF None
  <2> QED BY <1>1, <1>3, <1>6, <2>1, <2>2 DEF HostTypes, driverVars, imageVars
<1>8. Owned'
  <2>1. ASSUME NEW n \in DOMAIN starts', Alive(n)'
        PROVE  At(t, "kill")' /\ threads'[t].doomed = n
    <3>1. Alive(n) /\ n \in DOMAIN starts
      BY <1>3, <2>1 DEF Alive
    <3>2. \A q \in Threads : ~At(q, "kill")
      <4>1. threads[t].pc = "clear"
        BY DEF Clear, At
      <4> QED BY <1>3, <4>1 DEF HostInv, LockHeld, Locked, At
    <3>3. n = process
      BY <3>1, <3>2 DEF HostInv, Owned
    <3>4. threads'[t] = x
      BY <1>6
    <3>5. x.pc = "kill" /\ x.doomed = process
      BY <1>2
    <3> QED BY <3>3, <3>4, <3>5 DEF At
  <2> QED BY <1>3, <2>1 DEF Owned
<1>9. Images'
  <2>1. threads'[Main].gen \in {0, threads[Main].gen} /\ (Renews(threads'[Main]) => Renews(threads[Main]))
    BY <1>2, <1>6, ThreadFacts
  <2> QED BY <1>3, <1>4, <2>1, ImagesKept DEF imageVars
<1> QED BY <1>6, <1>7, <1>8, <1>9 DEF HostInv

\* What is ended is the only helper there was.
LEMMA KillHolds ==
  ASSUME HostInv, NEW t \in Threads, Kill(t)
  PROVE  HostInv'
<1>1. HostTypes
  BY DEF HostInv
<1>2. PICK x : Moved(t, x) /\ x.pc # "kill" /\ x.gen \in {0, threads[t].gen}
  BY KillMoves
<1>3. /\ threads[t].pc = "kill" /\ lifecycleLock = t
      /\ UNCHANGED <<process, stream, messages, driverVars, imageVars, mishaps>>
  BY KillMoves
<1>4. StartsKept
  <2>1. ~Starting(t)
    BY <1>3 DEF Starting, EnterStart, At
  <2> QED BY <1>1, <2>1, ThreadKeepsStarts DEF HostStep
<1>5. starts' \in Seq(Starts) /\ Len(starts') = Len(starts) /\ Len(starts) \in Nat
      /\ DOMAIN starts' = DOMAIN starts
  BY <1>1, <1>4 DEF HostTypes, StartsKept, Staying
<1>6. /\ threads' \in [Threads -> Thread]
      /\ \A q \in Threads : threads'[q].from <= Len(starts') /\ threads'[q].target <= Len(starts')
      /\ \A q \in Threads : threads'[q] = IF q = t THEN x ELSE threads[q]
      /\ LockHeld' /\ Waiting'
  BY <1>2, <1>3, <1>5, MovedKeeps DEF driverVars
<1>7. HostTypes'
  <2>1. lifecycleLock' \in Threads \cup {Free}
    BY <1>1, <1>2 DEF Moved, Locks, HostTypes
  <2> QED BY <1>1, <1>3, <1>5, <1>6, <2>1 DEF HostTypes, driverVars, imageVars
<1>8. \A q \in Threads : At(q, "kill") => q = t
  BY <1>3 DEF HostInv, LockHeld, Locked, At
<1>9. NoneLives'
  <2> SUFFICES ASSUME NEW n \in DOMAIN starts', Alive(n)' PROVE FALSE
    BY DEF NoneLives
  <2>1. Alive(n) /\ n \in DOMAIN starts
    BY <1>4, <1>5 DEF StartsKept, Staying
  <2>2. process = None /\ n # None
    BY <1>1, <1>3, <2>1 DEF HostInv, Owned, At, HostTypes, None
  <2>3. threads[t].doomed = n
    BY <1>8, <2>1, <2>2 DEF HostInv, Owned
  <2>4. starts' = [starts EXCEPT ![n] = Ended(starts[n])]
    BY <2>2, <2>3 DEF Kill, EndProcess
  <2>5. starts'[n].state = "dead"
    <3>1. starts[n] \in Starts /\ starts'[n] = Ended(starts[n])
      BY <1>1, <2>1, <2>4 DEF HostTypes
    <3> QED BY <3>1, NewStartTyped
  <2> QED BY <2>5 DEF Alive
<1>10. Owned' /\ Images'
  <2>1. threads'[Main].gen \in {0, threads[Main].gen}
    BY <1>2, <1>6, ThreadFacts
  <2>2. threads'[Main].gen <= image' /\ refreshed' <= image'
    BY <1>1, <1>3, <2>1 DEF HostInv, Images, HostTypes, imageVars
  <2>3. \A s \in Threads : At(s, "kill")' => process' = None
    BY <1>3 DEF HostInv, Owned, At
  <2> QED BY <1>9, <2>2, <2>3, NoneLivesKeeps
<1> QED BY <1>6, <1>7, <1>10 DEF HostInv

LEMMA WorkerHolds ==
  ASSUME HostInv, NEW d \in Workers,
         TakeJob(d) \/ Send(d) \/ Write(d) \/ Get(d) \/ GetsNothing(d) \/ AnswerLate(d)
  PROVE  HostInv'
<1>1. HostTypes /\ LockHeld /\ d \in Threads /\ d # Main
  BY ThreadFacts DEF HostInv
<1>2. StartsKept
  BY <1>1, WorkerKeepsStarts
<1>3. starts' \in Seq(Starts) /\ Len(starts') = Len(starts) /\ Len(starts) \in Nat
  BY <1>1, <1>2 DEF HostTypes, StartsKept, Staying
<1>4. /\ UNCHANGED <<process, stream, messages, lifecycleLock>>
      /\ UNCHANGED <<generation, current, driver, spoken, imageVars>>
      /\ jobs' \in [Workers -> Seq(Nat)] /\ mishaps' \in Nat
      /\ threads[d].pc # "kill"
  BY <1>1, WorkerMoves
<1>5. PICK x : Moved(d, x) /\ x.pc # "kill"
  BY <1>1, WorkerMoves
<1>6. /\ threads' \in [Threads -> Thread]
      /\ \A q \in Threads : threads'[q].from <= Len(starts') /\ threads'[q].target <= Len(starts')
      /\ \A q \in Threads : threads'[q] = IF q = d THEN x ELSE threads[q]
      /\ LockHeld' /\ Waiting'
  BY <1>1, <1>3, <1>4, <1>5, MovedKeeps
<1>7. HostTypes'
  BY <1>1, <1>3, <1>4, <1>6 DEF HostTypes, imageVars
<1>8. Owned'
  BY <1>2, <1>4, <1>5, <1>6, OwnedKept
<1>9. Images'
  <2>1. threads'[Main] = threads[Main]
    BY <1>1, <1>6, ThreadFacts
  <2> QED BY <1>2, <1>4, <2>1, ImagesKept DEF imageVars
<1> QED BY <1>6, <1>7, <1>8, <1>9 DEF HostInv

\* A step in which no thread moves and no start is made.
LEMMA StillHolds ==
  ASSUME HostInv, StartsKept, UNCHANGED <<process, stream, messages, lifecycleLock, threads>>,
         UNCHANGED <<generation, current, driver, refreshed>>, image' = image \/ image' = image + 1,
         jobs' \in [Workers -> Seq(Nat)], mishaps' \in Nat, spoken' \in Nat, posted' \in BOOLEAN
  PROVE  HostInv'
<1>1. HostTypes
  BY DEF HostInv
<1>2. starts' \in Seq(Starts) /\ Len(starts') = Len(starts)
  BY DEF StartsKept, Staying
<1>3. /\ threads' \in [Threads -> Thread]
      /\ \A s \in Threads : threads'[s].from <= Len(starts') /\ threads'[s].target <= Len(starts')
      /\ LockHeld' /\ Waiting'
  BY <1>2, StillKeeps
<1>4. HostTypes'
  BY <1>1, <1>2, <1>3 DEF HostTypes
<1>5. Owned'
  BY OwnedKept
<1>6. Images'
  BY ImagesKept
<1> QED BY <1>3, <1>4, <1>5, <1>6 DEF HostInv

LEMMA HelperHolds ==
  ASSUME HostInv, NEW n \in DOMAIN starts,
         HelperBoots(n) \/ HelperAnswers(n) \/ ReadEnd(n) \/ HelperFails(n)
  PROVE  HostInv'
<1>1. StartsKept /\ HostTypes
  BY HelperKeepsStarts DEF HostInv
<1>2. /\ UNCHANGED <<process, stream, messages, lifecycleLock, threads>>
      /\ UNCHANGED <<driverVars, imageVars>> /\ mishaps' \in Nat
  BY <1>1 DEF HelperBoots, HelperAnswers, ReadEnd, HelperFails, HostTypes
<1> QED BY <1>1, <1>2, StillHolds DEF driverVars, imageVars, HostTypes

LEMMA UserHolds ==
  ASSUME HostInv, Speak \/ BuildImage
  PROVE  HostInv'
<1>1. HostTypes /\ UNCHANGED starts
  BY DEF HostInv, Speak, BuildImage, hostVars
<1>2. StartsKept
  BY <1>1, SameStarts
<1>3. jobs' \in [Workers -> Seq(Nat)]
  <2>1. CASE Speak
    <3>1. jobs[driver] \in Seq(Nat) /\ current[driver] \in Nat
      BY <1>1 DEF HostTypes
    <3>2. Append(jobs[driver], current[driver]) \in Seq(Nat)
      BY <3>1, AppendSeq
    <3> QED BY <1>1, <2>1, <3>2 DEF Speak, HostTypes
  <2>2. CASE BuildImage
    BY <1>1, <2>2 DEF BuildImage, HostTypes, driverVars
  <2> QED BY <2>1, <2>2
<1>4. /\ UNCHANGED <<process, stream, messages, lifecycleLock, threads>>
      /\ UNCHANGED <<generation, current, driver, refreshed>>
      /\ image' = image \/ image' = image + 1
      /\ mishaps' \in Nat /\ spoken' \in Nat /\ posted' \in BOOLEAN
  <2>1. CASE Speak
    BY <1>1, <2>1 DEF Speak, HostTypes, hostVars, imageVars
  <2>2. CASE BuildImage
    BY <1>1, <2>2 DEF BuildImage, HostTypes, hostVars, driverVars
  <2> QED BY <2>1, <2>2
<1> QED BY <1>2, <1>3, <1>4, StillHolds

\* A refresh is asked for, or has returned: the image it was to load is then
\* in every helper there is.
LEMMA RefreshHolds ==
  ASSUME HostInv, Refresh \/ RefreshReturns
  PROVE  HostInv'
<1>1. HostTypes /\ UNCHANGED starts /\ Main \in Threads
  BY ThreadFacts DEF HostInv, Refresh, RefreshReturns, hostVars
<1>2. StartsKept
  BY <1>1, SameStarts
<1>3. starts' \in Seq(Starts) /\ Len(starts') = Len(starts) /\ Len(starts) \in Nat
      /\ threads[Main] \in Thread /\ threads \in [Threads -> Thread] /\ image \in Nat
      /\ threads[Main].gen \in Nat
  <2>1. starts' \in Seq(Starts) /\ Len(starts') = Len(starts) /\ Len(starts) \in Nat
    BY <1>1 DEF HostTypes
  <2>2. threads \in [Threads -> Thread] /\ image \in Nat
    BY DEF HostInv, HostTypes
  <2>3. threads[Main] \in Thread
    BY <1>1, <2>2
  <2> QED BY <2>1, <2>2, <2>3 DEF Thread
<1>4. \E x : /\ Moved(Main, x) /\ x.pc \in {"stop", "idle"} /\ x.gen <= image'
             /\ threads[Main].pc # "kill"
  <2>1. CASE Refresh
    <3> DEFINE x == [threads[Main] EXCEPT !.pc = "stop", !.gen = image]
    <3>1. x \in Thread /\ x.pc = "stop" /\ x.gen = image
          /\ x.from = threads[Main].from /\ x.target = threads[Main].target
      BY <1>3 DEF Thread, Places
    <3>2. threads' = [threads EXCEPT ![Main] = x]
      BY <1>3, <2>1 DEF Refresh
    <3>3. threads[Main].pc = "idle" /\ UNCHANGED lifecycleLock /\ image' = image
      BY <2>1 DEF Refresh, At, hostVars
    <3> HIDE DEF x
    <3>4. Moved(Main, x)
      BY <3>1, <3>2, <3>3 DEF Moved, Becomes, Locks, Locked
    <3>5. x.gen <= image'
      BY <1>3, <3>1, <3>3
    <3> QED BY <3>1, <3>3, <3>4, <3>5
  <2>2. CASE RefreshReturns
    <3>1. threads' = [threads EXCEPT ![Main] = Rest("idle")]
      BY <2>2 DEF RefreshReturns, Go, Resting
    <3>2. threads[Main].pc = "refreshed" /\ UNCHANGED lifecycleLock /\ image' = image
      BY <2>2 DEF RefreshReturns, At, hostVars
    <3>3. Rest("idle") \in Thread
      BY RestTyped DEF Places
    <3>4. Moved(Main, Rest("idle"))
      BY <3>1, <3>2, <3>3, RestTyped DEF Moved, Becomes, Locks, Locked
    <3>5. Rest("idle").gen <= image' /\ Rest("idle").pc = "idle"
      BY <1>3, <3>2, RestTyped
    <3> QED BY <3>2, <3>4, <3>5
  <2> QED BY <2>1, <2>2
<1>5. PICK x : /\ Moved(Main, x) /\ x.pc \in {"stop", "idle"} /\ x.gen <= image'
               /\ threads[Main].pc # "kill"
  BY <1>4
<1>6. /\ threads' \in [Threads -> Thread]
      /\ \A q \in Threads : threads'[q].from <= Len(starts') /\ threads'[q].target <= Len(starts')
      /\ \A q \in Threads : threads'[q] = IF q = Main THEN x ELSE threads[q]
      /\ LockHeld' /\ Waiting'
  <2>1. driver' = driver
    BY DEF Refresh, RefreshReturns, driverVars
  <2> QED BY <1>1, <1>3, <1>5, <2>1, MovedKeeps
<1>7. /\ UNCHANGED <<process, stream, messages, lifecycleLock, driver, image, mishaps, spoken>>
      /\ posted' \in BOOLEAN /\ generation' \in Nat /\ refreshed' \in Nat
      /\ current' \in [Workers -> Nat] /\ jobs' \in [Workers -> Seq(Nat)]
  <2>1. <<>> \in Seq(Nat) /\ generation + 1 \in Nat
    BY <1>1 DEF HostTypes
  <2> QED BY <1>1, <1>3, <2>1 DEF Refresh, RefreshReturns, HostTypes, hostVars, driverVars
<1>8. HostTypes'
  BY <1>1, <1>3, <1>6, <1>7 DEF HostTypes
<1>9. Owned'
  BY <1>2, <1>5, <1>6, <1>7, OwnedKept
<1>10. Images'
  <2>1. ~Renews(threads'[Main]) /\ threads'[Main].gen <= image'
    BY <1>1, <1>5, <1>6 DEF Renews
  <2>2. refreshed' <= image' /\ RefreshTakesEffect'
    <3>1. CASE Refresh
      BY <1>1, <3>1 DEF Refresh, HostInv, Images, RefreshTakesEffect, Alive
    <3>2. CASE RefreshReturns
      <4>1. refreshed' = threads[Main].gen /\ Renews(threads[Main])
        BY <3>2 DEF RefreshReturns, At, Renews
      <4>2. \A n \in DOMAIN starts : Alive(n) => starts[n].image >= threads[Main].gen
        BY <4>1 DEF HostInv, Images
      <4> QED BY <1>1, <1>7, <4>1, <4>2 DEF HostInv, Images, RefreshTakesEffect, Alive
    <3> QED BY <3>1, <3>2
  <2> QED BY <2>1, <2>2 DEF Images
<1> QED BY <1>6, <1>8, <1>9, <1>10 DEF HostInv

LEMMA TerminateHolds ==
  ASSUME HostInv, Terminate
  PROVE  HostInv'
<1>1. HostTypes /\ UNCHANGED starts /\ Main \in Threads
  BY ThreadFacts DEF HostInv, Terminate, hostVars
<1>2. StartsKept
  BY <1>1, SameStarts
<1>3. starts' \in Seq(Starts) /\ Len(starts') = Len(starts) /\ Len(starts) \in Nat
  BY <1>1 DEF HostTypes
<1>4. threads[Main].pc = "idle" /\ driver < Drivers /\ UNCHANGED lifecycleLock
  BY DEF Terminate, At, hostVars
<1>5. PICK x : Becomes(Main, x) /\ x.pc = "join" /\ x.gen \in {0, threads[Main].gen}
  BY <1>1, GoIs DEF Terminate, Places
<1>6. Moved(Main, x)
  BY <1>4, <1>5 DEF Moved, Locks, Locked
<1>7. /\ threads' \in [Threads -> Thread]
      /\ \A q \in Threads : threads'[q].from <= Len(starts') /\ threads'[q].target <= Len(starts')
      /\ \A q \in Threads : threads'[q] = IF q = Main THEN x ELSE threads[q]
      /\ LockHeld' /\ Waiting'
  BY <1>1, <1>3, <1>6, MovedKeeps DEF Terminate
<1>8. HostTypes'
  <2>1. <<>> \in Seq(Nat) /\ generation + 1 \in Nat /\ None \in Nat
    BY <1>1 DEF HostTypes, None
  <2> QED BY <1>1, <1>3, <1>7, <2>1 DEF Terminate, HostTypes, hostVars, imageVars
<1>9. Owned'
  BY <1>2, <1>4, <1>5, <1>7, OwnedKept DEF Terminate, hostVars
<1>10. Images'
  <2>1. ~Renews(threads'[Main]) /\ threads'[Main].gen \in {0, threads[Main].gen}
    BY <1>1, <1>5, <1>7 DEF Renews
  <2> QED BY <1>2, <2>1, ImagesKept DEF Terminate, imageVars
<1> QED BY <1>7, <1>8, <1>9, <1>10 DEF HostInv

\* The next driver's worker begins while the last one may be anywhere.
LEMMA NextDriverHolds ==
  ASSUME HostInv, NextDriver
  PROVE  HostInv'
<1>1. HostTypes /\ UNCHANGED starts /\ Main \in Threads /\ threads \in [Threads -> Thread]
  BY ThreadFacts DEF HostInv, HostTypes, NextDriver, hostVars
<1>2. StartsKept
  BY <1>1, SameStarts
<1>3. starts' \in Seq(Starts) /\ Len(starts') = Len(starts) /\ Len(starts) \in Nat
  BY <1>1 DEF HostTypes
<1> DEFINE d == driver + 1
<1>4. threads[Main].pc = "join" /\ UNCHANGED <<process, stream, messages, lifecycleLock>>
  BY DEF NextDriver, At, hostVars
<1>5. d \in Workers /\ d \in Threads /\ d # Main /\ d > driver /\ driver' = d /\ driver \in Nat
  <2>1. driver \in Workers /\ driver < Drivers
    BY <1>1, <1>4 DEF HostInv, Waiting, At, HostTypes
  <2> QED BY <2>1, ThreadFacts DEF Workers, NextDriver
<1>6. threads[d].pc = "none"
  BY <1>5 DEF HostInv, Waiting
<1>7. PICK y \in Thread :
        /\ CallStart(d, "loop") = [threads EXCEPT ![d] = y]
        /\ y.pc \in {"enter", "loop"}
        /\ y.from \in {0, threads[d].from} /\ y.target \in {0, threads[d].target}
  BY <1>1, <1>5, CallStartIs DEF Returns
<1>8. threads' = [[threads EXCEPT ![d] = y] EXCEPT ![Main] = Rest("idle")]
  BY <1>7 DEF NextDriver
<1> HIDE DEF d
<1>9. \A q \in Threads :
        threads'[q] = IF q = Main THEN Rest("idle") ELSE IF q = d THEN y ELSE threads[q]
  BY <1>1, <1>5, <1>8
<1>10. threads' \in [Threads -> Thread]
  <2>1. Rest("idle") \in Thread
    BY RestTyped DEF Places
  <2> QED BY <1>1, <1>7, <1>8, <2>1
<1>11. ASSUME NEW q \in Threads
       PROVE  threads'[q].from <= Len(starts') /\ threads'[q].target <= Len(starts')
  <2>1. /\ threads[q].from <= Len(starts) /\ threads[q].target <= Len(starts)
        /\ threads[d].from <= Len(starts) /\ threads[d].target <= Len(starts)
    BY <1>1, <1>5 DEF HostTypes
  <2>2. CASE q = Main
    <3>1. threads'[q].from = 0 /\ threads'[q].target = 0
      BY <1>9, <2>2, RestTyped
    <3> QED BY <1>3, <3>1
  <2>3. CASE q # Main /\ q = d
    <3>1. threads'[q] = y
      BY <1>9, <2>3
    <3> QED BY <1>3, <1>7, <2>1, <3>1
  <2>4. CASE q # Main /\ q # d
    <3>1. threads'[q] = threads[q]
      BY <1>9, <2>4
    <3> QED BY <1>3, <2>1, <3>1
  <2> QED BY <2>2, <2>3, <2>4
<1>12. \A q \in Threads : threads'[q].pc \in Locked <=> threads[q].pc \in Locked
  BY <1>4, <1>6, <1>7, <1>9, RestTyped DEF Locked
<1>13. LockHeld'
  BY <1>4, <1>12 DEF HostInv, LockHeld
<1>14. Waiting'
  <2>1. threads'[Main].pc = "idle"
    BY <1>1, <1>9, RestTyped
  <2>2. ASSUME NEW q \in Workers, q > d
        PROVE  threads'[q].pc = "none"
    <3>1. q \in Threads /\ q # Main /\ q # d /\ q > driver
      BY <1>5, <2>2, ThreadFacts DEF Workers
    <3> QED BY <1>9, <3>1 DEF HostInv, Waiting
  <2> QED BY <1>5, <2>1, <2>2 DEF Waiting, At
<1>15. HostTypes'
  <2>1. generation + 1 \in Nat
    BY <1>1 DEF HostTypes
  <2> QED BY <1>1, <1>3, <1>4, <1>5, <1>10, <1>11, <2>1 DEF NextDriver, HostTypes, imageVars
<1>16. Owned'
  <2>1. \A q \in Threads : threads'[q].pc = "kill" <=> threads[q].pc = "kill"
    BY <1>4, <1>6, <1>7, <1>9, RestTyped
  <2>2. \A q \in Threads : threads[q].pc = "kill" => threads'[q] = threads[q]
    BY <1>4, <1>6, <1>9
  <2> QED BY <1>2, <1>4, <2>1, <2>2, OwnedKept
<1>17. Images'
  <2>1. threads'[Main] = Rest("idle")
    BY <1>1, <1>9
  <2>2. ~Renews(threads'[Main]) /\ threads'[Main].gen \in {0, threads[Main].gen}
    BY <2>1, RestTyped DEF Renews
  <2> QED BY <1>2, <2>2, ImagesKept DEF NextDriver, imageVars
<1> QED BY <1>13, <1>14, <1>15, <1>16, <1>17 DEF HostInv

LEMMA StutterHolds == HostInv /\ UNCHANGED vars => HostInv'
<1> SUFFICES ASSUME HostInv, UNCHANGED vars PROVE HostInv'
  OBVIOUS
<1>1. StartsKept
  BY SameStarts DEF HostInv, vars, hostVars
<1> QED BY <1>1, StillHolds DEF vars, hostVars, driverVars, imageVars, HostInv, HostTypes

LEMMA NextHolds == HostInv /\ [Next]_vars => HostInv'
<1> SUFFICES ASSUME HostInv, [Next]_vars PROVE HostInv'
  OBVIOUS
<1>1. ASSUME NEW t \in Threads, HostStep(t) \/ ConnectFails(t) PROVE HostInv'
  BY <1>1, HostStepIs, MinorHolds, StartingHolds, ClearHolds, KillHolds
<1>2. ASSUME NEW d \in Workers,
             TakeJob(d) \/ Send(d) \/ Write(d) \/ Get(d) \/ GetsNothing(d) \/ AnswerLate(d)
      PROVE  HostInv'
  BY <1>2, WorkerHolds
<1>3. ASSUME NEW n \in DOMAIN starts,
             HelperBoots(n) \/ HelperAnswers(n) \/ ReadEnd(n) \/ HelperFails(n)
      PROVE  HostInv'
  BY <1>3, HelperHolds
<1>4. CASE Speak \/ BuildImage \/ Refresh \/ RefreshReturns \/ Terminate \/ NextDriver
  BY <1>4, UserHolds, RefreshHolds, TerminateHolds, NextDriverHolds
<1> QED BY <1>1, <1>2, <1>3, <1>4, StepIs, StutterHolds

-----------------------------------------------------------------------------
\* A helper that lives is the host's process or the one a thread inside
\* _stopUnlocked has yet to end (samsungTVVoices.py:356-394), and each start
\* is of the boot image there was.
THEOREM Ownership == Spec => []HostInv
  BY InitHolds, NextHolds, PTL DEF Spec

LEMMA OwnedIsOne ==
  ASSUME HostInv
  PROVE  OneHelper
<1> SUFFICES ASSUME NEW m \in DOMAIN starts, NEW n \in DOMAIN starts, Alive(m), Alive(n)
             PROVE  m = n
  BY DEF OneHelper
<1>1. ASSUME NEW s \in Threads, NEW t \in Threads, At(s, "kill"), At(t, "kill") PROVE s = t
  BY <1>1 DEF HostInv, LockHeld, Locked, At
<1>2. m # None /\ n # None
  BY DEF HostInv, HostTypes, None
<1>3. CASE process = None
  BY <1>1, <1>2, <1>3 DEF HostInv, Owned
<1>4. CASE process # None
  BY <1>4 DEF HostInv, Owned
<1> QED BY <1>3, <1>4

\* However many drivers follow each other, and however the main thread and the
\* workers interleave, never do two helpers run.
THEOREM AlwaysOneHelper == Spec => []OneHelper
  BY Ownership, OwnedIsOne, PTL

\* When a refresh has returned, no helper is left of an image older than the
\* one it was called for (refreshFirmwareRuntime, samsungTVVoices.py:509-513).
THEOREM AlwaysRefreshed == Spec => []RefreshTakesEffect
<1>1. HostInv => RefreshTakesEffect
  BY DEF HostInv, Images
<1> QED BY <1>1, Ownership, PTL

-----------------------------------------------------------------------------
(* Whose answers a queue may hold.  A reader puts what its helper says into *)
(* the queue of the same number, so a text can be answered by another      *)
(* helper only if somebody wrote its generation to that one.               *)

\* The thread has a text: it is being sent, or waits for the helper to start.
Sends(x) == x.then = "send" \/ x.pc \in {"send", "write", "get"}
Speaking(d) == Sends(threads[d])

Elements(s) == {s[i] : i \in DOMAIN s}
\* What start x has said or is still to say.
Answers(x) == Elements(x.inbox) \cup {m.gen : m \in {a \in Elements(x.queue) : a.type = "answer"}}
\* Start n says what it says into its own queue.
SaysItself(n, x) ==
  /\ x.to \in {0, n} /\ (x.reading => x.to = n)
  /\ \A m \in Elements(x.queue) : m.from = n

Sources ==
  /\ stream \in {None, process} /\ process \in {None, messages}
  /\ \A t \in Threads : At(t, "connect") => process = messages
  /\ \A n \in DOMAIN starts : SaysItself(n, starts[n])

\* A generation belongs to one driver.
OwnGenerations ==
  /\ \A d \in Workers : current[d] <= generation /\ (Speaking(d) => threads[d].gen \in 1 .. generation)
  /\ \A d, e \in Workers : d # e =>
       /\ current[d] # None => current[d] # current[e]
       /\ Speaking(d) => threads[d].gen # current[e]
       /\ Speaking(d) /\ Speaking(e) => threads[d].gen # threads[e].gen

\* Where a text waits for its answer, only the helper it was written to can
\* have answered it.
Unanswered(s, q, x) == q # x.target => x.gen \notin Answers(s[q])
OwnQueues ==
  \A d \in Workers :
    /\ threads[d].pc \in {"write", "get"} => Unanswered(starts, messages, threads[d])
    /\ At(d, "get") =>
         threads[d].from \in DOMAIN starts /\ Unanswered(starts, threads[d].from, threads[d])

OwnInv == Sources /\ OwnGenerations /\ OwnQueues

LEMMA TailElements ==
  ASSUME NEW S, NEW s \in Seq(S), s # <<>>
  PROVE  Elements(Tail(s)) \subseteq Elements(s) /\ Head(s) \in Elements(s)
<1>1. Len(s) \in Nat \ {0} /\ DOMAIN s = 1 .. Len(s) /\ Head(s) = s[1]
      /\ DOMAIN Tail(s) = 1 .. Len(s) - 1 /\ \A i \in 1 .. Len(s) - 1 : Tail(s)[i] = s[i + 1]
  OBVIOUS
<1>2. 1 \in DOMAIN s /\ \A i \in DOMAIN Tail(s) : i + 1 \in DOMAIN s
  BY <1>1
<1> QED BY <1>1, <1>2 DEF Elements

LEMMA AppendElements ==
  ASSUME NEW S, NEW s \in Seq(S), NEW m \in S
  PROVE  Elements(Append(s, m)) \subseteq Elements(s) \cup {m}
<1>1. Len(s) \in Nat /\ DOMAIN s = 1 .. Len(s) /\ DOMAIN Append(s, m) = 1 .. Len(s) + 1
      /\ \A i \in 1 .. Len(s) : Append(s, m)[i] = s[i]
      /\ Append(s, m)[Len(s) + 1] = m
  OBVIOUS
<1>2. \A i \in DOMAIN Append(s, m) : i \in DOMAIN s \/ i = Len(s) + 1
  BY <1>1
<1> QED BY <1>1, <1>2 DEF Elements

\* What becomes of a start in a step that gives it nothing to say.
Kept(n, y, x) == SaysItself(n, y) /\ Answers(y) \subseteq Answers(x)

LEMMA PopKept ==
  ASSUME NEW n, NEW x \in Starts, SaysItself(n, x), x.queue # <<>>
  PROVE  Kept(n, [x EXCEPT !.queue = Tail(x.queue)], x)
<1>1. x.queue \in Seq(Messages)
  BY DEF Starts
<1>2. Elements(Tail(x.queue)) \subseteq Elements(x.queue)
  BY <1>1, TailElements
<1> DEFINE y == [x EXCEPT !.queue = Tail(x.queue)]
<1>3. y.queue = Tail(x.queue) /\ y.inbox = x.inbox /\ y.to = x.to /\ y.reading = x.reading
  BY DEF Starts
<1> HIDE DEF y
<1>4. Kept(n, y, x)
  BY <1>2, <1>3 DEF Kept, SaysItself, Answers
<1> QED BY <1>4 DEF y

LEMMA EndedKept ==
  ASSUME NEW n, NEW x \in Starts, SaysItself(n, x)
  PROVE  Kept(n, Ended(x), x)
<1>1. Ended(x).queue = x.queue /\ Ended(x).inbox = <<>> /\ Ended(x).to = 0 /\ Ended(x).reading = FALSE
  BY DEF Ended, NewStart
<1>2. Elements(<<>>) = {}
  BY DEF Elements
<1> QED BY <1>1, <1>2 DEF Kept, SaysItself, Answers

LEMMA SameKept == \A n, x, y :
  /\ SaysItself(n, x) /\ y.queue = x.queue /\ y.inbox = x.inbox
  /\ y.to \in {x.to, n} /\ (y.reading => y.to = n)
  => Kept(n, y, x)
  BY DEF Kept, SaysItself, Answers

\* A message of helper n, put into the queue n says it into.
LEMMA TellKept ==
  ASSUME NEW s \in Seq(Starts), NEW n \in DOMAIN s, NEW m \in Messages, s[n].to = n, m.from = n,
         \A k \in DOMAIN s : SaysItself(k, s[k])
  PROVE  /\ \A k \in DOMAIN s : SaysItself(k, Tell(s, n, m)[k])
         /\ \A k \in DOMAIN s : k # n => Tell(s, n, m)[k] = s[k]
         /\ Answers(Tell(s, n, m)[n]) \subseteq Answers(s[n]) \cup (IF m.type = "answer" THEN {m.gen} ELSE {})
<1> DEFINE y == [s[n] EXCEPT !.queue = Append(@, m)]
<1>1. s[n] \in Starts
  OBVIOUS
<1>2. s[n].queue \in Seq(Messages)
  BY <1>1 DEF Starts
<1>3. Elements(Append(s[n].queue, m)) \subseteq Elements(s[n].queue) \cup {m}
  BY <1>2, AppendElements
<1>4. y.queue = Append(s[n].queue, m) /\ y.inbox = s[n].inbox /\ y.to = s[n].to
      /\ y.reading = s[n].reading
  BY <1>1 DEF Starts
<1>5. Tell(s, n, m) = [s EXCEPT ![n] = y]
  BY DEF Tell
<1>6. \A k \in DOMAIN s : Tell(s, n, m)[k] = IF k = n THEN y ELSE s[k]
  BY <1>5
<1> HIDE DEF y
<1>7. SaysItself(n, y)
  BY <1>3, <1>4 DEF SaysItself
<1>8. Answers(y) \subseteq Answers(s[n]) \cup (IF m.type = "answer" THEN {m.gen} ELSE {})
  BY <1>3, <1>4 DEF Answers
<1> QED BY <1>6, <1>7, <1>8

-----------------------------------------------------------------------------
(* The steps. *)

\* No start is given anything to say.
Passing ==
  /\ DOMAIN starts' = DOMAIN starts
  /\ \A k \in DOMAIN starts : Kept(k, starts'[k], starts[k])

LEMMA SamePasses ==
  ASSUME HostTypes, Sources, UNCHANGED starts
  PROVE  Passing
  BY SameKept DEF Sources, Passing, SaysItself

LEMMA SetPasses ==
  ASSUME HostTypes, Sources, NEW n, NEW x \in Starts, starts' = [starts EXCEPT ![n] = x],
         n \in DOMAIN starts => Kept(n, x, starts[n])
  PROVE  Passing
<1>1. \A k \in DOMAIN starts : Kept(k, starts[k], starts[k])
  BY SameKept DEF Sources, SaysItself
<1>2. starts \in Seq(Starts)
  BY DEF HostTypes
<1>3. DOMAIN starts' = DOMAIN starts
      /\ \A k \in DOMAIN starts : starts'[k] = IF k = n THEN x ELSE starts[k]
  BY <1>2, ExceptSeq
<1> QED BY <1>1, <1>3 DEF Passing

\* A message is taken from the queue of start n.
LEMMA PopPasses ==
  ASSUME HostTypes, Sources, NEW n, starts[n].queue # <<>>,
         starts' = [starts EXCEPT ![n].queue = Tail(starts[n].queue)]
  PROVE  Passing
<1> DEFINE x == [starts[n] EXCEPT !.queue = Tail(starts[n].queue)]
<1>1. starts' = [starts EXCEPT ![n] = x]
  OBVIOUS
<1>2. CASE n \in DOMAIN starts
  <2>1. starts[n] \in Starts /\ SaysItself(n, starts[n])
    BY <1>2 DEF HostTypes, Sources
  <2>2. starts[n].queue \in Seq(Messages)
    BY <2>1 DEF Starts
  <2>3. Tail(starts[n].queue) \in Seq(Messages)
    BY <2>2, TailSeq
  <2>4. x \in Starts
    BY <2>1, <2>3 DEF Starts
  <2>5. Kept(n, x, starts[n])
    BY <2>1, PopKept
  <2> HIDE DEF x
  <2> QED BY <1>1, <2>4, <2>5, SetPasses
<1>3. CASE n \notin DOMAIN starts
  <2>1. starts' = starts
    <3>1. starts \in [1 .. Len(starts) -> Starts] /\ n \notin 1 .. Len(starts)
      BY <1>3 DEF HostTypes
    <3> HIDE DEF x
    <3> QED BY <1>1, <3>1
  <2> QED BY <2>1, SamePasses
<1> QED BY <1>2, <1>3

LEMMA HelperPasses ==
  ASSUME HostTypes, Sources, NEW n \in DOMAIN starts,
         HelperBoots(n) \/ HelperAnswers(n) \/ ReadEnd(n) \/ HelperFails(n)
  PROVE  Passing
<1>1. starts[n] \in Starts /\ starts \in Seq(Starts) /\ n \in Nat
  BY DEF HostTypes
<1>2. \A k \in DOMAIN starts : SaysItself(k, starts[k])
  BY DEF Sources
<1>3. CASE HelperFails(n)
  <2>1. PICK state \in {"hung", "dead"} : starts' = [starts EXCEPT ![n].state = state]
    BY <1>3 DEF HelperFails
  <2> DEFINE x == [starts[n] EXCEPT !.state = state]
  <2>2. /\ x \in Starts /\ x.queue = starts[n].queue /\ x.inbox = starts[n].inbox
        /\ x.to = starts[n].to /\ x.reading = starts[n].reading
    BY <1>1 DEF Starts, States
  <2>3. starts' = [starts EXCEPT ![n] = x]
    BY <2>1
  <2> HIDE DEF x
  <2>4. Kept(n, x, starts[n])
    BY <1>2, <2>2, SameKept DEF SaysItself
  <2> QED BY <2>2, <2>3, <2>4, SetPasses
<1>4. ASSUME NEW x \in Starts, NEW m \in Messages, m.from = n, starts[n].reading,
             x.queue = starts[n].queue, Elements(x.inbox) \subseteq Elements(starts[n].inbox),
             x.to = starts[n].to, x.reading => starts[n].reading,
             m.type = "answer" => m.gen \in Elements(starts[n].inbox),
             starts' = Tell([starts EXCEPT ![n] = x], n, m)
      PROVE  Passing
  <2> DEFINE s == [starts EXCEPT ![n] = x]
  <2>1. s \in Seq(Starts) /\ DOMAIN s = DOMAIN starts
        /\ \A k \in DOMAIN starts : s[k] = IF k = n THEN x ELSE starts[k]
    BY <1>1, <1>4, ExceptSeq
  <2>2. starts' = Tell(s, n, m)
    BY <1>4
  <2> HIDE DEF s
  <2>3. s[n].to = n
    BY <1>2, <1>4, <2>1 DEF SaysItself
  <2>4. \A k \in DOMAIN s : SaysItself(k, s[k])
    BY <1>2, <1>4, <2>1 DEF SaysItself
  <2>5. m \in Messages /\ m.from = n /\ n \in DOMAIN s
    BY <1>4, <2>1
  <2>6. /\ \A k \in DOMAIN s : SaysItself(k, starts'[k])
        /\ \A k \in DOMAIN s : k # n => starts'[k] = s[k]
        /\ Answers(starts'[n]) \subseteq Answers(s[n]) \cup (IF m.type = "answer" THEN {m.gen} ELSE {})
    BY ONLY <2>1, <2>2, <2>3, <2>4, <2>5, TellKept
  <2>7. Answers(x) \subseteq Answers(starts[n])
    BY <1>4 DEF Answers
  <2>8. m.type = "answer" => m.gen \in Answers(starts[n])
    BY <1>4 DEF Answers
  <2>9. Answers(starts'[n]) \subseteq Answers(starts[n])
    BY <2>1, <2>6, <2>7, <2>8
  <2>10. DOMAIN starts' = DOMAIN starts
    BY <1>4, <2>1, <2>2, TellKeeps
  <2> QED BY <2>1, <2>6, <2>9, <2>10 DEF Passing, Kept
<1>5. CASE HelperBoots(n)
  <2> DEFINE x == [starts[n] EXCEPT !.state = "ready"]
             m == Message("ready", 0, n)
  <2>1. /\ x \in Starts /\ x.queue = starts[n].queue /\ x.inbox = starts[n].inbox
        /\ x.to = starts[n].to /\ x.reading = starts[n].reading
    BY <1>1 DEF Starts, States
  <2>2. m \in Messages /\ m.from = n /\ m.type # "answer"
    BY <1>1 DEF Message, Messages
  <2>3. starts' = Tell([starts EXCEPT ![n] = x], n, m) /\ starts[n].reading
    BY <1>5 DEF HelperBoots, Read
  <2> HIDE DEF x, m
  <2> QED BY <1>4, <2>1, <2>2, <2>3
<1>6. CASE ReadEnd(n)
  <2> DEFINE x == [starts[n] EXCEPT !.reading = FALSE]
             m == Message("eof", 0, n)
  <2>1. /\ x \in Starts /\ x.queue = starts[n].queue /\ x.inbox = starts[n].inbox
        /\ x.to = starts[n].to /\ ~x.reading
    BY <1>1 DEF Starts
  <2>2. m \in Messages /\ m.from = n /\ m.type # "answer"
    BY <1>1 DEF Message, Messages
  <2>3. starts' = Tell([starts EXCEPT ![n] = x], n, m) /\ starts[n].reading
    BY <1>6 DEF ReadEnd, Read
  <2> HIDE DEF x, m
  <2> QED BY <1>4, <2>1, <2>2, <2>3
<1>7. CASE HelperAnswers(n)
  <2> DEFINE x == [starts[n] EXCEPT !.inbox = Tail(@)]
             m == Message("answer", Head(starts[n].inbox), n)
  <2>1. starts[n].inbox \in Seq(Nat) /\ starts[n].inbox # <<>>
    BY <1>1, <1>7 DEF Starts, HelperAnswers
  <2>2. Tail(starts[n].inbox) \in Seq(Nat) /\ Head(starts[n].inbox) \in Nat
    BY <2>1, TailSeq
  <2>3. Elements(Tail(starts[n].inbox)) \subseteq Elements(starts[n].inbox)
        /\ Head(starts[n].inbox) \in Elements(starts[n].inbox)
    BY <2>1, TailElements
  <2>4. /\ x \in Starts /\ x.queue = starts[n].queue /\ x.inbox = Tail(starts[n].inbox)
        /\ x.to = starts[n].to /\ x.reading = starts[n].reading
    BY <1>1, <2>2 DEF Starts
  <2>5. m \in Messages /\ m.from = n /\ m.gen = Head(starts[n].inbox)
    BY <1>1, <2>2 DEF Message, Messages
  <2>6. starts' = Tell([starts EXCEPT ![n] = x], n, m) /\ starts[n].reading
    BY <1>7 DEF HelperAnswers, Read
  <2> HIDE DEF x, m
  <2> QED BY <1>4, <2>3, <2>4, <2>5, <2>6
<1> QED BY <1>3, <1>5, <1>6, <1>7

LEMMA HostPasses ==
  ASSUME HostTypes, Sources, NEW t \in Threads, HostStep(t) \/ ConnectFails(t), ~Starting(t)
  PROVE  Passing
<1>1. starts \in Seq(Starts) /\ \A n \in DOMAIN starts : starts[n] \in Starts
  BY DEF HostTypes
<1>2. CASE Connect(t) /\ Alive(process)
  <2> DEFINE x == [starts[process] EXCEPT !.to = messages, !.reading = TRUE]
  <2>1. starts' = [starts EXCEPT ![process] = x] /\ process = messages
    BY <1>2 DEF Connect, Sources
  <2>2. process \in DOMAIN starts /\ messages \in Nat
    BY <2>1 DEF HostTypes
  <2>3. starts[process] \in Starts /\ SaysItself(process, starts[process])
    BY <2>2 DEF HostTypes, Sources
  <2>4. /\ x \in Starts /\ x.queue = starts[process].queue /\ x.inbox = starts[process].inbox
        /\ x.to = process
    BY <2>1, <2>2, <2>3 DEF Starts
  <2> HIDE DEF x
  <2>5. Kept(process, x, starts[process])
    BY <2>3, <2>4, SameKept
  <2> QED BY <2>1, <2>4, <2>5, SetPasses
<1>3. CASE AwaitReady(t)
  BY <1>3, PopPasses DEF AwaitReady
<1>4. CASE Kill(t)
  <2> DEFINE n == threads[t].doomed
  <2>1. UNCHANGED starts \/ (n # None /\ starts' = [starts EXCEPT ![n] = Ended(starts[n])])
    BY <1>4 DEF Kill, EndProcess
  <2>2. CASE n \in DOMAIN starts
    <3>1. Ended(starts[n]) \in Starts /\ Kept(n, Ended(starts[n]), starts[n])
      BY <1>1, <2>2, NewStartTyped, EndedKept DEF Sources
    <3> HIDE DEF n
    <3> QED BY <2>1, <3>1, SamePasses, SetPasses
  <2>3. CASE n \notin DOMAIN starts
    <3> HIDE DEF n
    <3>1. starts' = starts
      <4>1. starts \in [1 .. Len(starts) -> Starts] /\ n \notin 1 .. Len(starts)
        BY <1>1, <2>3
      <4> QED BY <2>1, <4>1
    <3> QED BY <3>1, SamePasses
  <2> QED BY <2>2, <2>3
<1>5. CASE UNCHANGED starts
  BY <1>5, SamePasses
<1>6. (Connect(t) /\ Alive(process)) \/ AwaitReady(t) \/ Kill(t) \/ UNCHANGED starts
  BY DEF HostStep, ConnectFails, EnterStart, Starting, Connect, ReadyTimesOut, EnterStop, Clear,
     hostVars
<1> QED BY <1>2, <1>3, <1>4, <1>5, <1>6

LEMMA WorkerPasses ==
  ASSUME HostTypes, Sources, NEW d \in Workers,
         TakeJob(d) \/ Send(d) \/ Get(d) \/ GetsNothing(d) \/ AnswerLate(d)
  PROVE  Passing
<1>1. CASE Get(d)
  BY <1>1, PopPasses DEF Get
<1>2. CASE ~Get(d)
  <2>1. UNCHANGED starts
    BY <1>2 DEF TakeJob, Send, GetsNothing, AnswerLate, hostVars
  <2> QED BY <2>1, SamePasses
<1> QED BY <1>1, <1>2

\* A text is written: its target, and no other start, has something to say.
LEMMA WriteGives ==
  ASSUME HostTypes, Sources, NEW d \in Workers, Write(d)
  PROVE  /\ DOMAIN starts' = DOMAIN starts
         /\ \A k \in DOMAIN starts : SaysItself(k, starts'[k])
         /\ \A k \in DOMAIN starts : k # threads[d].target => starts'[k] = starts[k]
         /\ \A k \in DOMAIN starts : Answers(starts'[k]) \subseteq Answers(starts[k]) \cup {threads[d].gen}
<1>1. CASE UNCHANGED starts
  BY <1>1 DEF Sources
<1>2. CASE ~UNCHANGED starts
  <2> DEFINE n == threads[d].target
             x == [starts[n] EXCEPT !.inbox = Append(@, threads[d].gen)]
  <2>1. starts' = [starts EXCEPT ![n] = x] /\ starts \in Seq(Starts)
    BY <1>2 DEF Write, HostTypes
  <2>2. ASSUME n \in DOMAIN starts
        PROVE  /\ x \in Starts /\ SaysItself(n, x)
               /\ Answers(x) \subseteq Answers(starts[n]) \cup {threads[d].gen}
    <3>1. /\ starts[n] \in Starts /\ starts[n].inbox \in Seq(Nat) /\ threads[d].gen \in Nat
          /\ SaysItself(n, starts[n])
      <4>1. starts[n] \in Starts /\ SaysItself(n, starts[n])
        BY <2>1, <2>2 DEF Sources
      <4>2. threads[d] \in Thread
        BY ThreadFacts DEF HostTypes
      <4> QED BY <4>1, <4>2 DEF Starts, Thread
    <3>2. Append(starts[n].inbox, threads[d].gen) \in Seq(Nat)
      BY <3>1, AppendSeq
    <3>3. Elements(Append(starts[n].inbox, threads[d].gen))
            \subseteq Elements(starts[n].inbox) \cup {threads[d].gen}
      BY <3>1, AppendElements
    <3>4. /\ x \in Starts /\ x.inbox = Append(starts[n].inbox, threads[d].gen)
          /\ x.queue = starts[n].queue /\ x.to = starts[n].to /\ x.reading = starts[n].reading
      BY <3>1, <3>2 DEF Starts
    <3> HIDE DEF n, x
    <3> QED BY <3>1, <3>3, <3>4 DEF SaysItself, Answers
  <2> HIDE DEF n, x
  <2>3. DOMAIN starts' = DOMAIN starts
        /\ \A k \in DOMAIN starts : starts'[k] = IF k = n THEN x ELSE starts[k]
    BY <2>1, <2>2, ExceptSeq
  <2>4. \A k \in DOMAIN starts : SaysItself(k, starts'[k])
    BY <2>2, <2>3 DEF Sources
  <2>5. \A k \in DOMAIN starts : k # n => starts'[k] = starts[k]
    BY <2>3
  <2>6. \A k \in DOMAIN starts : Answers(starts'[k]) \subseteq Answers(starts[k]) \cup {threads[d].gen}
    BY <2>2, <2>3
  <2> QED BY <2>3, <2>4, <2>5, <2>6 DEF n
<1> QED BY <1>1, <1>2

\* What a thread inside the host becomes: it may lose its text, but gets none.
Carries(t, x) ==
  /\ threads' = [threads EXCEPT ![t] = x]
  /\ Sends(x) => Speaking(t) /\ x.gen = threads[t].gen
  /\ x.pc \notin {"write", "get"}

LEMMA GoCarries ==
  ASSUME HostTypes, NEW t \in Threads, NEW pc \in Returns \cup {"enter"}, Go(t, pc),
         pc = "send" => threads[t].then = "send"
  PROVE  \E x : Carries(t, x) /\ x.pc # "connect"
<1> DEFINE x == IF pc \in Resting THEN Rest(pc) ELSE [threads[t] EXCEPT !.pc = pc]
<1>1. threads[t] \in Thread
  BY DEF HostTypes
<1>2. threads' = [threads EXCEPT ![t] = x]
  BY DEF Go
<1>3. pc \notin {"connect", "write", "get"}
  BY DEF Returns
<1>4. /\ Sends(x) => Speaking(t) /\ x.gen = threads[t].gen
      /\ x.pc \notin {"connect", "write", "get"}
  <2>1. CASE pc \in Resting
    BY <1>3, <2>1 DEF Resting, Rest, NewThread, Sends
  <2>2. CASE pc \notin Resting
    <3>1. x.pc = pc /\ x.then = threads[t].then /\ x.gen = threads[t].gen
      BY <1>1, <2>2 DEF Thread
    <3> HIDE DEF x
    <3> QED BY <1>3, <3>1 DEF Sends, Speaking
  <2> QED BY <2>1, <2>2
<1> HIDE DEF x
<1> QED BY <1>2, <1>4 DEF Carries

LEMMA CallStartCarries ==
  ASSUME HostTypes, NEW t \in Threads, NEW then \in Returns \ {"send"}
  PROVE  \E x \in Thread : /\ CallStart(t, then) = [threads EXCEPT ![t] = x]
                           /\ Sends(x) => Speaking(t) /\ x.gen = threads[t].gen
                           /\ then \in Resting => ~Sends(x)
                           /\ x.pc \in {"enter", then}
<1> DEFINE x == IF ~Running THEN [threads[t] EXCEPT !.pc = "enter", !.then = then, !.tries = 0]
                ELSE IF then \in Resting THEN Rest(then) ELSE [threads[t] EXCEPT !.pc = then]
<1>1. threads[t] \in Thread
  BY DEF HostTypes
<1>2. CallStart(t, then) = [threads EXCEPT ![t] = x]
  BY DEF CallStart
<1>3. then \notin {"send", "write", "get"} /\ then \in Places /\ "enter" \in Places
  BY DEF Returns, Places
<1>4. /\ x \in Thread /\ x.pc \in {"enter", then} /\ (then \in Resting => ~Sends(x))
      /\ Sends(x) => Speaking(t) /\ x.gen = threads[t].gen
  <2>1. CASE ~Running
    <3>1. x \in Thread /\ x.pc = "enter" /\ x.then = then
      BY <1>1, <1>3, <2>1 DEF Thread
    <3> HIDE DEF x
    <3> QED BY <1>3, <3>1 DEF Sends, Speaking
  <2>2. CASE Running /\ then \in Resting
    BY <1>3, <2>2, RestTyped DEF Resting, Rest, NewThread, Sends
  <2>3. CASE Running /\ then \notin Resting
    <3>1. x \in Thread /\ x.pc = then /\ x.then = threads[t].then /\ x.gen = threads[t].gen
      BY <1>1, <1>3, <2>3 DEF Thread
    <3> HIDE DEF x
    <3> QED BY <1>3, <2>3, <3>1 DEF Sends, Speaking
  <2> QED BY <2>1, <2>2, <2>3
<1> HIDE DEF x
<1> QED BY <1>2, <1>4

\* Another place, with the text there was.
LEMMA PlaceCarries ==
  ASSUME HostTypes, NEW t \in Threads, NEW x, threads' = [threads EXCEPT ![t] = x],
         x.pc \notin {"send", "write", "get"}, x.then = threads[t].then, x.gen = threads[t].gen
  PROVE  Carries(t, x)
  BY DEF Carries, Sends, Speaking

LEMMA HostCarries ==
  ASSUME HostInv, NEW t \in Threads, HostStep(t) \/ ConnectFails(t)
  PROVE  \E x : Carries(t, x) /\ (x.pc = "connect" => Starting(t))
<1>1. HostTypes /\ threads[t] \in Thread /\ threads \in [Threads -> Thread]
  BY DEF HostInv, HostTypes
<1>2. threads[t].then \in Returns
  BY <1>1 DEF Thread
<1>3. CASE EnterStart(t) /\ Running
  BY <1>1, <1>2, <1>3, GoCarries DEF EnterStart
<1>4. CASE Starting(t)
  <2> DEFINE x == [threads[t] EXCEPT !.pc = "connect", !.tries = @ + 1]
  <2>1. threads' = [threads EXCEPT ![t] = x]
    BY <1>1, <1>4 DEF Starting, EnterStart
  <2>2. x.pc = "connect" /\ x.then = threads[t].then /\ x.gen = threads[t].gen
    BY <1>1 DEF Thread
  <2> HIDE DEF x
  <2>3. Carries(t, x)
    BY <1>1, <2>1, <2>2, PlaceCarries
  <2> QED BY <1>4, <2>3
<1>5. CASE Connect(t) /\ Alive(process)
  <2> DEFINE x == [threads[t] EXCEPT !.pc = "ready", !.from = messages]
  <2>1. threads' = [threads EXCEPT ![t] = x]
    BY <1>1, <1>5 DEF Connect
  <2>2. x.pc = "ready" /\ x.then = threads[t].then /\ x.gen = threads[t].gen
    BY <1>1 DEF Thread
  <2> HIDE DEF x
  <2>3. Carries(t, x)
    BY <1>1, <2>1, <2>2, PlaceCarries
  <2> QED BY <2>2, <2>3
<1>6. ASSUME NEW after, threads' = [threads EXCEPT ![t].pc = "clear", ![t].after = after]
      PROVE  \E x : Carries(t, x) /\ x.pc # "connect"
  <2> DEFINE x == [threads[t] EXCEPT !.pc = "clear", !.after = after]
  <2>1. threads' = [threads EXCEPT ![t] = x]
    BY <1>1, <1>6
  <2>2. x.pc = "clear" /\ x.then = threads[t].then /\ x.gen = threads[t].gen
    BY <1>1 DEF Thread
  <2> HIDE DEF x
  <2>3. Carries(t, x)
    BY <1>1, <2>1, <2>2, PlaceCarries
  <2> QED BY <2>2, <2>3
<1>7. CASE (Connect(t) /\ ~Alive(process)) \/ ConnectFails(t) \/ ReadyTimesOut(t) \/ EnterStop(t)
  BY <1>6, <1>7 DEF Connect, ConnectFails, ReadyTimesOut, EnterStop
<1>8. CASE AwaitReady(t)
  <2>1. Go(t, threads[t].then) \/ threads' = [threads EXCEPT ![t].pc = "clear", ![t].after = "retry"]
    BY <1>8 DEF AwaitReady
  <2> QED BY <1>1, <1>2, <1>6, <2>1, GoCarries
<1>9. CASE Clear(t)
  <2> DEFINE x == [threads[t] EXCEPT !.pc = "kill", !.doomed = process]
  <2>1. threads' = [threads EXCEPT ![t] = x]
    BY <1>1, <1>9 DEF Clear
  <2>2. x.pc = "kill" /\ x.then = threads[t].then /\ x.gen = threads[t].gen
    BY <1>1 DEF Thread
  <2> HIDE DEF x
  <2>3. Carries(t, x)
    BY <1>1, <2>1, <2>2, PlaceCarries
  <2> QED BY <2>2, <2>3
<1>10. CASE Kill(t)
  <2>1. Home(t) \in Returns \ {"send"}
    BY DEF Home, Returns
  <2>2. CASE Abandon(t)
    <3> DEFINE pc == IF threads[t].tries < 2 THEN "enter" ELSE Home(t)
    <3>1. Go(t, pc) /\ pc \in Returns \cup {"enter"} /\ pc # "send"
      BY <2>1, <2>2 DEF Abandon
    <3> HIDE DEF pc
    <3> QED BY <1>1, <3>1, GoCarries
  <2>3. CASE threads' = CallStart(t, Home(t))
    <3>1. PICK x \in Thread : /\ CallStart(t, Home(t)) = [threads EXCEPT ![t] = x]
                              /\ Sends(x) => Speaking(t) /\ x.gen = threads[t].gen
                              /\ x.pc \in {"enter", Home(t)}
      BY <1>1, <2>1, CallStartCarries
    <3>2. x.pc \notin {"write", "get", "connect"}
      BY <3>1 DEF Home
    <3> QED BY <2>3, <3>1, <3>2 DEF Carries, Speaking, Sends
  <2> QED BY <1>10, <2>2, <2>3 DEF Kill
<1> QED BY <1>3, <1>4, <1>5, <1>7, <1>8, <1>9, <1>10 DEF HostStep, Starting, EnterStart

\* What a worker's own step makes of it: a text it takes is of its driver's
\* generation, one it sends goes to the helper whose queue it will read.
Works(d, x) ==
  /\ threads' = [threads EXCEPT ![d] = x] /\ x.pc # "connect"
  /\ Sends(x) => \/ Speaking(d) /\ x.gen = threads[d].gen
                 \/ current[d] # None /\ x.gen = current[d]
  /\ \/ x.pc \notin {"write", "get"}
     \/ x.pc = "write" /\ x.target = messages
     \/ x.pc = "get" /\ x.gen = threads[d].gen /\ x.target = threads[d].target /\ x.from = messages
        /\ threads[d].pc \in {"write", "get"}

LEMMA RestWorks ==
  ASSUME HostTypes, NEW d \in Workers, NEW pc \in {"loop", "exited", "stop"},
         threads' = [threads EXCEPT ![d] = Rest(pc)]
  PROVE  Works(d, Rest(pc))
<1>1. Rest(pc).pc = pc /\ Rest(pc).then = "none"
  BY DEF Rest, NewThread
<1> QED BY <1>1 DEF Works, Sends

LEMMA GetWorks ==
  ASSUME HostTypes, NEW d \in Workers, At(d, "get"),
         threads' = [threads EXCEPT ![d].from = messages]
  PROVE  \E x : Works(d, x)
<1> DEFINE x == [threads[d] EXCEPT !.from = messages]
<1>1. threads[d] \in Thread
  BY ThreadFacts DEF HostTypes
<1>2. /\ x.pc = "get" /\ x.then = threads[d].then /\ x.gen = threads[d].gen
      /\ x.target = threads[d].target /\ x.from = messages
  BY <1>1 DEF Thread, At
<1>3. threads' = [threads EXCEPT ![d] = x]
  OBVIOUS
<1> HIDE DEF x
<1>4. Works(d, x)
  BY <1>2, <1>3 DEF Works, Sends, Speaking, At
<1> QED BY <1>4

LEMMA WorkerWorks ==
  ASSUME HostTypes, Sources, NEW d \in Workers,
         TakeJob(d) \/ Send(d) \/ Write(d) \/ Get(d) \/ GetsNothing(d) \/ AnswerLate(d)
  PROVE  (\E x : Works(d, x)) \/ UNCHANGED threads
<1>1. threads[d] \in Thread /\ threads \in [Threads -> Thread] /\ d \in Threads
  BY ThreadFacts DEF HostTypes
<1>2. CASE TakeJob(d)
  <2>1. CASE threads' = threads
    BY <2>1
  <2>2. CASE Go(d, "exited")
    BY <2>2, RestWorks DEF Go, Resting
  <2>3. CASE current[d] # None /\ threads' = [CallStart(d, "send") EXCEPT ![d].gen = current[d]]
    <3>1. PICK y \in Thread : /\ CallStart(d, "send") = [threads EXCEPT ![d] = y]
                              /\ y.pc \in {"enter", "send"}
      BY <1>1, CallStartIs DEF Returns
    <3> DEFINE x == [y EXCEPT !.gen = current[d]]
    <3>2. threads' = [threads EXCEPT ![d] = x]
      BY <1>1, <2>3, <3>1
    <3>3. x.pc \in {"enter", "send"} /\ x.gen = current[d]
      BY <3>1 DEF Thread
    <3> HIDE DEF x
    <3>4. Works(d, x)
      BY <2>3, <3>2, <3>3 DEF Works
    <3> QED BY <3>4
  <2> QED BY <1>2, <2>1, <2>2, <2>3 DEF TakeJob, Stopping
<1>3. CASE Send(d)
  <2>1. CASE Running /\ stream # None
    <3> DEFINE x == [threads[d] EXCEPT !.pc = "write", !.target = stream]
    <3>1. threads' = [threads EXCEPT ![d] = x]
      BY <1>1, <1>3, <2>1 DEF Send
    <3>2. x.pc = "write" /\ x.target = stream /\ x.gen = threads[d].gen
      BY <1>1 DEF Thread
    <3>3. stream = messages
      BY <2>1 DEF Running, Sources
    <3>4. Speaking(d)
      BY <1>3 DEF Send, At, Speaking, Sends
    <3> HIDE DEF x
    <3>5. Works(d, x)
      BY <3>1, <3>2, <3>3, <3>4 DEF Works
    <3> QED BY <3>5
  <2>2. CASE ~(Running /\ stream # None)
    BY <1>3, <2>2, RestWorks DEF Send
  <2> QED BY <2>1, <2>2
<1>4. CASE Write(d)
  <2>1. CASE Alive(threads[d].target)
    <3> DEFINE x == [threads[d] EXCEPT !.pc = "get", !.from = messages]
    <3>1. threads' = [threads EXCEPT ![d] = x] /\ threads[d].pc = "write"
      BY <1>1, <1>4, <2>1 DEF Write, At
    <3>2. /\ x.pc = "get" /\ x.gen = threads[d].gen
          /\ x.target = threads[d].target /\ x.from = messages
      BY <1>1 DEF Thread
    <3> HIDE DEF x
    <3>3. Works(d, x)
      BY <3>1, <3>2 DEF Works, Speaking, Sends
    <3> QED BY <3>3
  <2>2. CASE ~Alive(threads[d].target)
    BY <1>4, <2>2, RestWorks DEF Write, Go, Resting
  <2> QED BY <2>1, <2>2
<1>5. CASE Get(d)
  <2> DEFINE pc == After(d, Head(starts[threads[d].from].queue))
  <2>1. pc \in {"stop", "loop", "get"} /\ At(d, "get")
    BY <1>5 DEF After, Get
  <2>2. threads' = [threads EXCEPT ![d] =
                      IF pc = "get" THEN [threads[d] EXCEPT !.from = messages] ELSE Rest(pc)]
    BY <1>1, <1>5 DEF Get
  <2> HIDE DEF pc
  <2>3. CASE pc = "get"
    BY <2>1, <2>2, <2>3, GetWorks
  <2>4. CASE pc # "get"
    BY <2>1, <2>2, <2>4, RestWorks
  <2> QED BY <2>3, <2>4
<1>6. CASE GetsNothing(d) \/ AnswerLate(d)
  <2>1. At(d, "get") /\ (\/ threads' = [threads EXCEPT ![d].from = messages]
                         \/ threads' = [threads EXCEPT ![d] = Rest("stop")])
    BY <1>6 DEF GetsNothing, AnswerLate, GiveUp
  <2> QED BY <2>1, GetWorks, RestWorks
<1> QED BY <1>2, <1>3, <1>4, <1>5, <1>6

-----------------------------------------------------------------------------
(* The three parts of the invariant. *)

LEMMA SourcesKept ==
  ASSUME HostInv, Sources, DOMAIN starts' = DOMAIN starts,
         \A k \in DOMAIN starts : SaysItself(k, starts'[k]),
         messages' = messages, \A s \in Threads : At(s, "connect")' => At(s, "connect"),
         \/ process' = process /\ stream' \in {stream, process}
         \/ process' = None /\ stream' = None /\ \A s \in Threads : ~At(s, "connect")
  PROVE  Sources'
  BY DEF Sources

LEMMA GenerationsKept ==
  ASSUME HostTypes, OwnGenerations, UNCHANGED <<generation, current>>,
         \A d \in Workers : Speaking(d)' =>
           \/ Speaking(d) /\ threads'[d].gen = threads[d].gen
           \/ current[d] # None /\ threads'[d].gen = current[d]
  PROVE  OwnGenerations'
<1>1. \A d \in Workers : current[d] \in Nat /\ generation \in Nat /\ None = 0
  BY DEF HostTypes, None
<1>2. ASSUME NEW d \in Workers
      PROVE  current'[d] <= generation' /\ (Speaking(d)' => threads'[d].gen \in 1 .. generation')
  BY <1>1, <1>2 DEF OwnGenerations
<1>3. ASSUME NEW d \in Workers, NEW e \in Workers, d # e
      PROVE  /\ current'[d] # None => current'[d] # current'[e]
             /\ Speaking(d)' => threads'[d].gen # current'[e]
             /\ Speaking(d)' /\ Speaking(e)' => threads'[d].gen # threads'[e].gen
  <2>1. /\ current[d] # None => current[d] # current[e]
        /\ Speaking(d) => threads[d].gen # current[e]
        /\ Speaking(d) /\ Speaking(e) => threads[d].gen # threads[e].gen
        /\ Speaking(e) => threads[e].gen # current[d]
    BY <1>3 DEF OwnGenerations
  <2> QED BY <2>1
<1> QED BY <1>2, <1>3 DEF OwnGenerations

\* A driver is given a generation nobody has had, or none.
LEMMA GenerationRenewed ==
  ASSUME HostTypes, OwnGenerations, NEW v \in Workers, NEW g \in {None, generation + 1},
         generation' = generation + 1, current' = [current EXCEPT ![v] = g],
         \A d \in Workers : Speaking(d)' => Speaking(d) /\ threads'[d].gen = threads[d].gen
  PROVE  OwnGenerations'
<1>1. generation \in Nat /\ None = 0 /\ current \in [Workers -> Nat]
  BY DEF HostTypes, None
<1>2. \A d \in Workers : /\ current[d] \in Nat /\ current[d] <= generation
                         /\ current'[d] = IF d = v THEN g ELSE current[d]
                         /\ Speaking(d)' => threads'[d].gen \in 1 .. generation
  BY <1>1 DEF OwnGenerations
<1>3. ASSUME NEW d \in Workers
      PROVE  current'[d] <= generation' /\ (Speaking(d)' => threads'[d].gen \in 1 .. generation')
  <2>1. current'[d] <= generation'
    BY <1>1, <1>2
  <2>2. Speaking(d)' => threads'[d].gen \in 1 .. generation'
    BY <1>1, <1>2
  <2> QED BY <2>1, <2>2
<1>4. ASSUME NEW d \in Workers, NEW e \in Workers, d # e
      PROVE  /\ current'[d] # None => current'[d] # current'[e]
             /\ Speaking(d)' => threads'[d].gen # current'[e]
             /\ Speaking(d)' /\ Speaking(e)' => threads'[d].gen # threads'[e].gen
  <2>1. /\ current[d] # None => current[d] # current[e]
        /\ current[e] # None => current[d] # current[e]
        /\ Speaking(d) => threads[d].gen # current[e]
        /\ Speaking(d) /\ Speaking(e) => threads[d].gen # threads[e].gen
    BY <1>4 DEF OwnGenerations
  <2>2. current'[d] # None => current'[d] # current'[e]
    BY <1>1, <1>2, <1>4, <2>1
  <2>3. Speaking(d)' => threads'[d].gen # current'[e]
    BY <1>1, <1>2, <1>4, <2>1
  <2>4. Speaking(d)' /\ Speaking(e)' => threads'[d].gen # threads'[e].gen
    BY <2>1
  <2> QED BY <2>2, <2>3, <2>4
<1> QED BY <1>3, <1>4 DEF OwnGenerations

LEMMA QueuesKept ==
  ASSUME HostTypes, OwnQueues, Passing, messages' = messages,
         \A d \in Workers : threads'[d].pc \in {"write", "get"} =>
           \/ threads'[d] = threads[d]
           \/ threads'[d].pc = "write" /\ threads'[d].target = messages
           \/ /\ threads'[d].pc = "get" /\ threads'[d].gen = threads[d].gen
              /\ threads'[d].target = threads[d].target /\ threads'[d].from = messages
              /\ threads[d].pc \in {"write", "get"}
  PROVE  OwnQueues'
<1>1. messages \in DOMAIN starts /\ DOMAIN starts' = DOMAIN starts
      /\ \A k \in DOMAIN starts : Answers(starts'[k]) \subseteq Answers(starts[k])
  BY DEF HostTypes, Passing, Kept
<1>2. \A q \in DOMAIN starts : \A x, y :
        x.gen = y.gen /\ x.target = y.target /\ Unanswered(starts, q, x) => Unanswered(starts', q, y)
  BY <1>1 DEF Unanswered
<1> QED BY <1>1, <1>2 DEF OwnQueues, At, Unanswered

LEMMA OwnInitially ==
  ASSUME Init
  PROVE  OwnInv
<1>1. starts = <<NewStart>> /\ DOMAIN starts = {1} /\ starts[1] = NewStart
  BY DEF Init
<1>2. SaysItself(1, NewStart)
  BY DEF SaysItself, Elements, NewStart
<1>3. \A t \in Threads : threads[t].pc \in {"idle", "enter", "none"} /\ threads[t].then # "send"
  BY DEF Init, Rest, NewThread
<1>4. Sources
  BY <1>1, <1>2, <1>3 DEF Init, Sources, At
<1>5. \A d \in Workers : ~Speaking(d)
  BY <1>3, ThreadFacts DEF Speaking, Sends
<1>6. generation = 1 /\ current = [d \in Workers |-> IF d = 1 THEN 1 ELSE None] /\ None = 0
  BY DEF Init, None
<1>7. OwnGenerations
  BY <1>5, <1>6 DEF OwnGenerations
<1>8. OwnQueues
  BY <1>3, ThreadFacts DEF OwnQueues, At
<1> QED BY <1>4, <1>7, <1>8 DEF OwnInv

\* A step of a thread inside the host that makes no start.
LEMMA HostOwn ==
  ASSUME HostInv, OwnInv, NEW t \in Threads, HostStep(t) \/ ConnectFails(t), ~Starting(t)
  PROVE  OwnInv'
<1>1. HostTypes /\ LockHeld /\ Sources /\ Passing /\ threads \in [Threads -> Thread]
  BY HostPasses DEF HostInv, OwnInv, HostTypes
<1>2. PICK x : Carries(t, x) /\ x.pc # "connect"
  BY HostCarries
<1>3. \A s \in Threads : threads'[s] = IF s = t THEN x ELSE threads[s]
  BY <1>1, <1>2 DEF Carries
<1>4. /\ UNCHANGED <<messages, generation, current>>
      /\ Clear(t) \/ (process' = process /\ stream' \in {stream, process})
  BY DEF HostStep, ConnectFails, EnterStart, Starting, Connect, AwaitReady, ReadyTimesOut, EnterStop,
     Clear, Kill, hostVars, driverVars
<1>5. Sources'
  <2>1. \A s \in Threads : At(s, "connect")' => At(s, "connect")
    BY <1>2, <1>3 DEF At
  <2>2. Clear(t) => process' = None /\ stream' = None /\ \A s \in Threads : ~At(s, "connect")
    BY <1>1 DEF Clear, LockHeld, Locked, At
  <2>3. DOMAIN starts' = DOMAIN starts /\ \A k \in DOMAIN starts : SaysItself(k, starts'[k])
    BY <1>1 DEF Passing, Kept
  <2> QED BY <1>1, <1>4, <2>1, <2>2, <2>3, SourcesKept
<1>6. OwnGenerations'
  <2>1. \A d \in Workers : Speaking(d)' => Speaking(d) /\ threads'[d].gen = threads[d].gen
    BY <1>2, <1>3, ThreadFacts DEF Carries, Speaking
  <2> QED BY <1>1, <1>4, <2>1, GenerationsKept DEF OwnInv
<1>7. OwnQueues'
  <2>1. \A d \in Workers : threads'[d].pc \in {"write", "get"} => threads'[d] = threads[d]
    BY <1>2, <1>3, ThreadFacts DEF Carries
  <2> QED BY <1>1, <1>4, <2>1, QueuesKept DEF OwnInv
<1> QED BY <1>5, <1>6, <1>7 DEF OwnInv

\* The number of a new start is none a text was written to or is awaited
\* from, so its queue is empty for all of them.
LEMMA StartingOwn ==
  ASSUME HostInv, OwnInv, NEW t \in Threads, Starting(t)
  PROVE  OwnInv'
<1>1. HostTypes /\ LockHeld /\ Sources /\ threads \in [Threads -> Thread]
  BY DEF HostInv, OwnInv, HostTypes
<1>2. PICK x : Carries(t, x)
  BY HostCarries DEF Starting, HostStep
<1>3. \A s \in Threads : threads'[s] = IF s = t THEN x ELSE threads[s]
  BY <1>1, <1>2 DEF Carries
<1>4. /\ process' = FreshStart /\ messages' = FreshStart /\ stream' = None
      /\ UNCHANGED <<generation, current>>
  BY StartingMoves DEF Starting, driverVars
<1> DEFINE new == [NewStart EXCEPT !.state = "boot", !.image = image]
<1>5. /\ \A n : SaysItself(n, new) /\ SaysItself(n, Ended(NewStart))
      /\ Answers(new) = {} /\ Answers(Ended(NewStart)) = {}
  BY DEF NewStart, Ended, SaysItself, Answers, Elements
<1>6. new \in Starts /\ starts' = Begin(FreshStart, new)
  BY <1>1, NewStartTyped DEF HostTypes, Starting
<1> HIDE DEF new
<1>7. /\ starts' \in Seq(Starts) /\ Len(starts) <= Len(starts') /\ FreshStart \in 1 .. Len(starts')
      /\ starts'[FreshStart] = new
      /\ \A k \in 1 .. Len(starts') : k # FreshStart =>
           (k \in DOMAIN starts /\ starts'[k] = starts[k]) \/ starts'[k] = Ended(NewStart)
  BY <1>1, <1>6, BeginKeeps
<1>8. DOMAIN starts' = 1 .. Len(starts') /\ Len(starts) \in Nat /\ Len(starts') \in Nat
      /\ DOMAIN starts = 1 .. Len(starts)
  BY <1>1, <1>7 DEF HostTypes
<1>9. Sources'
  <2>1. \A k \in DOMAIN starts' : SaysItself(k, starts'[k])
    BY <1>1, <1>5, <1>7, <1>8 DEF Sources
  <2> QED BY <1>4, <2>1 DEF Sources
<1>10. OwnGenerations'
  <2>1. \A d \in Workers : Speaking(d)' => Speaking(d) /\ threads'[d].gen = threads[d].gen
    BY <1>2, <1>3, ThreadFacts DEF Carries, Speaking
  <2> QED BY <1>1, <1>4, <2>1, GenerationsKept DEF OwnInv
<1>11. OwnQueues'
  <2> SUFFICES ASSUME NEW d \in Workers, threads'[d].pc \in {"write", "get"}
               PROVE  /\ Unanswered(starts', FreshStart, threads'[d])
                      /\ threads'[d].pc = "get" =>
                           threads'[d].from \in DOMAIN starts' /\ Unanswered(starts', threads'[d].from, threads'[d])
    BY <1>4 DEF OwnQueues, At
  <2>1. threads'[d] = threads[d]
    BY <1>2, <1>3, ThreadFacts DEF Carries
  <2>2. Unanswered(starts', FreshStart, threads'[d])
    BY <1>5, <1>7 DEF Unanswered
  <2>3. ASSUME threads'[d].pc = "get"
        PROVE  threads'[d].from \in DOMAIN starts' /\ Unanswered(starts', threads'[d].from, threads'[d])
    <3> DEFINE q == threads[d].from
    <3>1. q \in DOMAIN starts /\ Unanswered(starts, q, threads[d])
      BY <2>1, <2>3 DEF OwnInv, OwnQueues, At
    <3>2. q # FreshStart
      BY <1>1, FreshIsNew DEF Held
    <3>3. q \in 1 .. Len(starts')
      BY <1>7, <1>8, <3>1
    <3>4. starts'[q] = starts[q] \/ starts'[q] = Ended(NewStart)
      BY <1>7, <3>2, <3>3
    <3> HIDE DEF q
    <3>5. Unanswered(starts', q, threads[d])
      BY <1>5, <2>1, <3>1, <3>4 DEF Unanswered
    <3> QED BY <1>8, <2>1, <3>3, <3>5 DEF q
  <2> QED BY <2>2, <2>3
<1> QED BY <1>9, <1>10, <1>11 DEF OwnInv

LEMMA WorkerOwn ==
  ASSUME HostInv, OwnInv, NEW d \in Workers,
         TakeJob(d) \/ Send(d) \/ Write(d) \/ Get(d) \/ GetsNothing(d) \/ AnswerLate(d)
  PROVE  OwnInv'
<1>1. HostTypes /\ LockHeld /\ Sources /\ threads \in [Threads -> Thread] /\ d \in Threads
  BY ThreadFacts DEF HostInv, OwnInv, HostTypes
<1>2. UNCHANGED <<process, stream, messages, lifecycleLock, generation, current>>
  BY <1>1, WorkerMoves
<1>3. PICK x : /\ \A s \in Threads : threads'[s] = IF s = d THEN x ELSE threads[s]
               /\ x = threads[d] \/ Works(d, x)
  <2>1. CASE UNCHANGED threads
    BY <2>1
  <2>2. CASE \E x : Works(d, x)
    BY <1>1, <2>2 DEF Works
  <2> QED BY <1>1, <2>1, <2>2, WorkerWorks
<1>4. DOMAIN starts' = DOMAIN starts /\ \A k \in DOMAIN starts : SaysItself(k, starts'[k])
  BY <1>1, WorkerPasses, WriteGives DEF Passing, Kept
<1>5. Sources'
  <2>1. \A s \in Threads : At(s, "connect")' => At(s, "connect")
    BY <1>3 DEF At, Works
  <2> QED BY <1>1, <1>2, <1>4, <2>1, SourcesKept
<1>6. OwnGenerations'
  <2>1. \A e \in Workers : Speaking(e)' =>
          \/ Speaking(e) /\ threads'[e].gen = threads[e].gen
          \/ current[e] # None /\ threads'[e].gen = current[e]
    BY <1>3, ThreadFacts DEF Works, Speaking
  <2> QED BY <1>1, <1>2, <2>1, GenerationsKept DEF OwnInv
<1>7. \A e \in Workers : threads'[e].pc \in {"write", "get"} =>
        \/ threads'[e] = threads[e]
        \/ threads'[e].pc = "write" /\ threads'[e].target = messages
        \/ /\ threads'[e].pc = "get" /\ threads'[e].gen = threads[e].gen
           /\ threads'[e].target = threads[e].target /\ threads'[e].from = messages
           /\ threads[e].pc \in {"write", "get"}
  BY <1>3, ThreadFacts DEF Works
<1>8. CASE Write(d)
  <2>1. /\ \A k \in DOMAIN starts : k # threads[d].target => starts'[k] = starts[k]
        /\ \A k \in DOMAIN starts : Answers(starts'[k]) \subseteq Answers(starts[k]) \cup {threads[d].gen}
    BY <1>1, <1>8, WriteGives
  <2>2. threads[d].pc = "write" /\ Speaking(d)
    BY <1>8 DEF Write, At, Speaking, Sends
  <2>3. ASSUME NEW e \in Workers, NEW q \in DOMAIN starts, NEW y,
               y.gen = threads[e].gen, y.target = threads[e].target, Speaking(e),
               Unanswered(starts, q, threads[e])
        PROVE  Unanswered(starts', q, y)
    <3>1. CASE e = d
      BY <2>1, <2>3, <3>1 DEF Unanswered
    <3>2. CASE e # d
      <4>1. threads[e].gen # threads[d].gen
        BY <2>2, <2>3, <3>2 DEF OwnInv, OwnGenerations
      <4> QED BY <2>1, <2>3, <4>1 DEF Unanswered
    <3> QED BY <3>1, <3>2
  <2>4. ASSUME NEW e \in Workers, threads'[e].pc \in {"write", "get"}
        PROVE  /\ Unanswered(starts', messages', threads'[e])
               /\ threads'[e].pc = "get" =>
                    threads'[e].from \in DOMAIN starts' /\ Unanswered(starts', threads'[e].from, threads'[e])
    <3>1. messages \in DOMAIN starts /\ messages' = messages
      BY <1>1, <1>2 DEF HostTypes
    <3>2. CASE threads'[e].pc = "write" /\ threads'[e].target = messages
      BY <3>1, <3>2 DEF Unanswered
    <3>3. CASE threads'[e] = threads[e]
      <4>1. Speaking(e) /\ Unanswered(starts, messages, threads[e])
        BY <2>4, <3>3 DEF Speaking, Sends, OwnInv, OwnQueues
      <4>2. threads[e].pc = "get" => threads[e].from \in DOMAIN starts /\ Unanswered(starts, threads[e].from, threads[e])
        BY DEF OwnInv, OwnQueues, At
      <4> QED BY <1>4, <2>3, <3>1, <3>3, <4>1, <4>2
    <3>4. CASE /\ threads'[e].pc = "get" /\ threads'[e].gen = threads[e].gen
               /\ threads'[e].target = threads[e].target /\ threads'[e].from = messages
               /\ threads[e].pc \in {"write", "get"}
      <4>1. Speaking(e) /\ Unanswered(starts, messages, threads[e])
        BY <3>4 DEF Speaking, Sends, OwnInv, OwnQueues
      <4> QED BY <1>4, <2>3, <3>1, <3>4, <4>1
    <3> QED BY <1>7, <2>4, <3>2, <3>3, <3>4
  <2>5. OwnQueues'
    BY <2>4 DEF OwnQueues, At
  <2> QED BY <1>5, <1>6, <2>5 DEF OwnInv
<1>9. CASE ~Write(d)
  <2>1. Passing
    BY <1>1, <1>9, WorkerPasses
  <2>2. OwnQueues'
    BY <1>1, <1>2, <1>7, <2>1, QueuesKept DEF OwnInv
  <2> QED BY <1>5, <1>6, <2>2 DEF OwnInv
<1> QED BY <1>8, <1>9

\* The helpers, and NVDA's main thread outside the host.
LEMMA OthersOwn ==
  ASSUME HostInv, OwnInv, UNCHANGED <<process, stream, messages>>, Passing,
         \A d \in Workers : threads'[d] = threads[d] \/ (threads[d].pc = "none" /\ ~Speaking(d)'),
         threads'[Main].pc # "connect" \/ threads'[Main] = threads[Main],
         \A d \in Workers : threads'[d].pc = "connect" => threads[d].pc = "connect",
         OwnGenerations'
  PROVE  OwnInv'
<1>1. HostTypes
  BY DEF HostInv
<1>2. Sources'
  <2>1. \A s \in Threads : At(s, "connect")' => At(s, "connect")
    BY DEF At, Threads
  <2>2. DOMAIN starts' = DOMAIN starts /\ \A k \in DOMAIN starts : SaysItself(k, starts'[k])
    BY DEF Passing, Kept
  <2> QED BY <2>1, <2>2, SourcesKept DEF OwnInv
<1>3. OwnQueues'
  <2>1. \A d \in Workers : threads'[d].pc \in {"write", "get"} => threads'[d] = threads[d]
    BY DEF Speaking, Sends
  <2> QED BY <1>1, <2>1, QueuesKept DEF OwnInv
<1> QED BY <1>2, <1>3 DEF OwnInv

LEMMA HelperOwn ==
  ASSUME HostInv, OwnInv,
         \/ \E n \in DOMAIN starts :
              HelperBoots(n) \/ HelperAnswers(n) \/ ReadEnd(n) \/ HelperFails(n)
         \/ Speak \/ BuildImage \/ UNCHANGED vars
  PROVE  OwnInv'
<1>1. HostTypes /\ Sources
  BY DEF HostInv, OwnInv
<1>2. Passing /\ UNCHANGED <<process, stream, messages, threads, generation, current>>
  <2>1. ASSUME NEW n \in DOMAIN starts,
               HelperBoots(n) \/ HelperAnswers(n) \/ ReadEnd(n) \/ HelperFails(n)
        PROVE  Passing /\ UNCHANGED <<process, stream, messages, threads, generation, current>>
    BY <1>1, <2>1, HelperPasses DEF HelperBoots, HelperAnswers, ReadEnd, HelperFails, driverVars
  <2>2. CASE Speak \/ BuildImage \/ UNCHANGED vars
    BY <1>1, <2>2, SamePasses DEF Speak, BuildImage, hostVars, driverVars, vars
  <2> QED BY <2>1, <2>2
<1>3. OwnGenerations'
  BY <1>1, <1>2, GenerationsKept DEF OwnInv, Speaking
<1> QED BY <1>2, <1>3, OthersOwn

LEMMA MainOwn ==
  ASSUME HostInv, OwnInv, Refresh \/ RefreshReturns \/ Terminate
  PROVE  OwnInv'
<1>1. HostTypes /\ Sources /\ threads \in [Threads -> Thread] /\ driver \in Workers
  BY DEF HostInv, HostTypes, OwnInv
<1>2. Passing /\ UNCHANGED <<process, stream, messages>>
  BY <1>1, SamePasses DEF Refresh, RefreshReturns, Terminate, hostVars
<1>3. \E x : threads' = [threads EXCEPT ![Main] = x] /\ x.pc \in {"stop", "idle", "join"}
  <2>1. threads[Main] \in Thread
    BY <1>1, ThreadFacts
  <2>2. CASE Refresh
    <3> DEFINE x == [threads[Main] EXCEPT !.pc = "stop", !.gen = image]
    <3>1. threads' = [threads EXCEPT ![Main] = x] /\ x.pc = "stop"
      BY <2>1, <2>2 DEF Refresh, Thread
    <3> QED BY <3>1
  <2>3. CASE RefreshReturns
    <3>1. threads' = [threads EXCEPT ![Main] = Rest("idle")]
      BY <2>3 DEF RefreshReturns, Go, Resting
    <3> QED BY <3>1, RestTyped
  <2>4. CASE Terminate
    <3> DEFINE x == [threads[Main] EXCEPT !.pc = "join"]
    <3>1. threads' = [threads EXCEPT ![Main] = x] /\ x.pc = "join"
      BY <2>1, <2>4 DEF Terminate, Go, Resting, Thread
    <3> QED BY <3>1
  <2> QED BY <2>2, <2>3, <2>4
<1>4. \A d \in Workers : threads'[d] = threads[d]
  BY <1>1, <1>3, ThreadFacts
<1>5. threads'[Main].pc # "connect"
  BY <1>1, <1>3, ThreadFacts
<1>6. OwnGenerations'
  <2>1. \A d \in Workers : Speaking(d)' => Speaking(d) /\ threads'[d].gen = threads[d].gen
    BY <1>4 DEF Speaking
  <2>2. CASE RefreshReturns
    BY <1>1, <2>1, <2>2, GenerationsKept DEF RefreshReturns, OwnInv, driverVars
  <2>3. CASE Refresh \/ Terminate
    <3>1. PICK g \in {None, generation + 1} :
            generation' = generation + 1 /\ current' = [current EXCEPT ![driver] = g]
      BY <2>3 DEF Refresh, Terminate
    <3> QED BY <1>1, <2>1, <3>1, GenerationRenewed DEF OwnInv
  <2> QED BY <2>2, <2>3
<1> QED BY <1>2, <1>4, <1>5, <1>6, OthersOwn

LEMMA NextDriverOwn ==
  ASSUME HostInv, OwnInv, NextDriver
  PROVE  OwnInv'
<1>1. HostTypes /\ Sources /\ threads \in [Threads -> Thread] /\ driver \in Workers
  BY DEF HostInv, HostTypes, OwnInv
<1>2. Passing /\ UNCHANGED <<process, stream, messages>>
  BY <1>1, SamePasses DEF NextDriver, hostVars
<1> DEFINE v == driver + 1
<1>3. v \in Workers /\ v \in Threads /\ v # Main /\ threads[v].pc = "none"
  <2>1. driver < Drivers /\ Drivers \in Nat
    BY ThreadFacts DEF HostInv, Waiting, NextDriver
  <2>2. v \in Workers /\ v > driver
    BY <1>1, <2>1 DEF Workers
  <2> QED BY <2>2, ThreadFacts DEF HostInv, Waiting
<1> HIDE DEF v
<1>4. PICK x \in Thread : CallStart(v, "loop") = [threads EXCEPT ![v] = x]
                          /\ ~Sends(x) /\ x.pc \in {"enter", "loop"}
  BY <1>1, <1>3, CallStartCarries DEF Returns, Resting
<1>5. threads' = [[threads EXCEPT ![v] = x] EXCEPT ![Main] = Rest("idle")]
  BY <1>4 DEF NextDriver, v
<1>6. /\ \A d \in Workers : threads'[d] = IF d = v THEN x ELSE threads[d]
      /\ threads'[Main].pc = "idle"
  BY <1>1, <1>3, <1>5, ThreadFacts, RestTyped
<1>7. OwnGenerations'
  <2>1. \A d \in Workers : Speaking(d)' => Speaking(d) /\ threads'[d].gen = threads[d].gen
    BY <1>4, <1>6 DEF Speaking
  <2>2. generation' = generation + 1 /\ current' = [current EXCEPT ![v] = generation + 1]
    BY DEF NextDriver, v
  <2> QED BY <1>1, <1>3, <2>1, <2>2, GenerationRenewed DEF OwnInv
<1>8. \A d \in Workers : threads'[d] = threads[d] \/ (threads[d].pc = "none" /\ ~Speaking(d)')
  BY <1>3, <1>4, <1>6 DEF Speaking
<1>9. \A d \in Workers : threads'[d].pc = "connect" => threads[d].pc = "connect"
  BY <1>4, <1>6
<1> QED BY <1>2, <1>6, <1>7, <1>8, <1>9, OthersOwn

LEMMA OwnHolds == HostInv /\ OwnInv /\ [Next]_vars => OwnInv'
<1> SUFFICES ASSUME HostInv, OwnInv, [Next]_vars PROVE OwnInv'
  OBVIOUS
<1>1. ASSUME NEW t \in Threads, HostStep(t) \/ ConnectFails(t) PROVE OwnInv'
  BY <1>1, HostOwn, StartingOwn
<1>2. ASSUME NEW d \in Workers,
             TakeJob(d) \/ Send(d) \/ Write(d) \/ Get(d) \/ GetsNothing(d) \/ AnswerLate(d)
      PROVE  OwnInv'
  BY <1>2, WorkerOwn
<1>3. ASSUME NEW n \in DOMAIN starts,
             HelperBoots(n) \/ HelperAnswers(n) \/ ReadEnd(n) \/ HelperFails(n)
      PROVE  OwnInv'
  BY <1>3, HelperOwn
<1>4. CASE Speak \/ BuildImage \/ UNCHANGED vars
  BY <1>4, HelperOwn
<1>5. CASE Refresh \/ RefreshReturns \/ Terminate \/ NextDriver
  BY <1>5, MainOwn, NextDriverOwn
<1> QED BY <1>1, <1>2, <1>3, <1>4, <1>5, StepIs

\* Only Get brings a worker from "get" back to its loop.
LEMMA OnlyGetAnswers ==
  ASSUME HostInv, Next, NEW d \in Workers, At(d, "get"), threads'[d].pc = "loop"
  PROVE  Get(d)
<1>1. HostTypes /\ threads \in [Threads -> Thread] /\ d \in Threads /\ d # Main /\ Main \in Threads
  BY ThreadFacts DEF HostInv, HostTypes
<1>2. threads'[d] # threads[d] /\ threads[d].pc = "get"
  BY DEF At
<1>3. ASSUME NEW t \in Threads, HostStep(t) \/ ConnectFails(t) PROVE FALSE
  <2>1. PICK x : threads' = [threads EXCEPT ![t] = x]
    BY <1>3, HostCarries DEF Carries
  <2>2. t = d
    BY <1>1, <1>2, <2>1
  <2> QED BY <1>2, <1>3, <2>2 DEF HostStep, ConnectFails, EnterStart, Connect, AwaitReady,
             ReadyTimesOut, EnterStop, Clear, Kill, At
<1>4. ASSUME NEW e \in Workers,
             TakeJob(e) \/ Send(e) \/ Write(e) \/ Get(e) \/ GetsNothing(e) \/ AnswerLate(e)
      PROVE  Get(d)
  <2>1. PICK x : Moved(e, x)
    BY <1>4, WorkerMoves DEF HostInv
  <2>2. e = d
    BY <1>1, <1>2, <2>1 DEF Moved, Becomes
  <2>3. CASE GetsNothing(d) \/ AnswerLate(d)
    <3>1. \/ threads' = [threads EXCEPT ![d].from = messages]
          \/ threads' = [threads EXCEPT ![d] = Rest("stop")]
      BY <2>3 DEF GetsNothing, AnswerLate, GiveUp
    <3>2. threads[d] \in Thread
      BY <1>1
    <3>3. [threads[d] EXCEPT !.from = messages].pc = "get"
      BY <1>2, <3>2 DEF Thread
    <3>4. Rest("stop").pc = "stop"
      BY RestTyped
    <3> QED BY <1>1, <3>1, <3>3, <3>4
  <2> QED BY <1>2, <1>4, <2>2, <2>3 DEF TakeJob, Send, Write, At
<1>5. CASE \E n \in DOMAIN starts :
             HelperBoots(n) \/ HelperAnswers(n) \/ ReadEnd(n) \/ HelperFails(n)
  BY <1>2, <1>5 DEF HelperBoots, HelperAnswers, ReadEnd, HelperFails
<1>6. CASE Speak \/ BuildImage
  BY <1>2, <1>6 DEF Speak, BuildImage
<1>7. CASE Refresh \/ RefreshReturns \/ Terminate
  BY <1>1, <1>2, <1>7 DEF Refresh, RefreshReturns, Terminate, Go
<1>8. CASE NextDriver
  <2>1. driver + 1 \in Workers /\ threads[driver + 1].pc = "none"
    <3>1. driver < Drivers /\ Drivers \in Nat /\ driver \in 1 .. Drivers
      BY <1>8, ThreadFacts DEF HostInv, Waiting, NextDriver, HostTypes, Workers
    <3> QED BY <3>1 DEF HostInv, Waiting, Workers
  <2>2. d # driver + 1
    BY <1>2, <2>1
  <2>3. threads'[d] = threads[d]
    BY <1>1, <1>8, <2>2 DEF NextDriver, CallStart
  <2> QED BY <1>2, <2>3
<1> QED BY <1>3, <1>4, <1>5, <1>6, <1>7, <1>8, StepIs

\* The answer a text is ended by is of its generation, and of the helper it
\* was written to: no other can have answered it.
LEMMA AnswerIsOwn ==
  ASSUME HostInv, OwnInv, NEW d \in Workers, Get(d), threads'[d].pc = "loop"
  PROVE  LET taken == Head(starts[threads[d].from].queue)
         IN  taken.gen = threads[d].gen /\ taken.from = threads[d].target
<1> DEFINE q == threads[d].from
           taken == Head(starts[q].queue)
<1>1. threads \in [Threads -> Thread] /\ d \in Threads /\ HostTypes
  BY ThreadFacts DEF HostInv, HostTypes
<1>2. At(d, "get") /\ starts[q].queue # <<>>
  BY DEF Get
<1>3. threads'[d] = IF After(d, taken) = "get" THEN [threads[d] EXCEPT !.from = messages]
                    ELSE Rest(After(d, taken))
  BY <1>1 DEF Get
<1>4. After(d, taken) = "loop"
  <2>1. CASE After(d, taken) = "get"
    <3>1. threads[d] \in Thread /\ threads[d].pc = "get"
      BY <1>1, <1>2 DEF At
    <3>2. threads'[d].pc = "get"
      BY <1>3, <2>1, <3>1 DEF Thread
    <3> QED BY <3>2
  <2>2. CASE After(d, taken) # "get"
    BY <1>3, <2>2, RestTyped DEF Rest, NewThread
  <2> QED BY <2>1, <2>2
<1>5. taken.type = "answer" /\ taken.gen = threads[d].gen
  BY <1>4 DEF After
<1>6. q \in DOMAIN starts /\ Unanswered(starts, q, threads[d])
  BY <1>2 DEF OwnInv, OwnQueues
<1>7. taken \in Elements(starts[q].queue)
  <2>1. starts[q] \in Starts
    BY <1>1, <1>6 DEF HostTypes
  <2>2. starts[q].queue \in Seq(Messages)
    BY <2>1 DEF Starts
  <2> QED BY <1>2, <2>2, TailElements
<1>8. taken.gen \in Answers(starts[q])
  BY <1>5, <1>7 DEF Answers
<1>9. q = threads[d].target
  BY <1>5, <1>6, <1>8 DEF Unanswered
<1>10. taken.from = q
  BY <1>6, <1>7 DEF OwnInv, Sources, SaysItself
<1> QED BY <1>5, <1>9, <1>10

\* A text counts as answered only by the helper it was written to
\* (samsungTVVoices.py:326-346, 672-691): every number of a start that a
\* waiting text still knows is kept, so that a queue holds what its own helper
\* said; and the generation a text carries was written to no other helper
\* whose queue it can still read.
THEOREM AlwaysOwnAnswers == Spec => OwnAnswers
<1>1. HostInv /\ OwnInv /\ [Next]_vars =>
        [\A d \in Workers :
           At(d, "get") /\ threads'[d].pc = "loop" =>
             LET taken == Head(starts[threads[d].from].queue)
             IN  taken.gen = threads[d].gen /\ taken.from = threads[d].target]_vars
  BY OnlyGetAnswers, AnswerIsOwn
<1>2. Spec => []OwnInv
  BY OwnInitially, OwnHolds, Ownership, PTL DEF Spec
<1> QED BY <1>1, <1>2, Ownership, PTL DEF Spec, OwnAnswers
=============================================================================
