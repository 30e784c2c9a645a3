------------------------------- MODULE Updater -------------------------------
(***************************************************************************)
(* The update checks of the add-on (globalPlugins/_samsungTVUpdater.py):   *)
(* timers that fire on NVDA's main thread, the user's interval and "Check  *)
(* now", the thread of a check, and the calls it posts back to the main    *)
(* thread.  Main-thread handlers are atomic; a message box runs an event   *)
(* loop of its own, so it holds up nothing.                                *)
(***************************************************************************)
EXTENDS Naturals, Sequences, FiniteSets

CONSTANTS
  None,        \* Python's None: no timer
  MaxCalls,    \* bound: uses of "Check now" and of the interval setting
  MaxPosted    \* bound: calls posted and not yet dispatched

ASSUME UpdaterAssumption ==
  /\ MaxCalls \in Nat /\ MaxPosted \in Nat \ {0}
  /\ None \notin Nat

VARIABLES
  interval,    \* the user's setting
  stopped,     \* the plugin has ended
  timer,       \* _timer: the timer the updater knows of
  armed,       \* the timers that will fire
  check,       \* the thread that holds _lock: where it is, and who asked
  leaving,     \* threads that have released _lock and not yet ended
  posted,      \* calls waiting for the main thread
  asked,       \* history: manual checks the user has had no answer to
  calls        \* counter for the bound

vars ==
  <<interval, stopped, timer, armed, check, leaving, posted, asked, calls>>

\* One for the start and one for each call: no more are ever armed at once
\* (ChainsBounded).
Timer == 1..(MaxCalls + 1)
Interval == {"never", "hourly", "daily"}
NoCheck == [at |-> "none", fromGui |-> FALSE]

Init ==
  /\ interval \in Interval /\ stopped = FALSE
  /\ IF interval = "never" THEN timer = None /\ armed = {}
                           ELSE timer = 1 /\ armed = {1}
  /\ check = NoCheck /\ leaving = 0 /\ posted = <<>>
  /\ asked = 0 /\ calls = 0

Locked == check.at # "none"

------------------------------------------------------------------------------
(* The main thread. *)

\* _schedule, when the timers "running" are armed and "known" is _timer: the
\* one it replaces is not stopped.
Schedule(i, running, known) ==
  IF stopped \/ i = "never"
  THEN armed' = running /\ timer' = known
  ELSE \E t \in Timer \ running : armed' = running \cup {t} /\ timer' = t

\* Mutant of SetInterval: the new interval waits for the next check.
SetIntervalOnly(i) ==
  /\ calls < MaxCalls /\ calls' = calls + 1
  /\ interval' = i
  /\ armed' = armed \ {timer} /\ timer' = None
  /\ UNCHANGED <<stopped, check, leaving, posted, asked>>

SetInterval(i) ==
  /\ calls < MaxCalls /\ calls' = calls + 1
  /\ interval' = i
  /\ Schedule(i, armed \ {timer}, None)
  /\ UNCHANGED <<stopped, check, leaving, posted, asked>>

Stop ==
  /\ ~stopped /\ stopped' = TRUE
  /\ armed' = armed \ {timer} /\ timer' = None
  /\ UNCHANGED <<interval, check, leaving, posted, asked, calls>>

Post(call) == posted' = Append(posted, call)
Room == Len(posted) + leaving < MaxPosted

\* Mutant of CheckNow: the user is not told that a check is running.
CheckNowSilent ==
  /\ calls < MaxCalls /\ calls' = calls + 1 /\ Room
  /\ asked' = asked + 1
  /\ UNCHANGED posted
  /\ check' = IF Locked THEN check ELSE [at |-> "checking", fromGui |-> TRUE]
  /\ UNCHANGED <<interval, stopped, timer, armed, leaving>>

\* checkNow(True): another check's lock is answered with a message.
CheckNow ==
  /\ calls < MaxCalls /\ calls' = calls + 1 /\ Room
  /\ asked' = asked + 1
  /\ IF Locked
     THEN Post("answer") /\ UNCHANGED check
     ELSE check' = [at |-> "checking", fromGui |-> TRUE] /\ UNCHANGED posted
  /\ UNCHANGED <<interval, stopped, timer, armed, leaving>>

\* Mutant of AutomaticCheck: the next timer is set at once as well.
AutomaticCheckAgain(t) ==
  /\ t \in armed /\ Room
  /\ Schedule(interval, armed \ {t}, None)
  /\ check' = IF Locked THEN check ELSE [at |-> "checking", fromGui |-> FALSE]
  /\ UNCHANGED <<interval, stopped, leaving, posted, asked, calls>>

\* A timer fires.  _automaticCheck takes it for the one it knows of, and looks
\* neither at the interval nor at _stopped.
AutomaticCheck(t) ==
  /\ t \in armed /\ Room
  /\ armed' = armed \ {t} /\ timer' = None
  /\ check' = IF Locked THEN check ELSE [at |-> "checking", fromGui |-> FALSE]
  /\ UNCHANGED <<interval, stopped, leaving, posted, asked, calls>>

\* A posted call is dispatched: _schedule, the answer to a manual check, or
\* the offer of a version found by an automatic one.
Dispatch ==
  /\ posted # <<>> /\ posted' = Tail(posted)
  /\ IF Head(posted) = "schedule" THEN Schedule(interval, armed, timer)
                                  ELSE UNCHANGED <<armed, timer>>
  /\ asked' = IF Head(posted) = "answer" THEN asked - 1 ELSE asked
  /\ UNCHANGED <<interval, stopped, check, leaving, calls>>

------------------------------------------------------------------------------
(* The thread of a check. *)

\* The manifest is fetched and judged: a newer version, none, or an error.
\* A manual check posts a dialog in each case, an automatic one an offer.
Judge ==
  /\ check.at = "checking"
  /\ check' = [check EXCEPT !.at = "judged"]
  /\ IF check.fromGui THEN Post("answer") ELSE Post("offer") \/ UNCHANGED posted
  /\ UNCHANGED <<interval, stopped, timer, armed, leaving, asked, calls>>

\* finally: the lock is released, then _schedule posted.
Release ==
  /\ check.at = "judged"
  /\ check' = NoCheck /\ leaving' = leaving + 1
  /\ UNCHANGED <<interval, stopped, timer, armed, posted, asked, calls>>

Leave ==
  /\ leaving > 0 /\ leaving' = leaving - 1
  /\ Post("schedule")
  /\ UNCHANGED <<interval, stopped, timer, armed, check, asked, calls>>

Next ==
  \/ \E i \in Interval : SetInterval(i)
  \/ \E t \in Timer : AutomaticCheck(t)
  \/ Stop \/ CheckNow \/ Dispatch \/ Judge \/ Release \/ Leave

Spec == Init /\ [][Next]_vars

\* The fetch has a timeout of 20 seconds and the main thread runs its loop.
Fairness ==
  /\ WF_vars(Dispatch)
  /\ WF_vars(Judge) /\ WF_vars(Release) /\ WF_vars(Leave)

FairSpec == Spec /\ Fairness

------------------------------------------------------------------------------
(* Properties. *)

\* The timer the updater knows of is one that will fire.
TypeOK ==
  /\ interval \in Interval /\ stopped \in BOOLEAN
  /\ armed \subseteq Timer /\ timer \in armed \cup {None}
  /\ check \in [at : {"none", "checking", "judged"}, fromGui : BOOLEAN]
  /\ leaving \in Nat /\ posted \in Seq({"schedule", "answer", "offer"})
  /\ asked \in 0..MaxCalls /\ calls \in 0..MaxCalls

\* Automatic checks never die out while they are wanted: whatever check meets
\* whatever other on the lock, a timer is armed or a check under way will arm
\* one (_samsungTVUpdater.py:103-117, 136-138).
Chain(i) == posted[i] = "schedule"
ChecksGoOn ==
  ~stopped /\ interval # "never" =>
    armed # {} \/ Locked \/ leaving > 0 \/ \E i \in 1..Len(posted) : Chain(i)

\* Chains of checks multiply only by the user's own calls: there are never
\* more than one for each call and the first (_samsungTVUpdater.py:90-101).
Chains ==
  Cardinality(armed) + leaving + (IF Locked THEN 1 ELSE 0)
    + Cardinality({i \in 1..Len(posted) : Chain(i)})
ChainsBounded == Chains <= calls + 1

\* Every "Check now" is answered by a dialog, whatever the check finds and
\* also when another is running (_samsungTVUpdater.py:108-111, 128-135).
CheckNowAnswers == asked > 0 ~> asked = 0

\* The manual says that checks can run never, hourly or daily
\* (addon/doc/en/readme.html:23): set to never, none starts by itself.  This
\* fails: _schedule overwrites _timer, and setInterval and stop reach only
\* the last one (_samsungTVUpdater.py:90-101).
NeverMeansNever ==
  [][(\E t \in Timer : AutomaticCheck(t)) => interval # "never"]_vars
==============================================================================
