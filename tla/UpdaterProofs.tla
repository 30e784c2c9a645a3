---------------------------- MODULE UpdaterProofs ----------------------------
(* Proofs about Updater, for every bound: its types, and the two invariants *)
(* of its checks.  The types alone are not inductive: that asked never goes *)
(* below zero needs the answers on their way to be counted (Owed).          *)
EXTENDS Updater, FiniteSetTheorems, TLAPS

Call == {"schedule", "answer", "offer"}
Places(s, call) == {i \in 1..Len(s) : s[i] = call}
Count(s, call) == Cardinality(Places(s, call))

\* Places of a sequence are finitely many.
LEMMA CountNat ==
  ASSUME NEW s \in Seq(Call), NEW call
  PROVE  IsFiniteSet(Places(s, call)) /\ Count(s, call) \in Nat
<1>1. IsFiniteSet(1..Len(s)) BY FS_Interval
<1>2. Places(s, call) \subseteq 1..Len(s) BY DEF Places
<1> QED BY <1>1, <1>2, FS_Subset, FS_CardinalityType DEF Count

LEMMA CountEmpty == \A call : Count(<<>>, call) = 0
<1>1. \A call : Places(<<>>, call) = {} BY DEF Places
<1> QED BY <1>1, FS_EmptySet DEF Count

\* A call posted adds one to its count and nothing to the others.
LEMMA CountAppend ==
  ASSUME NEW s \in Seq(Call), NEW call, NEW posting \in Call
  PROVE  Count(Append(s, posting), call)
           = Count(s, call) + (IF posting = call THEN 1 ELSE 0)
<1>1. CASE posting = call
  <2>1. Places(Append(s, posting), call) = Places(s, call) \cup {Len(s) + 1}
    BY <1>1 DEF Places
  <2>2. Len(s) + 1 \notin Places(s, call) BY DEF Places
  <2> QED BY <1>1, <2>1, <2>2, CountNat, FS_AddElement DEF Count
<1>2. CASE posting # call
  <2>1. Places(Append(s, posting), call) = Places(s, call)
    BY <1>2 DEF Places
  <2> QED BY <1>2, <2>1, CountNat DEF Count
<1> QED BY <1>1, <1>2

\* A call dispatched takes one from its count and nothing from the others.
LEMMA CountTail ==
  ASSUME NEW s \in Seq(Call), NEW call, s # <<>>
  PROVE  Count(s, call) = Count(Tail(s), call) + (IF Head(s) = call THEN 1 ELSE 0)
<1> DEFINE Moved == {i \in Places(s, call) : i # 1}
           shift == [i \in Places(Tail(s), call) |-> i + 1]
<1>1. Tail(s) \in Seq(Call) /\ Len(Tail(s)) = Len(s) - 1 /\ Len(s) \in Nat \ {0} /\ Head(s) = s[1]
  OBVIOUS
<1>2. \A i \in 1..Len(Tail(s)) : Tail(s)[i] = s[i + 1] OBVIOUS
<1>3. \A i \in Places(Tail(s), call) : i + 1 \in Moved BY <1>1, <1>2 DEF Places
<1>4. \A j \in Moved : j - 1 \in Places(Tail(s), call) /\ j = (j - 1) + 1
  BY <1>1, <1>2 DEF Places
<1>5. Places(Tail(s), call) \subseteq Int BY DEF Places
<1>6. shift \in Bijection(Places(Tail(s), call), Moved)
  <2>1. shift \in [Places(Tail(s), call) -> Moved] BY <1>3
  <2>2. \A i, j \in Places(Tail(s), call) : shift[i] = shift[j] => i = j BY <1>5
  <2>3. \A j \in Moved : \E i \in Places(Tail(s), call) : shift[i] = j BY <1>4
  <2> HIDE DEF shift, Moved
  <2> QED BY <2>1, <2>2, <2>3 DEF Bijection, Injection, Surjection, IsInjective
<1>7. Cardinality(Moved) = Count(Tail(s), call)
  <2>1. ExistsBijection(Places(Tail(s), call), Moved) BY <1>6 DEF ExistsBijection
  <2>2. IsFiniteSet(Places(Tail(s), call)) BY <1>1, CountNat
  <2> QED BY <2>1, <2>2, FS_Bijection DEF Count
<1>8. Count(s, call) \in Nat /\ Count(Tail(s), call) \in Nat
  BY <1>1, CountNat
<1>9. CASE Head(s) = call
  <2>1. 1 \in Places(s, call) BY <1>1, <1>9 DEF Places
  <2>2. Moved = Places(s, call) \ {1} OBVIOUS
  <2>3. Cardinality(Moved) = Count(s, call) - 1
    BY <2>1, <2>2, CountNat, FS_RemoveElement DEF Count
  <2> HIDE DEF Moved
  <2> QED BY <1>7, <1>9, <2>3, <1>8
<1>10. CASE Head(s) # call
  <2>1. Moved = Places(s, call) BY <1>1, <1>10 DEF Places
  <2>2. Count(s, call) = Count(Tail(s), call) BY <1>7, <2>1 DEF Count
  <2> QED BY <1>10, <2>2, <1>8
<1> QED BY <1>9, <1>10

LEMMA CountZero ==
  ASSUME NEW s \in Seq(Call), NEW call
  PROVE  Count(s, call) > 0 <=> \E i \in 1..Len(s) : s[i] = call
<1>1. Count(s, call) \in Nat /\ IsFiniteSet(Places(s, call)) BY CountNat
<1>2. Count(s, call) = 0 <=> Places(s, call) = {} BY <1>1, FS_EmptySet DEF Count
<1>3. Places(s, call) = {} <=> ~\E i \in 1..Len(s) : s[i] = call BY DEF Places
<1> QED BY <1>1, <1>2, <1>3

------------------------------------------------------------------------------
(* The invariant. *)

\* The answers that are due: those posted, and the one of a manual check that
\* is not judged yet.
Owed == Count(posted, "answer") + (IF check.at = "checking" /\ check.fromGui THEN 1 ELSE 0)

UpdaterInv ==
  /\ TypeOK
  /\ asked = Owed /\ asked <= calls
  /\ ChainsBounded
  /\ ChecksGoOn

\* Every set of timers is finite.
LEMMA TimersFinite ==
  ASSUME NEW running \in SUBSET Timer
  PROVE  IsFiniteSet(running) /\ Cardinality(running) \in Nat
<1>1. IsFiniteSet(Timer) BY UpdaterAssumption, FS_Interval DEF Timer
<1> QED BY <1>1, FS_Subset, FS_CardinalityType

\* _schedule arms at most one timer, and one if checks are wanted.
LEMMA ScheduleArms ==
  ASSUME NEW i, NEW running \in SUBSET Timer, NEW known \in running \cup {None},
         Schedule(i, running, known)
  PROVE  /\ armed' \subseteq Timer /\ timer' \in armed' \cup {None}
         /\ Cardinality(armed') \in Nat
         /\ Cardinality(armed') <= Cardinality(running) + 1
         /\ ~stopped /\ i # "never" => armed' # {}
<1>1. CASE stopped \/ i = "never"
  BY <1>1, TimersFinite DEF Schedule
<1>2. CASE ~(stopped \/ i = "never")
  <2>1. PICK t \in Timer \ running : armed' = running \cup {t} /\ timer' = t
    BY <1>2 DEF Schedule
  <2>2. Cardinality(armed') = Cardinality(running) + 1
    BY <2>1, TimersFinite, FS_AddElement
  <2> QED BY <2>1, <2>2, TimersFinite
<1> QED BY <1>1, <1>2

\* A timer stopped or fired is one less.
LEMMA OneLess ==
  ASSUME NEW running \in SUBSET Timer, NEW t
  PROVE  /\ running \ {t} \in SUBSET Timer
         /\ Cardinality(running \ {t}) \in Nat
         /\ Cardinality(running \ {t}) <= Cardinality(running)
         /\ t \in running => Cardinality(running \ {t}) = Cardinality(running) - 1
<1>1. IsFiniteSet(running) /\ Cardinality(running) \in Nat BY TimersFinite
<1> QED BY <1>1, TimersFinite, FS_RemoveElement

\* The two counts and the size of armed are numbers, and the two invariants
\* in terms of them.
Lock == IF Locked THEN 1 ELSE 0
LEMMA Numbers ==
  ASSUME TypeOK
  PROVE  /\ Cardinality(armed) \in Nat
         /\ Count(posted, "schedule") \in Nat /\ Count(posted, "answer") \in Nat
         /\ Chains = Cardinality(armed) + leaving + Lock + Count(posted, "schedule")
         /\ ChecksGoOn <=>
              (~stopped /\ interval # "never" =>
                 armed # {} \/ Locked \/ leaving > 0 \/ Count(posted, "schedule") > 0)
<1>1. posted \in Seq(Call) /\ armed \in SUBSET Timer BY DEF TypeOK, Call
<1>2. Count(posted, "schedule") \in Nat /\ Count(posted, "answer") \in Nat BY <1>1, CountNat
<1>3. Cardinality(armed) \in Nat BY <1>1, TimersFinite
<1>4. Chains = Cardinality(armed) + leaving + Lock + Count(posted, "schedule")
  BY DEF Chains, Chain, Count, Places, Lock
<1>5. Count(posted, "schedule") > 0 <=> \E i \in 1..Len(posted) : Chain(i)
  BY <1>1, CountZero DEF Chain
<1> QED BY <1>2, <1>3, <1>4, <1>5 DEF ChecksGoOn

LEMMA UpdaterInit == Init => UpdaterInv
<1> SUFFICES ASSUME Init PROVE UpdaterInv OBVIOUS
<1> USE DEF Init
<1>1. TypeOK
  <2>1. armed \subseteq Timer /\ timer \in armed \cup {None}
    <3>1. CASE interval = "never" BY <3>1
    <3>2. CASE interval # "never" BY <3>2, UpdaterAssumption DEF Timer
    <3> QED BY <3>1, <3>2
  <2>2. check \in [at : {"none", "checking", "judged"}, fromGui : BOOLEAN] BY DEF NoCheck
  <2>3. posted \in Seq({"schedule", "answer", "offer"}) OBVIOUS
  <2>4. interval \in Interval /\ stopped \in BOOLEAN OBVIOUS
  <2>5. leaving \in Nat /\ asked \in 0..MaxCalls /\ calls \in 0..MaxCalls
    <3>1. MaxCalls \in Nat BY UpdaterAssumption
    <3> QED BY <3>1
  <2> QED BY <2>1, <2>2, <2>3, <2>4, <2>5 DEF TypeOK
<1>2. Count(posted, "schedule") = 0 /\ Count(posted, "answer") = 0 BY CountEmpty
<1>3. asked = Owed /\ asked <= calls BY <1>2 DEF Owed, NoCheck
<1>4. Cardinality(armed) = IF interval = "never" THEN 0 ELSE 1
  BY FS_EmptySet, FS_Singleton
<1>5. ChainsBounded BY <1>1, <1>2, <1>4, Numbers DEF ChainsBounded, Lock, Locked, NoCheck
<1>6. ChecksGoOn BY DEF ChecksGoOn
<1> QED BY <1>1, <1>3, <1>5, <1>6 DEF UpdaterInv

LEMMA UpdaterStep == UpdaterInv /\ [Next]_vars => UpdaterInv'
<1> SUFFICES ASSUME UpdaterInv, [Next]_vars PROVE UpdaterInv' OBVIOUS
<1> DEFINE S == Count(posted, "schedule")
           A == Count(posted, "answer")
           C == Cardinality(armed)
           Judging == IF check.at = "checking" /\ check.fromGui THEN 1 ELSE 0
<1>1. TypeOK BY DEF UpdaterInv
<1>2. posted \in Seq(Call) /\ armed \in SUBSET Timer BY <1>1 DEF TypeOK, Call
<1>3. /\ C \in Nat /\ S \in Nat /\ A \in Nat
      /\ C + leaving + Lock + S <= calls + 1
      /\ ~stopped /\ interval # "never" => armed # {} \/ Locked \/ leaving > 0 \/ S > 0
      /\ asked = A + Judging /\ asked <= calls
  BY <1>1, Numbers DEF UpdaterInv, ChainsBounded, Owed
<1> DEFINE Kept ==
             /\ TypeOK'
             /\ C' + leaving' + Lock' + S' <= calls' + 1
             /\ ~stopped' /\ interval' # "never"
                  => armed' # {} \/ Locked' \/ leaving' > 0 \/ S' > 0
             /\ asked' = A' + Judging' /\ asked' <= calls'
<1>4. Kept => UpdaterInv'
  <2> SUFFICES ASSUME Kept PROVE UpdaterInv' OBVIOUS
  <2>1. posted' \in Seq(Call) BY DEF TypeOK, Call
  <2>2. ChainsBounded' BY DEF ChainsBounded, Chains, Chain, Count, Places, Lock
  <2>3. S' > 0 <=> \E i \in 1..Len(posted') : posted'[i] = "schedule" BY <2>1, CountZero
  <2>4. ChecksGoOn' BY <2>3 DEF ChecksGoOn, Chain
  <2> QED BY <2>2, <2>4 DEF UpdaterInv, Owed
<1>5. /\ MaxCalls \in Nat /\ asked \in 0..MaxCalls /\ calls \in 0..MaxCalls
      /\ leaving \in Nat /\ Lock \in Nat /\ Judging \in Nat
  BY <1>1, UpdaterAssumption DEF TypeOK, Lock
\* A call posted.
<1>6. ASSUME NEW call \in Call, Post(call)
      PROVE  /\ posted' \in Seq({"schedule", "answer", "offer"})
             /\ S' = S + (IF call = "schedule" THEN 1 ELSE 0)
             /\ A' = A + (IF call = "answer" THEN 1 ELSE 0)
  BY <1>2, <1>6, CountAppend DEF Post, Call
<1>7. ASSUME NEW i \in Interval, SetInterval(i) PROVE Kept
  <2>1. /\ armed \ {timer} \in SUBSET Timer /\ Cardinality(armed \ {timer}) \in Nat
        /\ Cardinality(armed \ {timer}) <= C
    BY <1>2, OneLess
  <2>2. /\ armed' \subseteq Timer /\ timer' \in armed' \cup {None}
        /\ C' \in Nat /\ C' <= Cardinality(armed \ {timer}) + 1
        /\ ~stopped /\ i # "never" => armed' # {}
    <3>1. Schedule(i, armed \ {timer}, None) BY <1>7 DEF SetInterval
    <3> QED BY <2>1, <3>1, ScheduleArms
  <2>3. TypeOK' BY <1>1, <1>5, <1>7, <2>2 DEF SetInterval, TypeOK
  <2>4. S' = S /\ A' = A /\ Lock' = Lock /\ Judging' = Judging
    BY <1>7 DEF SetInterval, Lock, Locked
  <2>5. Lock \in Nat /\ leaving \in Nat /\ calls \in Nat BY <1>1 DEF TypeOK, Lock
  <2> QED BY <1>3, <1>7, <2>1, <2>2, <2>3, <2>4, <2>5 DEF SetInterval, Locked
<1>8. ASSUME Stop PROVE Kept
  <2>1. armed \ {timer} \in SUBSET Timer /\ Cardinality(armed \ {timer}) \in Nat
        /\ Cardinality(armed \ {timer}) <= C
    BY <1>2, OneLess
  <2>2. TypeOK' BY <1>1, <1>5, <1>8, <2>1 DEF Stop, TypeOK
  <2>3. S' = S /\ A' = A /\ Lock' = Lock /\ Judging' = Judging
        /\ C' = Cardinality(armed \ {timer})
    BY <1>8 DEF Stop, Lock, Locked
  <2>4. Lock \in Nat /\ leaving \in Nat /\ calls \in Nat BY <1>1 DEF TypeOK, Lock
  <2> QED BY <1>3, <1>8, <2>1, <2>2, <2>3, <2>4 DEF Stop, Locked
<1>9. ASSUME CheckNow PROVE Kept
  <2>1. asked' \in 0..MaxCalls /\ calls' \in 0..MaxCalls
    <3>1. calls < MaxCalls /\ calls' = calls + 1 /\ asked' = asked + 1 BY <1>9 DEF CheckNow
    <3> QED BY <1>3, <1>5, <3>1
  <2>2. CASE Locked
    <3>1. Post("answer") BY <1>9, <2>2 DEF CheckNow
    <3>2. /\ posted' \in Seq({"schedule", "answer", "offer"})
          /\ S' = S /\ A' = A + 1
      BY <1>3, <1>6, <3>1 DEF Call
    <3>3. TypeOK' BY <1>1, <2>1, <1>9, <2>2, <3>2 DEF CheckNow, TypeOK
    <3>4. C' = C /\ Lock' = Lock /\ Judging' = Judging
      BY <1>9, <2>2 DEF CheckNow, Lock, Locked
    <3>5. Lock \in Nat /\ leaving \in Nat /\ calls \in Nat BY <1>1 DEF TypeOK, Lock
    <3> QED BY <1>3, <1>9, <2>2, <3>2, <3>3, <3>4, <3>5 DEF CheckNow, Locked
  <2>3. CASE ~Locked
    <3>1. check' \in [at : {"none", "checking", "judged"}, fromGui : BOOLEAN]
      <4>1. check' = [at |-> "checking", fromGui |-> TRUE] BY <1>9, <2>3 DEF CheckNow
      <4> QED BY <4>1
    <3>2. TypeOK' BY <1>1, <1>9, <2>1, <2>3, <3>1 DEF CheckNow, TypeOK
    <3>3. S' = S /\ A' = A /\ C' = C /\ Lock = 0 /\ Judging = 0 /\ Lock' = 1 /\ Judging' = 1
      BY <1>9, <2>3 DEF CheckNow, Lock, Locked
    <3>4. leaving \in Nat /\ calls \in Nat BY <1>1 DEF TypeOK
    <3> QED BY <1>3, <1>9, <3>2, <3>3, <3>4 DEF CheckNow, Locked, Lock
  <2> QED BY <2>2, <2>3
<1>10. ASSUME NEW t \in Timer, AutomaticCheck(t) PROVE Kept
  <2>1. /\ armed \ {t} \in SUBSET Timer /\ Cardinality(armed \ {t}) \in Nat
        /\ Cardinality(armed \ {t}) = C - 1
    BY <1>2, <1>10, OneLess DEF AutomaticCheck
  <2> QED BY <1>1, <1>5, <1>3, <1>10, <2>1 DEF AutomaticCheck, TypeOK, Lock, Locked
<1>11. ASSUME Dispatch PROVE Kept
  <2>1. /\ posted' = Tail(posted) /\ posted # <<>>
        /\ posted' \in Seq({"schedule", "answer", "offer"})
    BY <1>2, <1>11 DEF Dispatch, Call
  <2>2. /\ S = S' + (IF Head(posted) = "schedule" THEN 1 ELSE 0)
        /\ A = A' + (IF Head(posted) = "answer" THEN 1 ELSE 0)
        /\ S' \in Nat /\ A' \in Nat
    BY <1>2, <2>1, CountTail, CountNat DEF Call
  <2>3. Lock' = Lock /\ Judging' = Judging BY <1>11 DEF Dispatch, Lock, Locked
  <2>4. /\ asked' = IF Head(posted) = "answer" THEN asked - 1 ELSE asked
        /\ leaving' = leaving /\ calls' = calls
        /\ interval' = interval /\ stopped' = stopped /\ check' = check
    BY <1>11 DEF Dispatch
  <2>5. asked' \in 0..MaxCalls /\ asked' = A' + Judging
    <3>1. CASE Head(posted) = "answer" BY <1>3, <1>5, <2>2, <2>4, <3>1
    <3>2. CASE Head(posted) # "answer" BY <1>3, <1>5, <2>2, <2>4, <3>2
    <3> QED BY <3>1, <3>2
  <2>6. CASE Head(posted) = "schedule"
    <3>1. /\ armed' \subseteq Timer /\ timer' \in armed' \cup {None}
          /\ C' \in Nat /\ C' <= C + 1
          /\ ~stopped /\ interval # "never" => armed' # {}
      <4>1. Schedule(interval, armed, timer) BY <1>11, <2>6 DEF Dispatch
      <4>2. timer \in armed \cup {None} BY <1>1 DEF TypeOK
      <4> QED BY <1>2, <4>1, <4>2, ScheduleArms
    <3>2. TypeOK' BY <1>1, <1>11, <2>1, <2>5, <3>1 DEF Dispatch, TypeOK
    <3> QED BY <1>3, <1>5, <2>2, <2>3, <2>5, <2>6, <2>4, <3>1, <3>2 DEF Locked
  <2>7. CASE Head(posted) # "schedule"
    <3>1. TypeOK' BY <1>1, <1>11, <2>1, <2>7, <2>5 DEF Dispatch, TypeOK
    <3>2. C' = C /\ armed' = armed BY <1>11, <2>7 DEF Dispatch
    <3> QED BY <1>3, <1>5, <2>2, <2>3, <2>5, <2>7, <2>4, <3>1, <3>2 DEF Locked
  <2> QED BY <2>6, <2>7
<1>12. ASSUME Judge PROVE Kept
  <2>1. CASE Post("answer") /\ check.fromGui
    <3>1. posted' \in Seq({"schedule", "answer", "offer"}) /\ S' = S /\ A' = A + 1
      BY <1>3, <1>6, <2>1 DEF Call
    <3> QED BY <1>1, <1>5, <1>3, <1>12, <2>1, <3>1 DEF Judge, TypeOK, Lock, Locked
  <2>2. CASE Post("offer") /\ ~check.fromGui
    <3>1. posted' \in Seq({"schedule", "answer", "offer"}) /\ S' = S /\ A' = A
      BY <1>3, <1>6, <2>2 DEF Call
    <3> QED BY <1>1, <1>5, <1>3, <1>12, <2>2, <3>1 DEF Judge, TypeOK, Lock, Locked
  <2>3. CASE posted' = posted /\ ~check.fromGui
    BY <1>1, <1>5, <1>3, <1>12, <2>3 DEF Judge, TypeOK, Lock, Locked
  <2> QED BY <1>12, <2>1, <2>2, <2>3 DEF Judge
<1>13. ASSUME Release PROVE Kept
  BY <1>1, <1>5, <1>3, <1>13 DEF Release, TypeOK, Lock, Locked, NoCheck
<1>14. ASSUME Leave PROVE Kept
  <2>1. posted' \in Seq({"schedule", "answer", "offer"}) /\ S' = S + 1 /\ A' = A
    BY <1>3, <1>6, <1>14 DEF Leave, Call
  <2>2. TypeOK' BY <1>1, <1>5, <1>14, <2>1 DEF Leave, TypeOK
  <2>3. C' = C /\ Lock' = Lock /\ Judging' = Judging BY <1>14 DEF Leave, Lock, Locked
  <2>4. Lock \in Nat /\ leaving \in Nat /\ calls \in Nat BY <1>1 DEF TypeOK, Lock
  <2> QED BY <1>3, <1>14, <2>1, <2>2, <2>3, <2>4 DEF Leave, Locked
<1>15. ASSUME UNCHANGED vars PROVE Kept
  <2>1. TypeOK' BY <1>1, <1>15 DEF vars, TypeOK
  <2>2. S' = S /\ A' = A /\ C' = C /\ Lock' = Lock /\ Judging' = Judging
    BY <1>15 DEF vars, Lock, Locked
  <2> QED BY <1>3, <1>15, <2>1, <2>2 DEF vars, Locked
<1> HIDE DEF Kept
<1> QED
  BY <1>4, <1>7, <1>8, <1>9, <1>10, <1>11, <1>12, <1>13, <1>14, <1>15 DEF Next

------------------------------------------------------------------------------
(* The theorems. *)

\* The timer the updater knows of is armed, and the answers owed are counted
\* right, whatever the bounds.
THEOREM UpdaterTypes == Spec => []TypeOK
<1>1. UpdaterInv => TypeOK BY DEF UpdaterInv
<1> QED BY <1>1, UpdaterInit, UpdaterStep, PTL DEF Spec

\* Checks neither die out while they are wanted ...
THEOREM ChecksAlwaysGoOn == Spec => []ChecksGoOn
<1>1. UpdaterInv => ChecksGoOn BY DEF UpdaterInv
<1> QED BY <1>1, UpdaterInit, UpdaterStep, PTL DEF Spec

\* ... nor multiply by themselves (_samsungTVUpdater.py:90-117, 136-138).
THEOREM ChainsAlwaysBounded == Spec => []ChainsBounded
<1>1. UpdaterInv => ChainsBounded BY DEF UpdaterInv
<1> QED BY <1>1, UpdaterInit, UpdaterStep, PTL DEF Spec
==============================================================================
