--------------------------- MODULE AnnounceProofs ----------------------------
(***************************************************************************)
(* The speech system implements Announcer, for any utterances, events,     *)
(* bounds and number of mishaps.                                           *)
(*                                                                         *)
(* Four things are followed from one end to the other: the queue, whose    *)
(* wanted utterances are its last ones; the request waited for, which is   *)
(* the only thing under way for the current generation and is in one place *)
(* only; its pieces, which follow each other without a gap from the last   *)
(* one NVDA received, through both queues, to the next one the helper will *)
(* stream; and the items of an utterance, of which NVDA has received those *)
(* before the worker's place.  Each step of the system is then one of      *)
(* Announcer, or leaves alone all that Announcer sees.                     *)
(***************************************************************************)
EXTENDS SystemProofs, WellFoundedInduction, FiniteSetTheorems

------------------------------------------------------------------------------
(* Sequences put together, and the items of an utterance.                    *)

\* Of some numbers one is the lowest: what is proved of a recursive function
\* is proved of the lowest number it could fail for.
LEMMA LowestNumber ==
  ASSUME NEW numbers \in SUBSET Nat, numbers # {}
  PROVE  \E x \in numbers : \A y \in numbers : x <= y
<1> DEFINE Less == {pair \in Nat \X Nat : pair[1] < pair[2]}
<1>1. IsWellFoundedOn(Less, Nat)
  BY NatLessThanWellFounded DEF OpToRel
<1>2. PICK x \in numbers : \A y \in numbers : ~(<<y, x>> \in Less)
  <2> HIDE DEF Less
  <2> QED BY <1>1, WFMin
<1>3. \A y \in numbers : ~(y < x)
  BY <1>2
<1> QED BY <1>3

\* Two sequences one after the other, element by element.
LEMMA ConcatElements ==
  ASSUME NEW S, NEW s \in Seq(S), NEW t \in Seq(S)
  PROVE  /\ s \o t \in Seq(S)
         /\ Len(s) \in Nat /\ Len(t) \in Nat /\ Len(s \o t) = Len(s) + Len(t)
         /\ \A i \in 1..Len(s) : (s \o t)[i] = s[i]
         /\ \A i \in 1..Len(t) : (s \o t)[Len(s) + i] = t[i]
         /\ \A i \in 1..Len(s \o t) :
              i \in 1..Len(s) \/ \E k \in 1..Len(t) : i = Len(s) + k
<1>1. Len(s) \in Nat /\ Len(t) \in Nat
  OBVIOUS
<1>2. /\ s \o t \in Seq(S) /\ Len(s \o t) = Len(s) + Len(t)
      /\ \A i \in 1..(Len(s) + Len(t)) :
           (s \o t)[i] = IF i <= Len(s) THEN s[i] ELSE t[i - Len(s)]
  BY ConcatProperties
<1>3. ASSUME NEW i \in 1..Len(s) PROVE (s \o t)[i] = s[i]
  <2>1. i \in 1..(Len(s) + Len(t)) /\ i <= Len(s)
    BY <1>1
  <2> QED BY <1>2, <2>1
<1>4. ASSUME NEW i \in 1..Len(t) PROVE (s \o t)[Len(s) + i] = t[i]
  <2>1. /\ Len(s) + i \in 1..(Len(s) + Len(t)) /\ ~(Len(s) + i <= Len(s))
        /\ (Len(s) + i) - Len(s) = i
    BY <1>1
  <2> QED BY <1>2, <2>1
<1>5. ASSUME NEW i \in 1..Len(s \o t), i \notin 1..Len(s)
      PROVE  \E k \in 1..Len(t) : i = Len(s) + k
  <2>1. i - Len(s) \in 1..Len(t) /\ i = Len(s) + (i - Len(s))
    BY <1>1, <1>2, <1>5
  <2> QED BY <2>1
<1> QED BY <1>1, <1>2, <1>3, <1>4, <1>5
------------------------------------------------------------------------------
(* What NVDA is to receive: the items of an utterance, event after event. *)

\* FlattenSeq is defined by a recursive function, and there is one: a shortest
\* prefix without one would extend that of a shorter one.
LEMMA FlatteningExists ==
  ASSUME NEW n \in Nat, NEW s
  PROVE  \E F : F = [i \in 1..n |-> IF i = 1 THEN s[i] ELSE F[i - 1] \o s[i]]
<1> DEFINE Flattens(m, F) == F = [i \in 1..m |-> IF i = 1 THEN s[i] ELSE F[i - 1] \o s[i]]
           bad == {m \in Nat : ~\E F : Flattens(m, F)}
<1>1. SUFFICES bad = {}
  BY <1>1
<1>2. SUFFICES ASSUME bad # {} PROVE FALSE
  OBVIOUS
<1>3. PICK m \in bad : \A x \in bad : m <= x
  <2> HIDE DEF bad
  <2> SUFFICES bad \in SUBSET Nat
    BY <1>2, LowestNumber
  <2> QED BY DEF bad
<1>4. CASE m = 0
  <2>1. Flattens(0, [i \in 1..0 |-> 0])
    OBVIOUS
  <2> QED BY <1>3, <1>4, <2>1
<1>5. CASE m # 0
  <2>0. m \in Nat
    OBVIOUS
  <2>1. m - 1 \in Nat /\ m - 1 \notin bad
    <3> HIDE DEF bad
    <3> QED BY <1>3, <1>5, <2>0
  <2>2. PICK F : Flattens(m - 1, F)
    BY <2>1
  <2> DEFINE E == [i \in 1..m |-> IF i < m THEN F[i] ELSE IF i = 1 THEN s[i] ELSE F[i - 1] \o s[i]]
  <2>3. ASSUME NEW i \in 1..m
        PROVE  E[i] = IF i = 1 THEN s[i] ELSE E[i - 1] \o s[i]
    <3>1. CASE i < m
      <4>1. i \in 1..(m - 1)
        BY <2>1, <3>1
      <4>2. F[i] = IF i = 1 THEN s[i] ELSE F[i - 1] \o s[i]
        BY <2>2, <4>1
      <4>3. i # 1 => i - 1 \in 1..m /\ i - 1 < m
        BY <3>1
      <4> QED BY <3>1, <4>2, <4>3
    <3>2. CASE i = m
      <4>1. i # 1 => i - 1 \in 1..m /\ i - 1 < m
        BY <3>2
      <4> QED BY <3>2, <4>1
    <3> QED BY <3>1, <3>2, <1>3
  <2>4. E = [i \in 1..m |-> IF i = 1 THEN s[i] ELSE E[i - 1] \o s[i]]
    <3> DEFINE D == [i \in 1..m |-> IF i = 1 THEN s[i] ELSE E[i - 1] \o s[i]]
    <3>1. E = [i \in 1..m |-> E[i]]
      BY Zenon DEF E
    <3>d. D = [i \in 1..m |-> D[i]]
      OBVIOUS
    <3>2. \A i \in 1..m : D[i] = IF i = 1 THEN s[i] ELSE E[i - 1] \o s[i]
      BY DEF D
    <3> HIDE DEF E, D
    <3>3. \A i \in 1..m : E[i] = D[i]
      BY <2>3, <3>2
    <3>4. E = D
      BY <3>1, <3>d, <3>3
    <3> QED BY <3>4 DEF D
  <2>5. \E G1 : Flattens(m, G1)
    <3> HIDE DEF E
    <3> WITNESS E
    <3> QED BY <2>4
  <2> QED BY <1>3, <2>5
<1> QED BY <1>4, <1>5

\* F is the concatenation of n sequences, prefix by prefix.
Flattening(F, s, n, S) ==
  /\ F[1] = s[1]
  /\ \A i \in 2..n : F[i] = F[i - 1] \o s[i]
  /\ \A i \in 1..n : F[i] \in Seq(S) /\ s[i] \in Seq(S)

\* FlattenSeq gives such a concatenation.
LEMMA Flattened ==
  ASSUME NEW S, NEW n \in Nat, n > 0, NEW s, DOMAIN s = 1..n, Len(s) = n,
         \A i \in 1..n : s[i] \in Seq(S)
  PROVE  \E F : FlattenSeq(s) = F[n] /\ Flattening(F, s, n, S)
<1> DEFINE F == CHOOSE F : F = [i \in 1..Len(s) |-> IF i = 1 THEN s[i] ELSE F[i - 1] \o s[i]]
<1>1. F = [i \in 1..n |-> IF i = 1 THEN s[i] ELSE F[i - 1] \o s[i]]
  BY FlatteningExists
<1>2. FlattenSeq(s) = F[n]
  BY DEF FlattenSeq
<1> HIDE DEF F
<1>3. F[1] = s[1] /\ \A i \in 2..n : F[i] = F[i - 1] \o s[i]
  <2>1. \A i \in 1..n : F[i] = IF i = 1 THEN s[i] ELSE F[i - 1] \o s[i]
    BY <1>1
  <2>2. 1 \in 1..n /\ \A i \in 2..n : i \in 1..n /\ i # 1
    OBVIOUS
  <2> QED BY ONLY <2>1, <2>2
<1>4. \A i \in 1..n : F[i] \in Seq(S)
  <2> DEFINE bad == {i \in 1..n : F[i] \notin Seq(S)}
  <2> SUFFICES ASSUME bad # {} PROVE FALSE
    OBVIOUS
  <2>1. PICK i \in bad : \A x \in bad : i <= x
    <3>1. bad \in SUBSET Nat
      OBVIOUS
    <3> HIDE DEF bad
    <3> QED BY <3>1, LowestNumber
  <2>2. i # 1
    BY <1>3, <2>1
  <2>3. i - 1 \in 1..n /\ i - 1 \notin bad /\ i \in 2..n
    BY <2>1, <2>2
  <2>4. F[i] = F[i - 1] \o s[i] /\ F[i - 1] \in Seq(S) /\ s[i] \in Seq(S)
    BY <1>3, <2>3
  <2>5. F[i] \in Seq(S)
    BY ONLY <2>4
  <2> QED BY <2>1, <2>5
<1>5. Flattening(F, s, n, S)
  BY <1>3, <1>4 DEF Flattening
<1> QED BY <1>2, <1>5

\* An item stays where it is when more are put behind it.
LEMMA PrefixOfMore ==
  ASSUME NEW S, NEW a \in Seq(S), NEW b \in Seq(S), NEW c \in Seq(S),
         Len(c) <= Len(a), \A k \in 1..Len(c) : a[k] = c[k]
  PROVE  Len(c) <= Len(a \o b) /\ \A k \in 1..Len(c) : (a \o b)[k] = c[k]
<1>1. /\ Len(a \o b) = Len(a) + Len(b) /\ Len(a) \in Nat /\ Len(b) \in Nat
      /\ \A k \in 1..Len(a) : (a \o b)[k] = a[k]
  BY ConcatElements
<1>2. Len(c) \in Nat
  OBVIOUS
<1>3. \A k \in 1..Len(c) : k \in 1..Len(a)
  BY <1>1, <1>2
<1> QED BY <1>1, <1>2, <1>3

\* The sequence a begins with b.
BeginsWith(a, b) == Len(b) <= Len(a) /\ \A k \in 1..Len(b) : a[k] = b[k]

\* Each prefix of it begins with the shorter ones.
LEMMA PrefixStays ==
  ASSUME NEW S, NEW n \in Nat, NEW s, NEW F, Flattening(F, s, n, S), NEW j \in 1..n
  PROVE  \A i \in j..n : BeginsWith(F[i], F[j])
<1> DEFINE bad == {i \in j..n : ~BeginsWith(F[i], F[j])}
<1> SUFFICES ASSUME bad # {} PROVE FALSE
  OBVIOUS
<1>1. PICK i \in bad : \A x \in bad : i <= x
  <2>1. bad \in SUBSET Nat
    OBVIOUS
  <2> HIDE DEF bad
  <2> QED BY <2>1, LowestNumber
<1>2. i # j
  <2>1. Len(F[j]) \in Nat
    BY DEF Flattening
  <2>2. BeginsWith(F[j], F[j])
    BY <2>1 DEF BeginsWith
  <2> QED BY <1>1, <2>2
<1>3. i - 1 \in j..n /\ i \in 2..n /\ i - 1 \notin bad /\ i \in 1..n /\ i - 1 \in 1..n
  BY <1>1, <1>2
<1>4. BeginsWith(F[i - 1], F[j])
  BY <1>3
<1>5. F[i] = F[i - 1] \o s[i] /\ F[i - 1] \in Seq(S) /\ s[i] \in Seq(S) /\ F[j] \in Seq(S)
  BY <1>3 DEF Flattening
<1>6. /\ Len(F[j]) <= Len(F[i - 1] \o s[i])
      /\ \A k \in 1..Len(F[j]) : (F[i - 1] \o s[i])[k] = F[j][k]
  BY <1>4, <1>5, PrefixOfMore DEF BeginsWith
<1>7. BeginsWith(F[i], F[j])
  BY <1>5, <1>6 DEF BeginsWith
<1> QED BY <1>1, <1>7

\* The items of each event are those of a text or an index.
LEMMA EventItemsAre ==
  ASSUME NEW u \in Utterance, NEW i \in 1..Len(EventsOf[u])
  PROVE  /\ EventItems(u, i) \in Seq(Item) /\ i \in Nat
         /\ EventsOf[u][i] \in {"text", "index"}
         /\ EventsOf[u][i] = "index" => EventItems(u, i) = <<IndexItem(u, i)>>
         /\ EventsOf[u][i] = "text" =>
              EventItems(u, i) = [k \in 1..Chunks |-> AudioItem(<<0, u, i>>, k)]
<1>1. EventsOf[u] \in Seq({"text", "index"}) /\ Chunks \in Nat
  BY DriverAssumption, ChannelAssumption
<1>2. EventsOf[u][i] \in {"text", "index"} /\ i \in Nat
  BY <1>1
<1>3. \A k \in 1..Chunks : AudioItem(<<0, u, i>>, k) \in Item
  BY <1>1, <1>2 DEF AudioItem, Item
<1>4. IndexItem(u, i) \in Item
  BY <1>2 DEF IndexItem, Item
<1>5. EventsOf[u][i] = "index" => EventItems(u, i) = <<IndexItem(u, i)>>
  BY DEF EventItems
<1>6. EventsOf[u][i] = "text" => EventItems(u, i) = [k \in 1..Chunks |-> AudioItem(<<0, u, i>>, k)]
  BY DEF EventItems
<1>7. EventsOf[u][i] = "index" => EventItems(u, i) \in Seq(Item)
  <2>1. <<IndexItem(u, i)>> \in Seq(Item)
    BY ONLY <1>4
  <2> QED BY <1>5, <2>1
<1>8. EventsOf[u][i] = "text" => EventItems(u, i) \in Seq(Item)
  <2>1. [k \in 1..Chunks |-> AudioItem(<<0, u, i>>, k)] \in [1..Chunks -> Item]
    BY <1>3
  <2>2. [1..Chunks -> Item] \subseteq Seq(Item)
    BY <1>1, SeqDef
  <2> QED BY <1>6, <2>1, <2>2
<1> QED BY <1>2, <1>5, <1>6, <1>7, <1>8

\* Where the items of each event of an utterance begin.
EventSize(u, i) == IF EventsOf[u][i] = "index" THEN 1 ELSE Chunks
Layout(u, B) ==
  /\ B \in [1..(Len(EventsOf[u]) + 1) -> Nat] /\ B[1] = 0
  /\ \A i \in 1..Len(EventsOf[u]) :
       /\ B[i + 1] = B[i] + EventSize(u, i)
       /\ EventsOf[u][i] = "index" => Items(u)[B[i] + 1] = IndexItem(u, i)
       /\ EventsOf[u][i] = "text" =>
            \A k \in 1..Chunks : Items(u)[B[i] + k] = AudioItem(<<0, u, i>>, k)
       /\ B[i + 1] <= B[Len(EventsOf[u]) + 1]
  /\ Len(Items(u)) = B[Len(EventsOf[u]) + 1] + 1
  /\ Items(u)[B[Len(EventsOf[u]) + 1] + 1] = DoneItem(u)
\* So the items of every utterance are laid out.
LEMMA ItemsLaid == \A u \in Utterance : \E B : Layout(u, B)
<1> SUFFICES ASSUME NEW u \in Utterance PROVE \E B : Layout(u, B)
  OBVIOUS
<1> DEFINE n == Len(EventsOf[u])
           s == [i \in 1..n |-> EventItems(u, i)]
<1>1. n \in Nat /\ n > 0
  <2>1. EventsOf[u] \in Seq({"text", "index"}) /\ EventsOf[u] # <<>>
    BY DriverAssumption
  <2> QED BY ONLY <2>1
<1> HIDE DEF n
<1>2. /\ DOMAIN s = 1..n /\ \A i \in 1..n : s[i] \in Seq(Item) /\ s[i] = EventItems(u, i)
  BY EventItemsAre DEF n
<1>3. Len(s) = n
  BY <1>1, <1>2
<1>4. FlattenSeq(s) \o <<DoneItem(u)>> = Items(u)
  BY DEF Items, n
<1> HIDE DEF s
<1>5. PICK F : FlattenSeq(s) = F[n] /\ Flattening(F, s, n, Item)
  <2>1. \A i \in 1..n : s[i] \in Seq(Item)
    BY <1>2
  <2>2. n \in Nat /\ n > 0 /\ DOMAIN s = 1..n /\ Len(s) = n
    BY <1>1, <1>2, <1>3
  <2> QED BY ONLY <2>1, <2>2, Flattened
<1>a. /\ F[1] = s[1]
      /\ \A i \in 2..n : F[i] = F[i - 1] \o s[i]
      /\ \A i \in 1..n : F[i] \in Seq(Item)
  BY <1>5 DEF Flattening
<1> DEFINE B == [i \in 1..(n + 1) |-> IF i = 1 THEN 0 ELSE Len(F[i - 1])]
<1>6. \A i \in 1..n : B[i + 1] = Len(F[i]) /\ Len(F[i]) \in Nat /\ Len(s[i]) \in Nat
  <2> TAKE i \in 1..n
  <2>1. i + 1 \in 1..(n + 1) /\ i + 1 # 1 /\ (i + 1) - 1 = i
    BY <1>1
  <2>2. F[i] \in Seq(Item) /\ s[i] \in Seq(Item)
    BY <1>2, <1>a
  <2> QED BY <2>1, <2>2
<1>7. B[1] = 0 /\ B \in [1..(n + 1) -> Nat]
  <2>1. ASSUME NEW i \in 1..(n + 1) PROVE B[i] \in Nat
    <3>1. CASE i = 1
      BY <3>1
    <3>2. CASE i # 1
      <4>1. i - 1 \in 1..n
        BY <1>1, <3>2
      <4> QED BY <1>6, <3>2, <4>1
    <3> QED BY <3>1, <3>2
  <2> QED BY <1>1, <2>1
<1> HIDE DEF B
<1>8. \A i \in 1..n : Len(s[i]) = EventSize(u, i)
  <2> TAKE i \in 1..n
  <2>1. s[i] = EventItems(u, i) /\ EventsOf[u][i] \in {"text", "index"} /\ Chunks \in Nat
    BY <1>2, EventItemsAre, ChannelAssumption DEF n
  <2>2. CASE EventsOf[u][i] = "index"
    <3>1. s[i] = <<IndexItem(u, i)>>
      BY <2>1, <2>2 DEF EventItems
    <3> QED BY <2>2, <3>1 DEF EventSize
  <2>3. CASE EventsOf[u][i] = "text"
    <3>1. s[i] = [k \in 1..Chunks |-> AudioItem(<<0, u, i>>, k)]
      BY <2>1, <2>3 DEF EventItems
    <3> QED BY <2>1, <2>3, <3>1 DEF EventSize
  <2> QED BY <2>1, <2>2, <2>3
\* Each event's items follow those of the events before it.
<1>9. ASSUME NEW i \in 1..n
      PROVE  /\ B[i + 1] = B[i] + Len(s[i]) /\ B[i] \in Nat
             /\ \A k \in 1..Len(s[i]) : F[i][B[i] + k] = s[i][k]
  <2>1. CASE i = 1
    <3>1. B[i + 1] = Len(F[1]) /\ B[i] = 0 /\ F[1] = s[1] /\ Len(s[1]) \in Nat
      BY <1>a, <1>6, <1>7, <2>1
    <3> QED BY <2>1, <3>1
  <2>2. CASE i # 1
    <3>0. i - 1 \in 1..n /\ i \in 2..n /\ (i - 1) + 1 = i
      BY <1>1, <2>2
    <3>1. F[i] = F[i - 1] \o s[i] /\ F[i - 1] \in Seq(Item) /\ s[i] \in Seq(Item)
      BY <1>2, <1>a, <3>0
    <3>2. /\ Len(F[i]) = Len(F[i - 1]) + Len(s[i])
          /\ \A k \in 1..Len(s[i]) : F[i][Len(F[i - 1]) + k] = s[i][k]
      <4> DEFINE a == F[i - 1]
                 b == s[i]
      <4>1. a \in Seq(Item) /\ b \in Seq(Item) /\ F[i] = a \o b
        BY <3>1
      <4> HIDE DEF a, b
      <4>2. Len(a \o b) = Len(a) + Len(b) /\ \A k \in 1..Len(b) : (a \o b)[Len(a) + k] = b[k]
        BY <4>1, ConcatElements
      <4> QED BY <4>1, <4>2 DEF a, b
    <3>3. B[i + 1] = Len(F[i]) /\ B[i] = Len(F[i - 1]) /\ Len(F[i - 1]) \in Nat
      BY <1>6, <3>0
    <3> QED BY <3>2, <3>3
  <2> QED BY <2>1, <2>2
<1>10. /\ Len(Items(u)) = B[n + 1] + 1 /\ Items(u)[B[n + 1] + 1] = DoneItem(u)
       /\ \A k \in 1..B[n + 1] : Items(u)[k] = F[n][k]
  <2>0. DoneItem(u) \in Item
    BY DEF DoneItem, Item
  <2>1. F[n] \in Seq(Item) /\ <<DoneItem(u)>> \in Seq(Item) /\ Items(u) = F[n] \o <<DoneItem(u)>>
    <3>1. n \in 1..n
      BY <1>1
    <3>2. <<DoneItem(u)>> \in Seq(Item)
      BY ONLY <2>0
    <3> QED BY <1>4, <1>5, <1>a, <3>1, <3>2
  <2>2. B[n + 1] = Len(F[n]) /\ Len(F[n]) \in Nat
    BY <1>1, <1>6
  <2>3. /\ Len(Items(u)) = Len(F[n]) + Len(<<DoneItem(u)>>)
        /\ \A k \in 1..Len(F[n]) : Items(u)[k] = F[n][k]
        /\ \A k \in 1..Len(<<DoneItem(u)>>) : Items(u)[Len(F[n]) + k] = <<DoneItem(u)>>[k]
    <3> DEFINE a == F[n]
               b == <<DoneItem(u)>>
    <3>1. a \in Seq(Item) /\ b \in Seq(Item) /\ Items(u) = a \o b
      BY <2>1
    <3> HIDE DEF a, b
    <3>2. /\ Len(a \o b) = Len(a) + Len(b)
          /\ \A k \in 1..Len(a) : (a \o b)[k] = a[k]
          /\ \A k \in 1..Len(b) : (a \o b)[Len(a) + k] = b[k]
      BY <3>1, ConcatElements
    <3> QED BY <3>1, <3>2 DEF a, b
  <2>4. /\ Len(<<DoneItem(u)>>) = 1 /\ <<DoneItem(u)>>[1] = DoneItem(u)
        /\ 1 \in 1..Len(<<DoneItem(u)>>)
    BY ONLY <2>0
  <2> QED BY <2>2, <2>3, <2>4
<1>11. ASSUME NEW i \in 1..n
       PROVE  /\ B[i + 1] <= B[n + 1]
              /\ \A k \in 1..Len(s[i]) : Items(u)[B[i] + k] = s[i][k]
  <2>1. /\ Len(F[i]) <= Len(F[n])
        /\ \A k \in 1..Len(F[i]) : F[n][k] = F[i][k]
    <3>1. n \in i..n
      BY <1>1
    <3>2. BeginsWith(F[n], F[i])
      BY <1>1, <1>5, <3>1, PrefixStays
    <3> QED BY <3>2 DEF BeginsWith
  <2>2. B[i + 1] = Len(F[i]) /\ B[n + 1] = Len(F[n]) /\ Len(F[n]) \in Nat /\ Len(F[i]) \in Nat
    BY <1>1, <1>6
  <2>3. ASSUME NEW k \in 1..Len(s[i]) PROVE Items(u)[B[i] + k] = s[i][k]
    <3>0. Len(s[i]) \in Nat /\ B[i] \in Nat /\ B[i + 1] = B[i] + Len(s[i])
      BY <1>6, <1>9
    <3>a. Len(F[i]) = B[i] + Len(s[i]) /\ Len(F[i]) <= B[n + 1]
      BY <2>1, <2>2, <3>0
    <3> DEFINE b == B[i]
               l == Len(s[i])
               top == B[n + 1]
    <3>b. b \in Nat /\ l \in Nat /\ top \in Nat /\ k \in 1..l /\ b + l <= top
      BY <2>2, <3>0, <3>a
    <3>c. b + k \in 1..(b + l) /\ b + k \in 1..top
      <4> HIDE DEF b, l, top
      <4> QED BY <3>b
    <3>1. B[i] + k \in 1..Len(F[i]) /\ B[i] + k \in 1..B[n + 1]
      BY <3>a, <3>c
    <3>2. F[n][B[i] + k] = F[i][B[i] + k]
      BY <2>1, <3>1
    <3>3. Items(u)[B[i] + k] = F[n][B[i] + k]
      BY <1>10, <3>1
    <3> QED BY <1>9, <3>2, <3>3
  <2> QED BY <2>1, <2>2, <2>3
<1>12. ASSUME NEW i \in 1..n
       PROVE  /\ EventsOf[u][i] = "index" => Items(u)[B[i] + 1] = IndexItem(u, i)
              /\ EventsOf[u][i] = "text" =>
                   \A k \in 1..Chunks : Items(u)[B[i] + k] = AudioItem(<<0, u, i>>, k)
  <2>0. Chunks \in Nat /\ s[i] = EventItems(u, i) /\ Len(s[i]) = EventSize(u, i)
    BY <1>2, <1>8, ChannelAssumption
  <2>1. ASSUME EventsOf[u][i] = "index" PROVE Items(u)[B[i] + 1] = IndexItem(u, i)
    <3>1. s[i] = <<IndexItem(u, i)>>
      BY <2>0, <2>1 DEF EventItems
    <3>2. Len(s[i]) = 1
      BY <2>0, <2>1 DEF EventSize
    <3>3. s[i][1] = IndexItem(u, i)
      BY <3>1
    <3>4. 1 \in 1..Len(s[i])
      BY <3>2
    <3> QED BY <1>11, <3>3, <3>4
  <2>2. ASSUME EventsOf[u][i] = "text", NEW k \in 1..Chunks
        PROVE  Items(u)[B[i] + k] = AudioItem(<<0, u, i>>, k)
    <3>1. s[i][k] = AudioItem(<<0, u, i>>, k) /\ k \in 1..Len(s[i])
      BY <2>0, <2>2 DEF EventItems, EventSize
    <3> QED BY <1>11, <3>1
  <2> QED BY <2>1, <2>2
<1>13. Layout(u, B)
  BY <1>7, <1>8, <1>9, <1>10, <1>11, <1>12 DEF Layout, n
<1> QED BY <1>13

\* The number of items before each event.
Begins(u) == CHOOSE B : Layout(u, B)

\* They are laid out as Begins says.
LEMMA BeginsIs == \A u \in Utterance : Layout(u, Begins(u))
BY ItemsLaid DEF Begins

------------------------------------------------------------------------------
(* What NVDA has received, counted. *)

Received(u) == Cardinality({i \in 1..Len(out) : out[i].utt = u})

\* It is the counting of Announcer.
LEMMA ReceivedIs == ASSUME NEW u PROVE Promise!Received(u) = Received(u)
BY DEF Received, Promise!Received, Promise!Cardinality, Cardinality

\* One more item is one more for its utterance, and for no other.
LEMMA ReceivedGrows ==
  ASSUME out \in Seq(Item), NEW item \in Item, NEW u
  PROVE  /\ Received(u) \in Nat
         /\ out' = Append(out, item) =>
              Received(u)' = Received(u) + IF item.utt = u THEN 1 ELSE 0
<1> DEFINE Of == {i \in 1..Len(out) : out[i].utt = u}
<1>1. Len(out) \in Nat /\ IsFiniteSet(1..Len(out)) /\ Of \subseteq 1..Len(out)
  BY FS_Interval
<1>2. IsFiniteSet(Of) /\ Cardinality(Of) \in Nat /\ Len(out) + 1 \notin Of
  BY <1>1, FS_Subset, FS_CardinalityType
<1>3. Received(u) = Cardinality(Of)
  BY DEF Received
<1>4. ASSUME out' = Append(out, item)
      PROVE  Received(u)' = Received(u) + IF item.utt = u THEN 1 ELSE 0
  <2>1. Received(u)' = Cardinality({i \in 1..Len(out') : out'[i].utt = u})
    BY DEF Received
  <2>2. /\ \A i \in 1..Len(out) : out'[i] = out[i] /\ i \in 1..Len(out')
        /\ Len(out) + 1 \in 1..Len(out') /\ out'[Len(out) + 1] = item
        /\ \A i \in 1..Len(out') : i \in 1..Len(out) \/ i = Len(out) + 1
    BY <1>1, <1>4, AppendElements
  <2>3. CASE item.utt = u
    <3>1. {i \in 1..Len(out') : out'[i].utt = u} = Of \cup {Len(out) + 1}
      BY <2>2, <2>3
    <3> HIDE DEF Of
    <3>2. Cardinality(Of \cup {Len(out) + 1}) = Cardinality(Of) + 1
      BY <1>2, FS_AddElement
    <3> QED BY <1>3, <2>1, <2>3, <3>1, <3>2
  <2>4. CASE item.utt # u
    <3>1. {i \in 1..Len(out') : out'[i].utt = u} = Of
      BY <2>2, <2>4
    <3> HIDE DEF Of
    <3>2. Received(u)' = Cardinality(Of)
      BY <2>1, <3>1
    <3> QED BY <1>2, <1>3, <2>4, <3>2
  <2> QED BY <2>3, <2>4
<1> QED BY <1>2, <1>3, <1>4

\* What has been received is a number of items.
LEMMA ReceivedCounts == ASSUME out \in Seq(Item) PROVE \A u : Received(u) \in Nat
<1> TAKE u
<1>1. IsFiniteSet(1..Len(out)) /\ {i \in 1..Len(out) : out[i].utt = u} \subseteq 1..Len(out)
  BY FS_Interval
<1> QED BY <1>1, FS_Subset, FS_CardinalityType DEF Received

\* Of an utterance not begun nothing has been received.
LEMMA NoneReceived ==
  ASSUME out \in Seq(Item), NEW u, \A i \in 1..Len(out) : out[i].utt # u
  PROVE  Received(u) = 0
<1>1. {i \in 1..Len(out) : out[i].utt = u} = {}
  OBVIOUS
<1> QED BY <1>1, FS_EmptySet DEF Received

------------------------------------------------------------------------------
(* The utterances still wanted are at the end of the queue. *)

SplitAt(n) == n \in 0..Len(jobs) /\ \A i \in 1..Len(jobs) : Wants(jobs[i]) <=> i > n
StillQueued == [i \in 1..(Len(jobs) - Unwanted) |-> jobs[Unwanted + i].utt]

\* The operator of SpeechSystem finds where they begin.
LEMMA UnwantedIs ==
  ASSUME NEW n
  PROVE  /\ jobs \in Seq(JobRecord \cup {None}) /\ SplitAt(n) => Unwanted = n
         /\ jobs' \in Seq(JobRecord \cup {None}) /\ SplitAt(n)' => Unwanted' = n
<1>1. ASSUME jobs \in Seq(JobRecord \cup {None}), SplitAt(n) PROVE Unwanted = n
  <2>0. Len(jobs) \in Nat
    BY <1>1
  <2>1. Unwanted \in 0..Len(jobs) /\ \A i \in 1..Len(jobs) : Wants(jobs[i]) <=> i > Unwanted
    BY <1>1 DEF SplitAt, Unwanted
  <2>2. n \in 0..Len(jobs) /\ \A i \in 1..Len(jobs) : Wants(jobs[i]) <=> i > n
    BY <1>1 DEF SplitAt
  <2>3. CASE n < Unwanted
    <3>1. Unwanted \in 1..Len(jobs) /\ ~(Unwanted > Unwanted) /\ Unwanted > n
      BY <2>0, <2>1, <2>2, <2>3
    <3> QED BY <2>1, <2>2, <3>1
  <2>4. CASE n > Unwanted
    <3>1. n \in 1..Len(jobs) /\ ~(n > n) /\ n > Unwanted
      BY <2>0, <2>1, <2>2, <2>4
    <3> QED BY <2>1, <2>2, <3>1
  <2> QED BY <2>0, <2>1, <2>2, <2>3, <2>4
<1>2. ASSUME jobs' \in Seq(JobRecord \cup {None}), SplitAt(n)' PROVE Unwanted' = n
  <2>0. Len(jobs') \in Nat
    BY <1>2
  <2>1. Unwanted' \in 0..Len(jobs') /\ \A i \in 1..Len(jobs') : Wants(jobs[i])' <=> i > Unwanted'
    BY <1>2 DEF SplitAt, Unwanted
  <2>2. n \in 0..Len(jobs') /\ \A i \in 1..Len(jobs') : Wants(jobs[i])' <=> i > n
    BY <1>2 DEF SplitAt
  <2>3. CASE n < Unwanted'
    <3>1. Unwanted' \in 1..Len(jobs') /\ ~(Unwanted' > Unwanted') /\ Unwanted' > n
      BY <2>0, <2>1, <2>2, <2>3
    <3> QED BY <2>1, <2>2, <3>1
  <2>4. CASE n > Unwanted'
    <3>1. n \in 1..Len(jobs') /\ ~(n > n) /\ n > Unwanted'
      BY <2>0, <2>1, <2>2, <2>4
    <3> QED BY <2>1, <2>2, <3>1
  <2> QED BY <2>0, <2>1, <2>2, <2>3, <2>4
<1> QED BY <1>1, <1>2

\* The utterances of the wanted jobs, given where these begin.
LEMMA StillQueuedIs ==
  ASSUME jobs \in Seq(JobRecord \cup {None}), NEW n
  PROVE  /\ SplitAt(n) => /\ StillQueued = [i \in 1..(Len(jobs) - n) |-> jobs[n + i].utt]
                          /\ StillQueued \in Seq(Utterance) /\ Len(StillQueued) = Len(jobs) - n
         /\ jobs' \in Seq(JobRecord \cup {None}) /\ SplitAt(n)' =>
              StillQueued' = [i \in 1..(Len(jobs') - n) |-> jobs'[n + i].utt]
<1>1. ASSUME SplitAt(n)
      PROVE  /\ StillQueued = [i \in 1..(Len(jobs) - n) |-> jobs[n + i].utt]
             /\ StillQueued \in Seq(Utterance) /\ Len(StillQueued) = Len(jobs) - n
  <2>1. StillQueued = [i \in 1..(Len(jobs) - n) |-> jobs[n + i].utt]
    BY <1>1, UnwantedIs DEF StillQueued
  <2>2. Len(jobs) \in Nat /\ n \in 0..Len(jobs) /\ Len(jobs) - n \in Nat
    BY <1>1 DEF SplitAt
  <2>3. ASSUME NEW i \in 1..(Len(jobs) - n) PROVE jobs[n + i].utt \in Utterance
    <3>1. n + i \in 1..Len(jobs) /\ n + i > n
      BY <2>2
    <3>2. Wants(jobs[n + i])
      BY <1>1, <3>1 DEF SplitAt
    <3>3. jobs[n + i] \in JobRecord
      BY <3>1, <3>2 DEF Wants
    <3> QED BY <3>3 DEF JobRecord
  <2>4. StillQueued \in [1..(Len(jobs) - n) -> Utterance]
    BY <2>1, <2>3
  <2>5. StillQueued \in Seq(Utterance) /\ Len(StillQueued) = Len(jobs) - n
    <3> DEFINE m == Len(jobs) - n
               q == StillQueued
    <3>1. m \in Nat /\ q \in [1..m -> Utterance]
      BY <2>2, <2>4
    <3> HIDE DEF m, q
    <3>2. q \in Seq(Utterance)
      BY <3>1, SeqDef
    <3>3. Len(q) = m
      BY <3>1, <3>2
    <3> QED BY <3>2, <3>3 DEF m, q
  <2> QED BY <2>1, <2>5
<1>2. ASSUME jobs' \in Seq(JobRecord \cup {None}), SplitAt(n)'
      PROVE  StillQueued' = [i \in 1..(Len(jobs') - n) |-> jobs'[n + i].utt]
  BY <1>2, UnwantedIs DEF StillQueued
<1> QED BY <1>1, <1>2

\* A job is queued.
LEMMA QueueAppended ==
  ASSUME jobs \in Seq(JobRecord \cup {None}), NEW j \in JobRecord \cup {None},
         jobs' = Append(jobs, j), UNCHANGED <<stopping, currentGeneration>>,
         NEW n, SplitAt(n)
  PROVE  /\ Wants(j) => SplitAt(n)' /\ StillQueued' = Append(StillQueued, j.utt)
         /\ ~Wants(j) /\ n = Len(jobs) => SplitAt(n + 1)' /\ StillQueued' = StillQueued
<1>1. /\ jobs' \in Seq(JobRecord \cup {None}) /\ Len(jobs') = Len(jobs) + 1 /\ Len(jobs) \in Nat
      /\ \A i \in 1..Len(jobs) : jobs'[i] = jobs[i]
      /\ jobs'[Len(jobs) + 1] = j
      /\ \A i \in 1..Len(jobs') : i \in 1..Len(jobs) \/ i = Len(jobs) + 1
  BY AppendElements
<1>3. n \in 0..Len(jobs) /\ \A i \in 1..Len(jobs) : Wants(jobs[i]) <=> i > n
  BY DEF SplitAt
<1>4. /\ StillQueued = [i \in 1..(Len(jobs) - n) |-> jobs[n + i].utt]
      /\ StillQueued \in Seq(Utterance) /\ Len(StillQueued) = Len(jobs) - n
  BY <1>1, StillQueuedIs
<1>5. ASSUME Wants(j) PROVE SplitAt(n)' /\ StillQueued' = Append(StillQueued, j.utt)
  <2>1. SplitAt(n)'
    <3>1. n \in 0..Len(jobs')
      BY <1>1, <1>3
    <3>2. ASSUME NEW i \in 1..Len(jobs') PROVE Wants(jobs[i])' <=> i > n
      <4>1. CASE i \in 1..Len(jobs)
        BY <1>1, <1>3, <4>1 DEF Wants, IsCurrent
      <4>2. CASE i = Len(jobs) + 1
        BY <1>1, <1>3, <1>5, <4>2 DEF Wants, IsCurrent
      <4> QED BY <1>1, <4>1, <4>2
    <3> QED BY <3>1, <3>2 DEF SplitAt
  <2>2. StillQueued' = [i \in 1..(Len(jobs') - n) |-> jobs'[n + i].utt]
    BY <1>1, <2>1, StillQueuedIs
  <2>3. j.utt \in Utterance
    BY <1>5 DEF Wants, JobRecord
  <2> DEFINE m == Len(jobs) - n
             q == Append(StillQueued, j.utt)
  <2>4. m \in Nat /\ Len(jobs') - n = m + 1
    BY <1>1, <1>3
  <2>5. /\ q \in Seq(Utterance) /\ Len(q) = m + 1
        /\ \A i \in 1..m : q[i] = StillQueued[i]
        /\ q[m + 1] = j.utt
    BY <1>4, <2>3, <2>4, AppendElements
  <2>6. \A i \in 1..m : StillQueued[i] = jobs[n + i].utt /\ n + i \in 1..Len(jobs)
    BY <1>1, <1>3, <1>4
  <2>7. n + (m + 1) = Len(jobs) + 1
    BY <1>1, <1>3
  <2> HIDE DEF m, q
  <2>8. q = [i \in 1..(m + 1) |-> q[i]]
    BY <2>4, <2>5
  <2>9. \A i \in 1..(m + 1) : q[i] = jobs'[n + i].utt
    <3> TAKE i \in 1..(m + 1)
    <3>1. CASE i \in 1..m
      BY <1>1, <2>5, <2>6, <3>1
    <3>2. CASE i = m + 1
      BY <1>1, <2>5, <2>7, <3>2
    <3>3. i \in 1..m \/ i = m + 1
      BY <2>4
    <3> QED BY <3>1, <3>2, <3>3
  <2>10. StillQueued' = q
    BY <2>2, <2>4, <2>8, <2>9
  <2> QED BY <2>1, <2>10 DEF q
<1>6. ASSUME ~Wants(j), n = Len(jobs) PROVE SplitAt(n + 1)' /\ StillQueued' = StillQueued
  <2>1. SplitAt(n + 1)'
    <3>1. n + 1 \in 0..Len(jobs')
      BY <1>1, <1>6
    <3>2. ASSUME NEW i \in 1..Len(jobs') PROVE Wants(jobs[i])' <=> i > n + 1
      <4>1. CASE i \in 1..Len(jobs)
        BY <1>1, <1>3, <1>6, <4>1 DEF Wants, IsCurrent
      <4>2. CASE i = Len(jobs) + 1
        BY <1>1, <1>6, <4>2 DEF Wants, IsCurrent
      <4> QED BY <1>1, <4>1, <4>2
    <3> QED BY <3>1, <3>2 DEF SplitAt
  <2>2. StillQueued' = [i \in 1..(Len(jobs') - (n + 1)) |-> jobs'[(n + 1) + i].utt]
    BY <1>1, <2>1, StillQueuedIs
  <2>3. 1..(Len(jobs') - (n + 1)) = {} /\ 1..(Len(jobs) - n) = {}
    BY <1>1, <1>6
  <2> QED BY <1>4, <2>1, <2>2, <2>3
<1> QED BY <1>5, <1>6

\* The first job leaves the queue.
LEMMA QueueAdvanced ==
  ASSUME jobs \in Seq(JobRecord \cup {None}), jobs # <<>>, jobs' = Tail(jobs),
         UNCHANGED <<stopping, currentGeneration>>, NEW n, SplitAt(n)
  PROVE  \/ /\ Wants(Head(jobs)) /\ SplitAt(n)' /\ StillQueued \in Seq(Utterance)
            /\ StillQueued # <<>> /\ Head(StillQueued) = Head(jobs).utt
            /\ StillQueued' = Tail(StillQueued)
         \/ ~Wants(Head(jobs)) /\ SplitAt(n - 1)' /\ StillQueued' = StillQueued
<1>1. /\ jobs' \in Seq(JobRecord \cup {None}) /\ Len(jobs') = Len(jobs) - 1
      /\ Len(jobs) \in Nat /\ Len(jobs) > 0 /\ Head(jobs) = jobs[1] /\ 1 \in 1..Len(jobs)
      /\ \A i \in 1..Len(jobs') : i + 1 \in 1..Len(jobs) /\ jobs'[i] = jobs[i + 1]
  BY TailElements
<1>3. n \in 0..Len(jobs) /\ \A i \in 1..Len(jobs) : Wants(jobs[i]) <=> i > n
  BY DEF SplitAt
<1>4. /\ StillQueued = [i \in 1..(Len(jobs) - n) |-> jobs[n + i].utt]
      /\ StillQueued \in Seq(Utterance) /\ Len(StillQueued) = Len(jobs) - n
  BY <1>1, StillQueuedIs
<1>5. CASE n = 0
  <2>0. Wants(Head(jobs))
    BY <1>1, <1>3, <1>5
  <2>1. SplitAt(n)'
    <3>1. n \in 0..Len(jobs')
      BY <1>1, <1>5
    <3>2. ASSUME NEW i \in 1..Len(jobs') PROVE Wants(jobs[i])' <=> i > n
      BY <1>1, <1>3, <1>5 DEF Wants, IsCurrent
    <3> QED BY <3>1, <3>2 DEF SplitAt
  <2>2. StillQueued' = [i \in 1..(Len(jobs') - n) |-> jobs'[n + i].utt]
    BY <1>1, <2>1, StillQueuedIs
  <2>3. \A i \in 1..Len(jobs) : StillQueued[i] = jobs[i].utt
    BY <1>1, <1>4, <1>5
  <2>4. Len(StillQueued) = Len(jobs)
    BY <1>1, <1>4, <1>5
  <2> DEFINE q == StillQueued
  <2>a. q \in Seq(Utterance) /\ Len(q) > 0
    BY <1>1, <1>4, <2>4
  <2> HIDE DEF q
  <2>5. q \in Seq(Utterance) /\ q # <<>>
    BY <2>a
  <2>6. /\ Tail(q) \in Seq(Utterance) /\ Len(Tail(q)) = Len(q) - 1 /\ Head(q) = q[1]
        /\ \A i \in 1..Len(Tail(q)) : Tail(q)[i] = q[i + 1]
    BY <2>5, TailElements
  <2>7. Head(q) = Head(jobs).utt
    BY <1>1, <2>3, <2>6 DEF q
  <2>8. Len(Tail(q)) = Len(jobs') /\ \A i \in 1..Len(jobs') : Tail(q)[i] = jobs'[i].utt
    BY <1>1, <2>3, <2>4, <2>6 DEF q
  <2>9. Tail(q) = [i \in 1..Len(jobs') |-> jobs'[i].utt]
    <3> DEFINE r == Tail(q)
    <3>1. /\ r \in Seq(Utterance) /\ Len(r) = Len(jobs')
          /\ \A i \in 1..Len(jobs') : r[i] = jobs'[i].utt
      BY <2>6, <2>8
    <3> HIDE DEF r
    <3>2. r = [i \in 1..Len(jobs') |-> r[i]]
      BY <3>1
    <3>3. r = [i \in 1..Len(jobs') |-> jobs'[i].utt]
      BY <3>1, <3>2
    <3> QED BY <3>3 DEF r
  <2>10. StillQueued' = Tail(q)
    BY <1>1, <1>5, <2>2, <2>9
  <2> QED BY <2>0, <2>1, <2>5, <2>7, <2>10 DEF q
<1>6. CASE n # 0
  <2>0. ~Wants(Head(jobs))
    BY <1>1, <1>3, <1>6
  <2>1. SplitAt(n - 1)'
    <3>1. n - 1 \in 0..Len(jobs')
      BY <1>1, <1>3, <1>6
    <3>2. ASSUME NEW i \in 1..Len(jobs') PROVE Wants(jobs[i])' <=> i > n - 1
      <4>1. Wants(jobs[i])' <=> i + 1 > n
        BY <1>1, <1>3 DEF Wants, IsCurrent
      <4> QED BY <1>3, <4>1
    <3> QED BY <3>1, <3>2 DEF SplitAt
  <2>2. StillQueued' = [i \in 1..(Len(jobs') - (n - 1)) |-> jobs'[(n - 1) + i].utt]
    BY <1>1, <2>1, StillQueuedIs
  <2>3. /\ Len(jobs') - (n - 1) = Len(jobs) - n
        /\ \A i \in 1..(Len(jobs) - n) : jobs'[(n - 1) + i] = jobs[n + i]
    <3>1. Len(jobs') - (n - 1) = Len(jobs) - n
      BY <1>1, <1>3
    <3>2. ASSUME NEW i \in 1..(Len(jobs) - n) PROVE jobs'[(n - 1) + i] = jobs[n + i]
      <4>1. (n - 1) + i \in 1..Len(jobs') /\ ((n - 1) + i) + 1 = n + i
        BY <1>1, <1>3, <1>6
      <4> QED BY <1>1, <4>1
    <3> QED BY <3>1, <3>2
  <2>4. StillQueued' = StillQueued
    BY <1>4, <2>2, <2>3
  <2> QED BY <2>0, <2>1, <2>4
<1> QED BY <1>5, <1>6

\* None is wanted any more, or the same ones are.
LEMMA QueueStale ==
  ASSUME jobs \in Seq(JobRecord \cup {None}), jobs' = jobs,
         \A i \in 1..Len(jobs) : ~Wants(jobs[i])'
  PROVE  SplitAt(Len(jobs))' /\ StillQueued' = <<>>
<1>1. Len(jobs) \in Nat
  OBVIOUS
<1>2. SplitAt(Len(jobs))'
  BY <1>1 DEF SplitAt
<1>3. StillQueued' = [i \in 1..(Len(jobs') - Len(jobs)) |-> jobs'[Len(jobs) + i].utt]
  BY <1>2, StillQueuedIs
<1>4. 1..(Len(jobs') - Len(jobs)) = {}
  BY <1>1
<1> QED BY <1>2, <1>3, <1>4

\* The queue and the generation unchanged, so is what is wanted.
LEMMA QueueSame ==
  ASSUME UNCHANGED <<jobs, stopping, currentGeneration>>
  PROVE  /\ StillQueued' = StillQueued
         /\ \A n : SplitAt(n) => SplitAt(n)'
<1>2. \A n : SplitAt(n) => SplitAt(n)'
  BY DEF SplitAt, Wants, IsCurrent
<1>3. Unwanted' = Unwanted
  BY DEF Unwanted, Wants, IsCurrent
<1> QED BY <1>2, <1>3 DEF StillQueued

\* A drained job was queued before the cancellation, and after the last
\* cancellation nothing is wanted.
QueueInv ==
  /\ \E n : SplitAt(n)
  /\ userPc = "drain" => \A i \in 1..Len(jobs) : jobs[i] # None => jobs[i].gen < currentGeneration
  /\ userPc \in {"sentinel", "join", "closed"} => stopping

\* What the actions of the driver do to the utterances wanted.
LEMMA QueueSteps ==
  ASSUME BaseInv, QueueInv, DriverAction
  PROVE  /\ QueueInv'
         /\ \/ UNCHANGED <<StillQueued, stopping, currentGeneration, spokenAs>> /\ ~NextJob
            \/ \E u \in Utterance : SpeakUtterance(u) /\ StillQueued' = Append(StillQueued, u)
            \/ (BeginCancel \/ Terminate) /\ StillQueued' = <<>>
            \/ /\ NextJob /\ Wants(Head(jobs)) /\ StillQueued # <<>>
               /\ Head(StillQueued) = Head(jobs).utt /\ StillQueued' = Tail(StillQueued)
            \/ NextJob /\ ~Wants(Head(jobs)) /\ UNCHANGED StillQueued
<1> USE DEF channelVars, userVars, renderVars, playerVars, Rest, UserGoto, DriverGoto
<1>0. /\ jobs \in Seq(JobRecord \cup {None}) /\ Len(jobs) \in Nat
      /\ currentGeneration \in Nat /\ currentGeneration \in 1..MaxGen
  BY DriverAssumption DEF BaseInv, DriverTyped, TypeOK, DriverTypeOK
<1>1. PICK n : SplitAt(n)
  BY DEF QueueInv
<1>2. n \in 0..Len(jobs) /\ n \in Nat /\ \A i \in 1..Len(jobs) : Wants(jobs[i]) <=> i > n
  BY <1>0, <1>1 DEF SplitAt
<1>3. ASSUME NEW u \in Utterance, SpeakUtterance(u)
      PROVE  QueueInv' /\ StillQueued' = Append(StillQueued, u)
  <2> DEFINE j == Job(currentGeneration, u)
  <2>1. /\ userPc = "idle" /\ ~stopping /\ jobs' = Append(jobs, j)
        /\ UNCHANGED <<userPc, stopping, currentGeneration>>
    BY <1>3 DEF SpeakUtterance
  <2>2. j \in JobRecord /\ j # None /\ j.utt = u /\ j.gen = currentGeneration
    BY <1>0, NoneAssumption DEF Job, JobRecord
  <2> HIDE DEF j
  <2>3. Wants(j)
    BY <2>1, <2>2 DEF Wants, IsCurrent
  <2>4. SplitAt(n)' /\ StillQueued' = Append(StillQueued, u)
    BY <1>0, <1>1, <2>1, <2>2, <2>3, QueueAppended
  <2> QED BY <2>1, <2>4 DEF QueueInv
<1>4. ASSUME PutSentinel PROVE QueueInv' /\ StillQueued' = StillQueued
  <2>1. /\ userPc = "sentinel" /\ userPc' = "join" /\ jobs' = Append(jobs, None)
        /\ UNCHANGED <<stopping, currentGeneration>> /\ stopping
    BY <1>4 DEF PutSentinel, QueueInv
  <2>2. \A x : ~Wants(x)
    BY <2>1 DEF Wants, IsCurrent
  <2>3. n = Len(jobs)
    <3>1. CASE n < Len(jobs)
      <4>1. Len(jobs) \in 1..Len(jobs) /\ Len(jobs) > n
        BY <1>0, <1>2, <3>1
      <4> QED BY <1>2, <2>2, <4>1
    <3> QED BY <1>0, <1>2, <3>1
  <2>4. SplitAt(n + 1)' /\ StillQueued' = StillQueued
    BY <1>0, <1>1, <2>1, <2>2, <2>3, QueueAppended
  <2> QED BY <2>1, <2>4 DEF QueueInv
<1>5. ASSUME jobs # <<>>, jobs' = Tail(jobs), UNCHANGED <<stopping, currentGeneration, userPc>>
      PROVE  /\ QueueInv'
             /\ \/ /\ Wants(Head(jobs)) /\ StillQueued # <<>>
                   /\ Head(StillQueued) = Head(jobs).utt /\ StillQueued' = Tail(StillQueued)
                \/ ~Wants(Head(jobs)) /\ UNCHANGED StillQueued
  <2>1. \/ /\ Wants(Head(jobs)) /\ SplitAt(n)' /\ StillQueued # <<>>
           /\ Head(StillQueued) = Head(jobs).utt /\ StillQueued' = Tail(StillQueued)
        \/ ~Wants(Head(jobs)) /\ SplitAt(n - 1)' /\ StillQueued' = StillQueued
    BY <1>0, <1>1, <1>5, QueueAdvanced
  <2>2. \A i \in 1..Len(jobs') : i + 1 \in 1..Len(jobs) /\ jobs'[i] = jobs[i + 1]
    BY <1>0, <1>5, TailElements
  <2>3. QueueInv'
    BY <1>5, <2>1, <2>2 DEF QueueInv
  <2> QED BY <2>1, <2>3
<1>6. CASE NextJob
  <2>1. /\ jobs # <<>> /\ jobs' = Tail(jobs)
        /\ UNCHANGED <<stopping, currentGeneration, userPc>>
    BY <1>6 DEF NextJob
  <2> QED BY <1>5, <1>6, <2>1
<1>7. CASE DrainJobs
  <2>1. CASE jobs # <<>>
    <3>1. /\ jobs' = Tail(jobs) /\ UNCHANGED <<stopping, currentGeneration, userPc, spokenAs>>
          /\ userPc = "drain" /\ driverPc' = driverPc /\ UNCHANGED current
      BY <1>7, <2>1 DEF DrainJobs
    <3>2. 1 \in 1..Len(jobs) /\ Head(jobs) = jobs[1]
      BY <1>0, <2>1, TailElements
    <3>3. ~Wants(Head(jobs))
      BY <1>0, <3>1, <3>2, DriverAssumption DEF QueueInv, Wants, IsCurrent, DriverTyped, BaseInv,
         TypeOK, DriverTypeOK
    <3>4. ~NextJob
      BY <3>1 DEF NextJob
    <3> QED BY <1>5, <2>1, <3>1, <3>3, <3>4
  <2>2. CASE jobs = <<>>
    <3>1. /\ UNCHANGED <<jobs, stopping, currentGeneration, spokenAs>> /\ userPc' = "hush"
          /\ driverPc' = driverPc
      BY <1>7, <2>2 DEF DrainJobs
    <3>2. SplitAt(n)' /\ StillQueued' = StillQueued
      BY <1>1, <3>1, QueueSame
    <3>3. ~NextJob
      BY <3>1 DEF NextJob
    <3> QED BY <3>1, <3>2, <3>3 DEF QueueInv
  <2> QED BY <2>1, <2>2
<1>8. CASE BeginCancel \/ Terminate
  <2>1. jobs' = jobs /\ userPc' \in {"send", "read"}
    BY <1>8 DEF BeginCancel, Terminate
  <2>2. \A i \in 1..Len(jobs) : ~Wants(jobs[i])'
    <3> TAKE i \in 1..Len(jobs)
    <3>1. CASE Terminate
      <4>1. stopping' = TRUE
        BY <3>1 DEF Terminate
      <4> QED BY <4>1 DEF Wants, IsCurrent
    <3>2. CASE BeginCancel
      <4>1. currentGeneration' = currentGeneration + 1
        <5>1. userPc = "read" => currentGeneration < MaxGen
          BY DEF BaseInv, CancelsOlder
        <5>2. currentGeneration < MaxGen
          BY <1>0, <3>2, <5>1, DriverAssumption DEF BeginCancel
        <5> QED BY <1>0, <3>2, <5>2, NextGenerationIs DEF BeginCancel
      <4>2. jobs[i] # None => jobs[i].gen <= currentGeneration /\ jobs[i].gen \in Nat
        BY <1>0, DriverAssumption DEF BaseInv, GenerationsSound, TypeOK, DriverTypeOK
      <4> QED BY <1>0, <2>1, <4>1, <4>2 DEF Wants, IsCurrent
    <3> QED BY <1>8, <3>1, <3>2
  <2>3. SplitAt(Len(jobs))' /\ StillQueued' = <<>>
    BY <1>0, <2>1, <2>2, QueueStale
  <2> QED BY <1>8, <2>1, <2>3 DEF QueueInv
<1>9. CASE /\ ~NextJob /\ ~DrainJobs /\ ~BeginCancel /\ ~Terminate /\ ~PutSentinel
           /\ ~\E u \in Utterance : SpeakUtterance(u)
  <2>1. UNCHANGED <<jobs, stopping, currentGeneration, spokenAs>>
    BY <1>9 DEF DriverAction, UserCall, UserEnds, UserStep, DriverStep, Pause,
       StopPlayer, JoinDriver, JoinTimesOut, SendCancel, SendSpeak, ReadFrame, TestStopping,
       CheckJob, EnterRender, NextEvent, NotifyIndex, AlreadyRunning, AwaitMessage, FeedPlayer,
       Settle, IdlePlayer, Finish, AnnounceDone, LeaveRender, AwaitTimesOut
  <2>2. SplitAt(n)' /\ StillQueued' = StillQueued
    BY <1>1, <2>1, QueueSame
  <2>3. userPc' = "drain" =>
          \A i \in 1..Len(jobs) : jobs[i] # None => jobs[i].gen < currentGeneration
    <3>1. userPc' = "drain" => userPc \in {"send", "drain"}
      BY <1>9 DEF DriverAction, UserCall, UserEnds, UserStep, DriverStep, Pause,
         StopPlayer, JoinDriver, JoinTimesOut, SendCancel, SendSpeak, ReadFrame, TestStopping,
         CheckJob, EnterRender, NextEvent, NotifyIndex, AlreadyRunning, AwaitMessage, FeedPlayer,
         Settle, IdlePlayer, Finish, AnnounceDone, LeaveRender, AwaitTimesOut
    <3> QED BY <3>1 DEF QueueInv, BaseInv, CancelsOlder
  <2>4. userPc' \in {"sentinel", "join", "closed"} => stopping
    <3>1. \/ userPc' = userPc
          \/ userPc' \notin {"sentinel", "join", "closed"}
          \/ userPc = "hush" /\ stopping
          \/ userPc \in {"sentinel", "join", "closed"}
      BY <1>9 DEF DriverAction, UserCall, UserEnds, UserStep, DriverStep, Pause,
         StopPlayer, JoinDriver, JoinTimesOut, SendCancel, SendSpeak, ReadFrame, TestStopping,
         CheckJob, EnterRender, NextEvent, NotifyIndex, AlreadyRunning, AwaitMessage, FeedPlayer,
         Settle, IdlePlayer, Finish, AnnounceDone, LeaveRender, AwaitTimesOut
    <3> QED BY <3>1 DEF QueueInv
  <2> QED BY <1>9, <2>1, <2>2, <2>3, <2>4 DEF QueueInv
<1>a. PutSentinel => ~NextJob /\ UNCHANGED <<stopping, currentGeneration, spokenAs>>
  BY DEF PutSentinel, NextJob
<1> QED BY <1>3, <1>4, <1>6, <1>7, <1>8, <1>9, <1>a

------------------------------------------------------------------------------
(* The frames on their way to the worker: the host's queue, then the         *)
(* channel.                                                                  *)

Stream == messages \o toHost

\* Sequences are their elements.
LEMMA SameElements ==
  ASSUME NEW S, NEW s \in Seq(S), NEW t \in Seq(S), Len(s) = Len(t),
         \A i \in 1..Len(s) : s[i] = t[i]
  PROVE  s = t
BY SeqEqual

\* A frame read moves within the stream, one taken leaves it at the front,
\* and one written joins it at the end.
LEMMA Joined ==
  ASSUME NEW S, NEW a \in Seq(S), NEW b \in Seq(S)
  PROVE  /\ b # <<>> => Append(a, Head(b)) \o Tail(b) = a \o b
         /\ a # <<>> => Tail(a) \o b = Tail(a \o b) /\ a \o b # <<>> /\ Head(a \o b) = Head(a)
         /\ \A m \in S : a \o Append(b, m) = Append(a \o b, m)
<1>1. /\ a \o b \in Seq(S) /\ Len(a \o b) = Len(a) + Len(b) /\ Len(a) \in Nat /\ Len(b) \in Nat
      /\ \A i \in 1..(Len(a) + Len(b)) : (a \o b)[i] = IF i <= Len(a) THEN a[i] ELSE b[i - Len(a)]
  BY ConcatProperties
<1>2. ASSUME b # <<>> PROVE Append(a, Head(b)) \o Tail(b) = a \o b
  <2> DEFINE c == Append(a, Head(b))
             d == Tail(b)
  <2>1. /\ d \in Seq(S) /\ Len(d) = Len(b) - 1 /\ Len(b) > 0 /\ Head(b) \in S /\ Head(b) = b[1]
        /\ \A i \in 1..Len(d) : d[i] = b[i + 1]
    BY <1>2, TailElements
  <2>2. /\ c \in Seq(S) /\ Len(c) = Len(a) + 1 /\ c[Len(a) + 1] = b[1]
        /\ \A i \in 1..Len(a) : c[i] = a[i]
    BY <2>1, AppendElements
  <2> HIDE DEF c, d
  <2>3. /\ c \o d \in Seq(S) /\ Len(c \o d) = Len(c) + Len(d)
        /\ \A i \in 1..(Len(c) + Len(d)) : (c \o d)[i] = IF i <= Len(c) THEN c[i] ELSE d[i - Len(c)]
    BY <2>1, <2>2, ConcatProperties
  <2>4. Len(c \o d) = Len(a \o b)
    BY <1>1, <2>1, <2>2, <2>3
  <2>5. ASSUME NEW i \in 1..Len(c \o d) PROVE (c \o d)[i] = (a \o b)[i]
    <3>0. i \in 1..(Len(c) + Len(d)) /\ i \in 1..(Len(a) + Len(b)) /\ i \in Nat
      BY <1>1, <2>3, <2>4
    <3>1. CASE i <= Len(a)
      BY <1>1, <2>2, <2>3, <3>0, <3>1
    <3>2. CASE i = Len(a) + 1
      BY <1>1, <2>2, <2>3, <3>0, <3>2
    <3>3. CASE i > Len(a) + 1
      <4>1. /\ i - Len(c) \in 1..Len(d) /\ (i - Len(c)) + 1 = i - Len(a)
            /\ ~(i <= Len(c)) /\ ~(i <= Len(a))
        BY <1>1, <2>1, <2>2, <3>0, <3>3
      <4>2. d[i - Len(c)] = b[i - Len(a)]
        BY <2>1, <4>1
      <4> QED BY <1>1, <2>3, <3>0, <4>1, <4>2
    <3> QED BY <1>1, <3>0, <3>1, <3>2, <3>3
  <2>6. c \o d = a \o b
    BY <1>1, <2>3, <2>4, <2>5, SameElements
  <2> QED BY <2>6 DEF c, d
<1>3. ASSUME a # <<>>
      PROVE  Tail(a) \o b = Tail(a \o b) /\ a \o b # <<>> /\ Head(a \o b) = Head(a)
  <2> DEFINE c == Tail(a)
             d == a \o b
  <2>1. /\ c \in Seq(S) /\ Len(c) = Len(a) - 1 /\ Len(a) > 0 /\ Head(a) = a[1]
        /\ \A i \in 1..Len(c) : c[i] = a[i + 1]
    BY <1>3, TailElements
  <2>2. d \in Seq(S) /\ Len(d) = Len(a) + Len(b) /\ d[1] = a[1]
    BY <1>1, <2>1
  <2>a. \A i \in 1..(Len(a) + Len(b)) : d[i] = IF i <= Len(a) THEN a[i] ELSE b[i - Len(a)]
    BY <1>1
  <2> HIDE DEF c, d
  <2>3. /\ Tail(d) \in Seq(S) /\ Len(Tail(d)) = Len(d) - 1 /\ Head(d) = d[1] /\ d # <<>>
        /\ \A i \in 1..Len(Tail(d)) : Tail(d)[i] = d[i + 1]
    <3>1. d # <<>>
      BY <1>1, <2>1, <2>2
    <3> QED BY <2>2, <3>1, TailElements
  <2>4. /\ c \o b \in Seq(S) /\ Len(c \o b) = Len(c) + Len(b)
        /\ \A i \in 1..(Len(c) + Len(b)) : (c \o b)[i] = IF i <= Len(c) THEN c[i] ELSE b[i - Len(c)]
    BY <2>1, ConcatProperties
  <2>5. Len(c \o b) = Len(Tail(d))
    BY <1>1, <2>1, <2>2, <2>3, <2>4
  <2>6. ASSUME NEW i \in 1..Len(c \o b) PROVE (c \o b)[i] = Tail(d)[i]
    <3>0. /\ i \in 1..(Len(c) + Len(b)) /\ i + 1 \in 1..(Len(a) + Len(b))
          /\ i \in Nat /\ i \in 1..Len(Tail(d))
      BY <1>1, <2>1, <2>4, <2>5
    <3>1. CASE i <= Len(c)
      <4>1. i \in 1..Len(c) /\ i + 1 <= Len(a)
        BY <1>1, <2>1, <3>0, <3>1
      <4> QED BY <2>a, <2>1, <2>3, <2>4, <3>0, <3>1, <4>1
    <3>2. CASE i > Len(c)
      <4>1. ~(i <= Len(c)) /\ ~(i + 1 <= Len(a)) /\ i - Len(c) = (i + 1) - Len(a)
        BY <1>1, <2>1, <3>0, <3>2
      <4> QED BY <2>a, <2>3, <2>4, <3>0, <4>1
    <3> QED BY <1>1, <2>1, <3>0, <3>1, <3>2
  <2>7. c \o b = Tail(d)
    BY <2>3, <2>4, <2>5, <2>6, SameElements
  <2> QED BY <2>1, <2>2, <2>3, <2>7 DEF c, d
<1>4. ASSUME NEW m \in S PROVE a \o Append(b, m) = Append(a \o b, m)
  <2> DEFINE c == Append(b, m)
             d == a \o b
  <2>1. /\ c \in Seq(S) /\ Len(c) = Len(b) + 1 /\ c[Len(b) + 1] = m
        /\ \A i \in 1..Len(b) : c[i] = b[i]
    BY AppendElements
  <2>2. d \in Seq(S) /\ Len(d) = Len(a) + Len(b)
    BY <1>1
  <2>a. \A i \in 1..(Len(a) + Len(b)) : d[i] = IF i <= Len(a) THEN a[i] ELSE b[i - Len(a)]
    BY <1>1
  <2> HIDE DEF c, d
  <2>3. /\ Append(d, m) \in Seq(S) /\ Len(Append(d, m)) = Len(d) + 1 /\ Append(d, m)[Len(d) + 1] = m
        /\ \A i \in 1..Len(d) : Append(d, m)[i] = d[i]
    BY <2>2, AppendElements
  <2>4. /\ a \o c \in Seq(S) /\ Len(a \o c) = Len(a) + Len(c)
        /\ \A i \in 1..(Len(a) + Len(c)) : (a \o c)[i] = IF i <= Len(a) THEN a[i] ELSE c[i - Len(a)]
    BY <2>1, ConcatProperties
  <2>5. Len(a \o c) = Len(Append(d, m))
    BY <1>1, <2>1, <2>2, <2>3, <2>4
  <2>6. ASSUME NEW i \in 1..Len(a \o c) PROVE (a \o c)[i] = Append(d, m)[i]
    <3>0. i \in 1..(Len(a) + Len(c)) /\ i \in 1..(Len(d) + 1) /\ i \in Nat
      BY <1>1, <2>1, <2>2, <2>4
    <3>1. CASE i <= Len(d)
      <4>1. i \in 1..Len(d) /\ (~(i <= Len(a)) => i - Len(a) \in 1..Len(b))
        BY <1>1, <2>2, <3>0, <3>1
      <4> QED BY <1>1, <2>1, <2>2, <2>a, <2>3, <2>4, <3>0, <4>1
    <3>2. CASE i = Len(d) + 1
      <4>1. ~(i <= Len(a)) /\ i - Len(a) = Len(b) + 1
        BY <1>1, <2>2, <3>2
      <4> QED BY <2>1, <2>3, <2>4, <3>0, <3>2, <4>1
    <3>3. i <= Len(d) \/ i = Len(d) + 1
      BY <1>1, <2>2, <3>0
    <3> QED BY <3>1, <3>2, <3>3
  <2>7. a \o c = Append(d, m)
    BY <2>3, <2>4, <2>5, <2>6, SameElements
  <2> QED BY <2>7 DEF c, d
<1> QED BY <1>2, <1>3, <1>4

\* The stream is one of frames.
LEMMA StreamTyped == BaseInv => /\ Stream \in Seq(ToHostMessage) /\ Len(Stream) \in Nat
                                /\ messages \in Seq(ToHostMessage)
                                /\ toHost \in Seq(ToHostMessage)
<1> SUFFICES ASSUME BaseInv
             PROVE  /\ Stream \in Seq(ToHostMessage) /\ Len(Stream) \in Nat
                    /\ messages \in Seq(ToHostMessage)
                    /\ toHost \in Seq(ToHostMessage)
  OBVIOUS
<1>1. messages \in Seq(ToHostMessage) /\ toHost \in Seq(ToHostMessage)
  BY DEF BaseInv, TypeOK, ChannelTypeOK, DriverTypeOK
<1> QED BY <1>1, ConcatElements DEF Stream

\* The driver only ever takes the first frame.
LEMMA StreamSteps ==
  ASSUME BaseInv, DriverAction
  PROVE  \/ UNCHANGED Stream /\ ~AwaitMessage
         \/ /\ AwaitMessage /\ messages # <<>> /\ Stream # <<>>
            /\ Head(messages) = Head(Stream) /\ Stream' = Tail(Stream)
<1>0. messages \in Seq(ToHostMessage) /\ toHost \in Seq(ToHostMessage)
  BY StreamTyped
<1>1. CASE AwaitMessage
  <2>1. messages # <<>> /\ messages' = Tail(messages) /\ toHost' = toHost
    BY <1>1 DEF AwaitMessage, channelVars
  <2> QED BY <1>0, <1>1, <2>1, Joined DEF Stream
<1>2. CASE ReadFrame
  <2>1. toHost # <<>> /\ messages' = Append(messages, Head(toHost)) /\ toHost' = Tail(toHost)
    BY <1>2 DEF ReadFrame
  <2>2. Stream' = Stream
    BY <1>0, <2>1, Joined DEF Stream
  <2>3. Len(toHost') # Len(toHost)
    BY <1>0, <2>1, TailElements
  <2>4. ~AwaitMessage
    BY <2>3 DEF AwaitMessage, channelVars
  <2> QED BY <2>2, <2>4
<1>3. CASE UNCHANGED <<toHost, messages>>
  <2>1. Stream' = Stream
    BY <1>3 DEF Stream
  <2>2. messages # <<>> => Len(Tail(messages)) # Len(messages)
    BY <1>0, TailElements
  <2>3. ~AwaitMessage
    BY <1>3, <2>2 DEF AwaitMessage
  <2> QED BY <2>1, <2>3
<1> QED BY <1>1, <1>2, <1>3, DriverReads

\* What is written to the host joins the stream.
LEMMA StreamAppends ==
  ASSUME BaseInv, NEW m \in ToHostMessage, toHost' = Append(toHost, m), messages' = messages
  PROVE  Stream' = Append(Stream, m)
BY StreamTyped, Joined DEF Stream

\* The kinds of steps, with the mishaps they count.
LEMMA NextKinds ==
  ASSUME BaseInv, Next
  PROVE  /\ mishaps \in Nat /\ mishaps' \in Nat /\ mishaps <= mishaps'
         /\ \/ running /\ (MainStep \/ WorkerStep) /\ UNCHANGED <<driverVars, latest, mishaps>>
            \/ running /\ WorkerMishap /\ UNCHANGED <<driverVars, latest>> /\ mishaps' > 0
            \/ /\ UserCall \/ UserEnds \/ UserStep \/ ReadFrame \/ DriverStep
               /\ UNCHANGED <<guestVars, mishaps>>
            \/ (AwaitTimesOut \/ JoinTimesOut) /\ UNCHANGED guestVars /\ mishaps' > 0
            \/ StartHelper /\ UNCHANGED mishaps
            \/ StopHelper /\ UNCHANGED mishaps
            \/ StartFails /\ mishaps' > 0
            \/ HelperDies /\ mishaps' > 0
<1>1. mishaps \in Nat
  BY MishapAssumption DEF BaseInv, TypeOK
<1> QED BY <1>1 DEF Next, Well, Mishap, GuestMove, DriverMove, StartHelper, StopHelper,
   StartFails, HelperDies

------------------------------------------------------------------------------
(* Every frame in the stream is what it says, and bad news comes of a        *)
(* mishap.                                                                   *)

Sound(m) ==
  /\ m.type \in {"audio", "done", "error"} => m.text \in Text /\ m.gen = GenOf[m.text]
  /\ m.type = "cancelled" => m.text = NoText /\ m.gen < currentGeneration
  /\ m.type = "eof" => m.text = NoText
  /\ m.type \in {"error", "eof"} => mishaps > 0
Frames == \A i \in 1..Len(Stream) : Sound(Stream[i])
Mishaps ==
  /\ ~running => mishaps > 0 \/ driverPc \in {"coldstart", "reboot"}
  /\ ~succeeded => mishaps > 0

\* What the helper writes, and where its worker then is.
GuestWrites(m) ==
  \/ /\ m = Frame("cancelled", target, NoText, 0) /\ UNCHANGED <<workerVars, pendingJob>>
     /\ target \in Nat /\ target < currentGeneration
  \/ /\ workerPc = "emit" /\ workerPc' = "loop" /\ UNCHANGED <<job, pendingJob, succeeded>>
     /\ m = Frame("audio", GenOf[job], job, offset + 1) /\ offset' = offset + 1
  \/ /\ workerPc = "reply" /\ workerPc' = "retire" /\ UNCHANGED <<job, pendingJob, succeeded>>
     /\ m = Frame(IF succeeded THEN "done" ELSE "error", GenOf[job], job, 0)

\* Nothing else is written by it.
LEMMA GuestWritesOnly ==
  ASSUME BaseInv, running, GuestAction, UNCHANGED <<driverVars, latest>>
  PROVE  \/ UNCHANGED toHost
         \/ \E m \in ToHostMessage :
              toHost' = Append(toHost, m) /\ UNCHANGED toGuest /\ GuestWrites(m)
<1> USE DEF channelVars, mainVars, workerVars, sharedVars, guestVars
<1>0. G!IInv /\ NeverEnding /\ GuestTypeOK /\ ChannelTypeOK /\ OnlyRequests
  BY DEF BaseInv, GuestSound, TypeOK
<1>1. CASE ReportCancelled
  <2> DEFINE m == Frame("cancelled", target, NoText, 0)
  <2>1. target \in 1..(currentGeneration - 1)
    BY <1>0, <1>1 DEF G!IInv, G!Ordered, G!TargetBetween, G!Serving, NeverEnding,
       ReportCancelled
  <2>2. currentGeneration \in Nat /\ target \in Nat
    BY <1>0, DriverAssumption DEF BaseInv, TypeOK, DriverTypeOK, GuestTypeOK
  <2>3. m \in ToHostMessage
    BY <2>2, FramesTyped DEF Maybe
  <2> HIDE DEF m
  <2>4. toHost' = Append(toHost, m) /\ UNCHANGED <<toGuest, workerVars, pendingJob>>
    BY <1>1 DEF ReportCancelled, SendToHost, m
  <2>5. GuestWrites(m)
    BY <2>1, <2>2, <2>4 DEF GuestWrites, m
  <2> QED BY <2>3, <2>4, <2>5
<1>2. CASE EmitAudio
  <2> DEFINE m == Frame("audio", GenOf[job], job, offset + 1)
  <2>1. job \in Text /\ offset + 1 \in Nat /\ GenOf[job] \in Nat /\ activeGeneration = GenOf[job]
    BY <1>0, <1>2, ChannelAssumption DEF EmitAudio, Goto, GuestTypeOK, Engaged, G!IInv, G!Tagged,
       G!ActiveIsJob, G!Engaged
  <2>2. m \in ToHostMessage
    BY <2>1, FramesTyped DEF Maybe
  <2> HIDE DEF m
  <2>3. /\ toHost' = Append(toHost, m) /\ UNCHANGED <<toGuest, pendingJob, job, succeeded>>
        /\ workerPc = "emit" /\ workerPc' = "loop" /\ offset' = offset + 1
    BY <1>2, <2>1 DEF EmitAudio, SendToHost, Goto, m
  <2>4. GuestWrites(m)
    BY <2>3 DEF GuestWrites, m
  <2> QED BY <2>2, <2>3, <2>4
<1>3. CASE Reply
  <2> DEFINE m == Frame(IF succeeded THEN "done" ELSE "error", GenOf[job], job, 0)
  <2>1. job \in Text /\ GenOf[job] \in Nat
    BY <1>0, <1>3, ChannelAssumption DEF Reply, Goto, GuestTypeOK, Engaged
  <2>2. m \in ToHostMessage
    BY <2>1, FramesTyped DEF Maybe
  <2> HIDE DEF m
  <2>3. /\ toHost' = Append(toHost, m) /\ UNCHANGED <<toGuest, pendingJob, job, succeeded>>
        /\ workerPc = "reply" /\ workerPc' = "retire"
    BY <1>3 DEF Reply, SendToHost, Goto, m
  <2>4. GuestWrites(m)
    BY <2>3 DEF GuestWrites, m
  <2> QED BY <2>2, <2>3, <2>4
<1>4. ~ReadEmpty
  <2> SUFFICES ASSUME ReadEmpty PROVE FALSE
    OBVIOUS
  <2>1. toGuest # <<>> /\ Head(toGuest).type = "speak" /\ Head(toGuest).text = NoText
    BY DEF ReadEmpty, Receive
  <2>2. 1 \in 1..Len(toGuest) /\ Head(toGuest) = toGuest[1]
    BY <1>0, <2>1, TailElements DEF ChannelTypeOK
  <2> QED BY <1>0, <2>1, <2>2, ChannelAssumption DEF OnlyRequests
<1>5. CASE ~ReportCancelled /\ ~EmitAudio /\ ~Reply
  <2>1. UNCHANGED toHost
    BY <1>4, <1>5 DEF GuestAction, MainStep, WorkerStep, WorkerMishap, ReadSpeak, ReadCancel,
       ReadQuit, ReadBad, NotifyOne, CompareActive, RaiseCancelling, StoreShuttingDown,
       AimAtActive, NotifyAll, JoinWorker, CheckShutdown, WaitLeave, WaitTake, WaitPark, Park,
       ClearCancelling, Activate, SelectVoice, ChunkLoop, Callback, Verdict, Retire,
       SelectFails, EngineFails
  <2> QED BY <2>1
<1> QED BY <1>1, <1>2, <1>3, <1>5

\* Generations and mishaps only grow.
LEMMA CountsGrow ==
  ASSUME BaseInv, [Next]_vars
  PROVE  /\ currentGeneration \in Nat /\ currentGeneration' \in Nat
         /\ currentGeneration <= currentGeneration'
         /\ mishaps \in Nat /\ mishaps' \in Nat /\ mishaps <= mishaps'
<1>0. currentGeneration \in Nat /\ mishaps \in Nat
  BY DriverAssumption, MishapAssumption DEF BaseInv, TypeOK, DriverTypeOK
<1>1. CASE Next
  <2>1. mishaps' \in Nat /\ mishaps <= mishaps'
    BY <1>1, NextKinds
  <2>2. CASE DriverAction
    <3>1. currentGeneration' \in {currentGeneration, currentGeneration + 1}
      BY <2>2, GenerationGrows DEF BaseInv, TypeOK
    <3> QED BY <1>0, <2>1, <3>1
  <2>3. CASE UNCHANGED driverVars
    BY <1>0, <2>1, <2>3 DEF driverVars
  <2>4. CASE StartHelper \/ StopHelper \/ StartFails \/ HelperDies
    BY <1>0, <2>1, <2>4 DEF StartHelper, StopHelper, StartFails, HelperDies
  <2> QED BY <1>1, <2>2, <2>3, <2>4, NextCases
<1>2. CASE UNCHANGED vars
  BY <1>0, <1>2 DEF vars, driverVars
<1> QED BY <1>1, <1>2

\* The frame at an index of the stream has come from the same or the next one,
\* or has just been written.
LEMMA FramesKept == BaseInv /\ Frames /\ Mishaps /\ [Next]_vars => Frames' /\ Mishaps'
<1> SUFFICES ASSUME BaseInv, Frames, Mishaps, [Next]_vars PROVE Frames' /\ Mishaps'
  OBVIOUS
<1>0. /\ currentGeneration \in Nat /\ currentGeneration' \in Nat
      /\ currentGeneration <= currentGeneration'
      /\ mishaps \in Nat /\ mishaps' \in Nat /\ mishaps <= mishaps'
      /\ Stream \in Seq(ToHostMessage) /\ Len(Stream) \in Nat
      /\ toHost \in Seq(ToHostMessage) /\ messages \in Seq(ToHostMessage)
  BY CountsGrow, StreamTyped
<1>1. ASSUME NEW m \in ToHostMessage, Sound(m) PROVE Sound(m)'
  <2>1. m.gen \in Nat
    BY DEF ToHostMessage
  <2> QED BY <1>0, <1>1, <2>1 DEF Sound
<1>2. ASSUME NEW m \in ToHostMessage, Stream' = Append(Stream, m), Sound(m)' PROVE Frames'
  <2>1. /\ \A i \in 1..Len(Stream) : Stream'[i] = Stream[i] /\ Stream[i] \in ToHostMessage
        /\ Stream'[Len(Stream) + 1] = m
        /\ \A i \in 1..Len(Stream') : i \in 1..Len(Stream) \/ i = Len(Stream) + 1
    BY <1>0, <1>2, AppendElements
  <2> SUFFICES ASSUME NEW i \in 1..Len(Stream') PROVE Sound(Stream[i])'
    BY DEF Frames
  <2>2. CASE i \in 1..Len(Stream)
    <3>1. Sound(Stream[i]) /\ Stream[i] \in ToHostMessage /\ Stream'[i] = Stream[i]
      BY <2>1, <2>2 DEF Frames
    <3> QED BY <1>1, <3>1 DEF Sound
  <2>3. CASE i = Len(Stream) + 1
    <3>1. Stream'[i] = m
      BY <2>1, <2>3
    <3> QED BY <1>2, <3>1 DEF Sound
  <2> QED BY <2>1, <2>2, <2>3
<1>3. ASSUME UNCHANGED Stream PROVE Frames'
  <2> SUFFICES ASSUME NEW i \in 1..Len(Stream') PROVE Sound(Stream[i])'
    BY DEF Frames
  <2>1. Sound(Stream[i]) /\ Stream[i] \in ToHostMessage /\ Stream'[i] = Stream[i]
    BY <1>0, <1>3 DEF Frames
  <2> QED BY <1>1, <2>1 DEF Sound
<1>4. ASSUME Stream # <<>>, Stream' = Tail(Stream) PROVE Frames'
  <2> SUFFICES ASSUME NEW i \in 1..Len(Stream') PROVE Sound(Stream[i])'
    BY DEF Frames
  <2>1. i + 1 \in 1..Len(Stream) /\ Stream'[i] = Stream[i + 1]
    BY <1>0, <1>4, TailElements
  <2>2. Sound(Stream[i + 1]) /\ Stream[i + 1] \in ToHostMessage
    BY <1>0, <2>1 DEF Frames
  <2> QED BY <1>1, <2>1, <2>2 DEF Sound
<1>5. ASSUME UNCHANGED vars PROVE Frames' /\ Mishaps'
  <2>1. UNCHANGED <<Stream, running, driverPc, succeeded, mishaps>>
    BY <1>5 DEF vars, channelVars, driverVars, renderVars, guestVars, workerVars, Stream
  <2> QED BY <1>3, <2>1 DEF Mishaps
<1>6. ASSUME running, GuestAction, UNCHANGED <<driverVars, latest>> PROVE Frames'
  <2>0. UNCHANGED <<messages, currentGeneration>>
    BY <1>6 DEF driverVars
  <2>1. CASE UNCHANGED toHost
    BY <1>3, <2>0, <2>1 DEF Stream
  <2>2. CASE \E m \in ToHostMessage : toHost' = Append(toHost, m) /\ GuestWrites(m)
    <3>1. PICK m \in ToHostMessage : toHost' = Append(toHost, m) /\ GuestWrites(m)
      BY <2>2
    <3>2. Stream' = Append(Stream, m)
      BY <2>0, <3>1, StreamAppends
    <3>3. workerPc \in {"emit", "reply"} => job \in Text
      BY DEF BaseInv, TypeOK, GuestTypeOK, Engaged
    <3>4. Sound(m)'
      BY <1>0, <2>0, <3>1, <3>3, ChannelAssumption DEF GuestWrites, Sound, Frame, Mishaps
    <3> QED BY <1>2, <3>2, <3>4
  <2> QED BY <1>6, <2>1, <2>2, GuestWritesOnly
<1>7. CASE running /\ (MainStep \/ WorkerStep) /\ UNCHANGED <<driverVars, latest, mishaps>>
  <2>1. UNCHANGED <<running, driverPc>> /\ GuestAction
    BY <1>7 DEF driverVars, renderVars, GuestAction
  <2>2. succeeded' \in {succeeded, TRUE}
    BY <1>7 DEF MainStep, WorkerStep, ReadSpeak, ReadEmpty, ReadCancel,
       ReadQuit, ReadBad, NotifyOne, CompareActive, RaiseCancelling, ReportCancelled,
       StoreShuttingDown, AimAtActive, NotifyAll, JoinWorker, CheckShutdown, WaitLeave, WaitTake,
       WaitPark, Park, ClearCancelling, Activate, SelectVoice, ChunkLoop, Callback, EmitAudio,
       Verdict, Reply, Retire, guestVars, workerVars
  <2>3. Mishaps'
    BY <1>0, <1>7, <2>1, <2>2 DEF Mishaps
  <2> QED BY <1>6, <1>7, <2>1, <2>3
<1>8. CASE running /\ WorkerMishap /\ UNCHANGED <<driverVars, latest>> /\ mishaps' > 0
  <2>1. GuestAction
    BY <1>8 DEF GuestAction
  <2> QED BY <1>6, <1>8, <2>1 DEF Mishaps
<1>9. ASSUME DriverAction PROVE Frames'
  BY <1>3, <1>4, <1>9, StreamSteps
<1>10. CASE /\ UserCall \/ UserEnds \/ UserStep \/ ReadFrame \/ DriverStep
            /\ UNCHANGED <<guestVars, mishaps>>
  <2>1. DriverAction
    BY <1>10 DEF DriverAction
  <2>2. running' = running /\ succeeded' = succeeded
    BY <1>10, <2>1, DriverReads DEF guestVars, workerVars
  <2>3. driverPc \in {"coldstart", "reboot"} => driverPc' = driverPc
    BY <2>1 DEF DriverAction, UserCall, UserEnds, UserStep, DriverStep, SpeakUtterance, Pause,
       BeginCancel, Terminate, DrainJobs, PutSentinel, NextJob,
       StopPlayer, JoinDriver, JoinTimesOut, SendCancel, SendSpeak, ReadFrame, TestStopping,
       CheckJob, EnterRender, NextEvent, NotifyIndex, AlreadyRunning, AwaitMessage, FeedPlayer,
       Settle, IdlePlayer, Finish, AnnounceDone, LeaveRender, AwaitTimesOut,
       renderVars, DriverGoto
  <2>4. Mishaps'
    BY <1>0, <1>10, <2>2, <2>3 DEF Mishaps
  <2> QED BY <1>9, <2>1, <2>4
<1>11. CASE (AwaitTimesOut \/ JoinTimesOut) /\ UNCHANGED guestVars /\ mishaps' > 0
  BY <1>9, <1>11 DEF DriverAction, Mishaps
<1>12. ASSUME FreshHelper PROVE Frames' /\ succeeded' = TRUE
  <2>1. messages' = <<>> /\ toHost' = <<>> /\ succeeded' = TRUE
    BY <1>12 DEF FreshHelper
  <2>2. Len(Stream') = 0
    BY <2>1 DEF Stream
  <2> QED BY <2>1, <2>2 DEF Frames
<1>13. CASE StartHelper \/ StopHelper
  <2>1. FreshHelper /\ (running' \/ driverPc' = "reboot")
    BY <1>13 DEF StartHelper, StopHelper, DriverGoto
  <2> QED BY <1>12, <2>1 DEF Mishaps
<1>14. CASE StartFails /\ mishaps' > 0
  <2>1. UNCHANGED Stream
    BY <1>14 DEF StartFails, Stream, channelVars
  <2> QED BY <1>3, <1>14, <2>1 DEF Mishaps
<1>15. CASE HelperDies /\ mishaps' > 0
  <2>1. toHost' = Append(toHost, Eof) /\ messages' = messages
    BY <1>15 DEF HelperDies
  <2>2. Stream' = Append(Stream, Eof) /\ Eof \in ToHostMessage
    BY <2>1, StreamAppends, FramesTyped
  <2>3. Sound(Eof)'
    BY <1>15 DEF Sound, Eof, Frame
  <2> QED BY <1>2, <1>15, <2>2, <2>3 DEF Mishaps
<1> QED
  BY <1>5, <1>7, <1>8, <1>10, <1>11, <1>13, <1>14, <1>15, NextKinds

\* Every step keeps what was drained or queued in its place.
LEMMA QueueKept == BaseInv /\ QueueInv /\ [Next]_vars => QueueInv'
<1> SUFFICES ASSUME BaseInv, QueueInv, [Next]_vars PROVE QueueInv'
  OBVIOUS
<1>1. CASE DriverAction
  BY <1>1, QueueSteps
<1>2. CASE UNCHANGED <<userVars, currentGeneration, jobs>>
  <2>1. PICK n : SplitAt(n)
    BY DEF QueueInv
  <2>2. SplitAt(n)'
    BY <1>2, <2>1, QueueSame DEF userVars
  <2> QED BY <1>2, <2>2 DEF QueueInv, userVars
<1>3. UNCHANGED driverVars \/ UNCHANGED vars => UNCHANGED <<userVars, currentGeneration, jobs>>
  BY DEF driverVars, vars
<1>4. StartHelper \/ StopHelper \/ StartFails \/ HelperDies =>
        UNCHANGED <<userVars, currentGeneration, jobs>>
  BY DEF StartHelper, StopHelper, StartFails, HelperDies
<1> QED BY <1>1, <1>2, <1>3, <1>4, NextCases

------------------------------------------------------------------------------
(* Where in an utterance the worker is, and of whom NVDA has heard.          *)

Place ==
  /\ driverPc \in {"boot", "send", "await", "feed", "settle", "idle"} => Event[pos] = "text"
  /\ driverPc = "notify" => Event[pos] = "index"
  /\ driverPc \in {"finish", "announce"} => pos = Len(Event) + 1
  /\ driverPc \in {"check", "enter"} => pos = 1

\* Every step keeps to the place.
LEMMA PlaceKept == BaseInv /\ Place /\ [Next]_vars => Place'
<1> SUFFICES ASSUME BaseInv, Place, [Next]_vars PROVE Place'
  OBVIOUS
<1> USE DEF channelVars, userVars, renderVars, playerVars, Rest, UserGoto, DriverGoto, Event
<1>0. /\ driverPc \in Rendering => pos \in Nat /\ pos <= Len(Event) + 1 /\ Len(Event) \in Nat
      /\ driverPc = "event" /\ pos <= Len(Event) => Event[pos] \in {"text", "index"}
  <2>1. driverPc \in Rendering =>
          /\ pos \in 1..(Len(Event) + 1)
          /\ Event \in Seq({"text", "index"})
    BY DriverAssumption DEF BaseInv, TypeOK, DriverTypeOK, DriverTyped, HasJob, Busy, JobRecord,
       Rendering
  <2>2. driverPc = "event" => driverPc \in Rendering
    BY DEF Rendering
  <2> QED BY <2>1, <2>2
<1>1. CASE NextEvent
  <2>1. UNCHANGED <<current, pos>> /\ driverPc = "event" /\ driverPc \in Rendering
    BY <1>1 DEF NextEvent, Rendering
  <2>2. CASE pos > Len(Event)
    <3>1. driverPc' = "finish" /\ pos = Len(Event) + 1
      BY <1>0, <1>1, <2>1, <2>2 DEF NextEvent
    <3> QED BY <2>1, <3>1 DEF Place
  <2>3. CASE ~(pos > Len(Event)) /\ Event[pos] = "text"
    <3>1. driverPc' \in {"boot", "leave"}
      BY <1>1, <2>3 DEF NextEvent, IfCurrent
    <3> QED BY <2>1, <2>3, <3>1 DEF Place
  <2>4. CASE ~(pos > Len(Event)) /\ Event[pos] # "text"
    <3>1. driverPc' \in {"notify", "leave"}
      BY <1>1, <2>4 DEF NextEvent, IfCurrent
    <3>2. Event[pos] = "index"
      BY <1>0, <2>1, <2>4
    <3> QED BY <2>1, <3>1, <3>2 DEF Place
  <2> QED BY <2>2, <2>3, <2>4
<1>2. CASE NextJob
  BY <1>2 DEF NextJob, Place
<1>3. CASE DriverAction /\ ~NextEvent /\ ~NextJob
  <2>1. CASE UNCHANGED <<current, pos, driverPc>>
    BY <2>1 DEF Place
  <2>2. CASE ~UNCHANGED <<current, pos, driverPc>>
    <3>1. \/ driverPc' \in {"exited", "get", "leave", "event", "restart", "loop"}
          \/ /\ UNCHANGED <<current, pos>>
             /\ \/ driverPc = "check" /\ driverPc' = "enter"
                \/ /\ driverPc \in {"boot", "send", "await", "feed", "settle", "idle"}
                   /\ driverPc' \in {"boot", "send", "await", "feed", "settle", "idle"}
                \/ driverPc = "finish" /\ driverPc' = "announce"
      <4>1. CASE AwaitMessage
        <5>1. Head(messages) \in ToHostMessage
          BY <4>1, StreamTyped, TailElements DEF AwaitMessage
        <5>2. Head(messages).type \in {"audio", "done", "error", "cancelled", "eof"}
          BY <5>1 DEF ToHostMessage
        <5> QED BY <4>1, <5>2 DEF AwaitMessage
      <4>2. CASE ~AwaitMessage
        BY <1>3, <2>2, <4>2 DEF DriverAction, UserCall, UserEnds, UserStep, DriverStep,
         SpeakUtterance, Pause, BeginCancel, Terminate, DrainJobs, PutSentinel,
         StopPlayer, JoinDriver, JoinTimesOut, SendCancel, SendSpeak, ReadFrame, TestStopping,
         CheckJob, EnterRender, NotifyIndex, AlreadyRunning, FeedPlayer,
         Settle, IdlePlayer, Finish, AnnounceDone, LeaveRender, AwaitTimesOut, IfCurrent
      <4> QED BY <4>1, <4>2
    <3> QED BY <3>1 DEF Place
  <2> QED BY <2>1, <2>2
<1>4. CASE UNCHANGED <<current, pos, driverPc>>
  BY <1>4 DEF Place
<1>5. CASE StartHelper
  BY <1>5 DEF StartHelper, Place
<1>6. CASE StopHelper
  BY <1>6 DEF StopHelper, Place
<1>7. CASE StartFails
  BY <1>7 DEF StartFails, Place
<1>8. UNCHANGED driverVars \/ UNCHANGED vars \/ HelperDies => UNCHANGED <<current, pos, driverPc>>
  BY DEF driverVars, vars, HelperDies
<1> QED BY <1>1, <1>2, <1>3, <1>4, <1>5, <1>6, <1>7, <1>8, NextCases

\* NVDA has heard of none but utterances begun.
OutBegun == \A i \in 1..Len(out) : out[i].utt \in Begun

\* NVDA hears of nothing that was not begun.
LEMMA OutBegunKept ==
  BaseInv /\ HeardInv /\ OutBegun /\ [Next]_vars => OutBegun'
<1> SUFFICES ASSUME BaseInv, HeardInv, OutBegun, [Next]_vars PROVE OutBegun'
  OBVIOUS
<1>1. Begun \subseteq Begun'
  <2>1. CASE DriverAction
    BY <2>1, BegunGrows DEF BaseInv, TypeOK, HeardInv
  <2>2. CASE UNCHANGED <<jobs, spokenAs>>
    BY <2>2 DEF Begun, Queued
  <2>3. UNCHANGED driverVars \/ UNCHANGED vars => UNCHANGED <<jobs, spokenAs>>
    BY DEF driverVars, vars
  <2>4. StartHelper \/ StopHelper \/ StartFails \/ HelperDies => UNCHANGED <<jobs, spokenAs>>
    BY DEF StartHelper, StopHelper, StartFails, HelperDies
  <2> QED BY <2>1, <2>2, <2>3, <2>4, NextCases
<1>2. CASE UNCHANGED out
  BY <1>1, <1>2 DEF OutBegun
<1>3. CASE driverPc \in {"notify", "announce", "feed"} /\ out' = Append(out, hand)
  <2>1. hand.utt \in Begun
    <3>1. CASE driverPc \in {"notify", "announce"}
      <4>1. hand.utt = current.utt
        BY <3>1 DEF BaseInv, DriverTyped, IndexItem, DoneItem
      <4> QED BY <3>1, <4>1 DEF HeardInv, HandBegun, HasJob, Busy
    <3>2. CASE driverPc = "feed"
      BY <3>2 DEF HeardInv, HandBegun
    <3> QED BY <1>3, <3>1, <3>2
  <2>2. hand \in Item
    BY <1>3 DEF BaseInv, DriverTyped, Item, AudioRecord, IndexItem, DoneItem, HasJob, Busy,
       JobRecord, TypeOK, DriverTypeOK, Rendering
  <2>3. /\ \A i \in 1..Len(out) : out'[i] = out[i]
        /\ out'[Len(out) + 1] = hand
        /\ \A i \in 1..Len(out') : i \in 1..Len(out) \/ i = Len(out) + 1
    BY <1>3, <2>2, AppendElements DEF HeardInv
  <2> QED BY <1>1, <2>1, <2>3 DEF OutBegun
<1>4. UNCHANGED vars => UNCHANGED out
  BY DEF vars, driverVars, playerVars
<1> QED BY <1>2, <1>3, <1>4, OutEffect

------------------------------------------------------------------------------
(* A text is in one place: in the channel to the helper, in its slot, with   *)
(* its worker, or answered.                                                  *)

Asking(x) == \E i \in 1..Len(toGuest) : toGuest[i].text = x
Worked(x) == workerPc \in Working /\ job = x
Carried(x) == \E i \in 1..Len(Stream) : Stream[i].text = x
InFlight(x) == Asking(x) \/ pendingJob = x \/ Worked(x) \/ Carried(x)

\* What the helper does with a text: it reads the request, takes it out of the
\* slot, works, or writes.
LEMMA GuestMoves ==
  ASSUME BaseInv, running, GuestAction, UNCHANGED <<driverVars, latest>>
  PROVE  \/ Takes /\ UNCHANGED offset
         \/ Starts /\ workerPc = "wait"
         \/ /\ UNCHANGED <<toGuest, toHost, pendingJob>>
            /\ workerPc' \in Working => workerPc \in Working /\ job' = job
         \/ \E m \in ToHostMessage :
              toHost' = Append(toHost, m) /\ UNCHANGED toGuest /\ GuestWrites(m)
<1> USE DEF channelVars, mainVars, workerVars, sharedVars, guestVars
<1>0. /\ NeverEnding /\ GuestTypeOK /\ ChannelTypeOK /\ OnlyRequests
  BY DEF BaseInv, TypeOK
<1>1. ASSUME UNCHANGED toHost
      PROVE  \/ Takes /\ UNCHANGED offset
             \/ Starts /\ workerPc = "wait"
             \/ /\ UNCHANGED <<toGuest, toHost, pendingJob>>
                /\ workerPc' \in Working => workerPc \in Working /\ job' = job
  <2>1. CASE ReadSpeak
    BY <2>1 DEF ReadSpeak, Receive, Takes
  <2>2. CASE ReadCancel
    BY <2>2 DEF ReadCancel, Receive, Takes
  <2>3. CASE ReadQuit \/ ReadBad \/ ReadEmpty
    <3>1. toGuest # <<>>
      BY <2>3 DEF ReadQuit, ReadBad, ReadEmpty, Receive
    <3>2. 1 \in 1..Len(toGuest) /\ Head(toGuest) = toGuest[1]
      BY <1>0, <3>1, TailElements DEF ChannelTypeOK
    <3> QED BY <1>0, <2>3, <3>2, ChannelAssumption DEF OnlyRequests, ReadQuit, ReadBad, ReadEmpty,
       Receive
  <2>4. CASE WaitTake
    BY <2>4 DEF WaitTake, Goto, Starts
  <2>5. CASE \/ NotifyOne \/ CompareActive \/ RaiseCancelling \/ ReportCancelled
             \/ StoreShuttingDown \/ AimAtActive \/ NotifyAll \/ JoinWorker
    BY <1>1, <2>5 DEF NotifyOne, CompareActive, RaiseCancelling, ReportCancelled, StoreShuttingDown,
       AimAtActive, NotifyAll, JoinWorker, Woken, Working, Engaged
  <2>6. CASE \/ CheckShutdown \/ WaitLeave \/ WaitPark \/ Park \/ Retire
    BY <2>6 DEF CheckShutdown, WaitLeave, WaitPark, Park, Retire, Goto, Working, Engaged
  <2>7. CASE \/ ClearCancelling \/ Activate \/ SelectVoice \/ ChunkLoop \/ Verdict \/ SelectFails
             \/ EngineFails
    BY <2>7 DEF ClearCancelling, Activate, SelectVoice, ChunkLoop, Verdict, SelectFails,
       EngineFails, Goto, Working, Engaged
  <2>8. CASE Callback
    BY <2>8 DEF Callback, Goto, Working, Engaged
  <2>9. CASE EmitAudio \/ Reply
    <3>1. PICK m : toHost' = Append(toHost, m)
      BY <2>9 DEF EmitAudio, Reply, SendToHost
    <3>2. toHost \in Seq(ToHostMessage)
      BY <1>0 DEF ChannelTypeOK
    <3>3. Len(Append(toHost, m)) # Len(toHost)
      BY <3>2
    <3> QED BY <1>1, <3>1, <3>3
  <2> QED BY <2>1, <2>2, <2>3, <2>4, <2>5, <2>6, <2>7, <2>8, <2>9 DEF GuestAction, MainStep,
     WorkerStep, WorkerMishap
<1> QED BY <1>1, GuestWritesOnly

\* The text of a frame written is the worker's, and it has left that text
\* when the frame is an answer.
LEMMA WritesOwn ==
  ASSUME BaseInv, NEW m \in ToHostMessage, GuestWrites(m), NEW x \in Text
  PROVE  /\ m.text = x => Worked(x)
         /\ m.text = x /\ m.type \in {"done", "error"} => ~Worked(x)'
         /\ Worked(x)' => Worked(x)
         /\ pendingJob' = pendingJob
<1>1. workerPc \in {"emit", "reply"} => workerPc \in Working
  BY DEF Working, Engaged
<1>2. x # NoText
  BY ChannelAssumption
<1> QED BY <1>1, <1>2 DEF GuestWrites, Frame, Worked, Working, Engaged, workerVars

\* A step of the helper brings no text under way.
LEMMA GuestKeepsTexts ==
  ASSUME BaseInv, running, GuestAction, UNCHANGED <<driverVars, latest>>, NEW x \in Text,
         InFlight(x)'
  PROVE  InFlight(x)
<1>0. /\ toGuest \in Seq(ToGuestMessage) /\ Stream \in Seq(ToHostMessage)
      /\ UNCHANGED messages /\ x # NoText
  BY StreamTyped, ChannelAssumption DEF BaseInv, TypeOK, ChannelTypeOK, driverVars
<1>1. CASE Takes
  <2>1. /\ toGuest # <<>> /\ Head(toGuest) = toGuest[1] /\ 1 \in 1..Len(toGuest)
        /\ \A i \in 1..Len(toGuest') : i + 1 \in 1..Len(toGuest) /\ toGuest'[i] = toGuest[i + 1]
    BY <1>0, <1>1, TailElements DEF Takes
  <2>2. UNCHANGED Stream
    BY <1>0, <1>1 DEF Takes, Stream
  <2>3. Asking(x)' => Asking(x)
    BY <2>1 DEF Asking
  <2>4. pendingJob' = x => pendingJob = x \/ Asking(x)
    BY <1>1, <2>1 DEF Asking, Takes
  <2>5. (Worked(x)' => Worked(x)) /\ (Carried(x)' => Carried(x))
    BY <1>1, <2>2 DEF Takes, Worked, Carried
  <2> QED BY <2>3, <2>4, <2>5 DEF InFlight
<1>2. CASE Starts
  <2>1. UNCHANGED <<Stream, toGuest>>
    BY <1>0, <1>2 DEF Starts, Stream
  <2> QED BY <1>0, <1>2, <2>1 DEF InFlight, Asking, Worked, Carried, Starts
<1>3. CASE /\ UNCHANGED <<toGuest, toHost, pendingJob>>
           /\ workerPc' \in Working => workerPc \in Working /\ job' = job
  <2>1. UNCHANGED <<Stream, toGuest>>
    BY <1>0, <1>3 DEF Stream
  <2> QED BY <1>3, <2>1 DEF InFlight, Asking, Worked, Carried
<1>4. ASSUME NEW m \in ToHostMessage, toHost' = Append(toHost, m), UNCHANGED toGuest, GuestWrites(m)
      PROVE  InFlight(x)
  <2>1. Stream' = Append(Stream, m)
    BY <1>0, <1>4, StreamAppends
  <2>2. /\ \A i \in 1..Len(Stream) : Stream'[i] = Stream[i]
        /\ Stream'[Len(Stream) + 1] = m
        /\ \A i \in 1..Len(Stream') : i \in 1..Len(Stream) \/ i = Len(Stream) + 1
    BY <1>0, <2>1, AppendElements
  <2>3. Carried(x)' => Carried(x) \/ m.text = x
    BY <2>2 DEF Carried
  <2>4. (Asking(x)' => Asking(x)) /\ (pendingJob' = x => pendingJob = x)
    BY <1>4, WritesOwn DEF Asking
  <2> QED BY <1>4, <2>3, <2>4, WritesOwn DEF InFlight
<1> QED BY <1>1, <1>2, <1>3, <1>4, GuestMoves

\* No text of the wanted generation is under way but the one waited for.
Only ==
  \A x \in Text : InFlight(x) =>
    /\ GenOf[x] <= currentGeneration
    /\ IsCurrent(GenOf[x]) /\ (running \/ Waiting) /\ driverPc # "restart" =>
         Waiting /\ x = CurrentText

\* A text under way is in one place; nothing of it follows its answer.
Once(x) ==
  /\ \A i, j \in 1..Len(toGuest) : toGuest[i].text = x /\ toGuest[j].text = x => i = j
  /\ Asking(x) => pendingJob # x /\ ~Worked(x) /\ ~Carried(x)
  /\ pendingJob = x => ~Worked(x) /\ ~Carried(x)
  /\ \A i \in 1..Len(Stream) :
       Stream[i].type \in {"done", "error"} /\ Stream[i].text = x =>
         ~Worked(x) /\ \A j \in 1..Len(Stream) : i < j => Stream[j].text # x

\* So it is with the request waited for.
Single == Waiting /\ IsCurrent(current.gen) /\ running => Once(CurrentText)

\* The driver brings a text under way only as its request.
LEMMA DriverKeepsTexts ==
  ASSUME BaseInv, DriverAction, UNCHANGED guestVars, NEW x \in Text, InFlight(x)'
  PROVE  \/ InFlight(x)
         \/ /\ driverPc = "send" /\ running /\ driverPc' = "await" /\ x = CurrentText
            /\ UNCHANGED <<current, pos, currentGeneration, stopping>>
<1>0. /\ toGuest \in Seq(ToGuestMessage) /\ Stream \in Seq(ToHostMessage) /\ x # NoText
      /\ UNCHANGED <<pendingJob, workerPc, job>>
  BY StreamTyped, ChannelAssumption DEF BaseInv, TypeOK, ChannelTypeOK, guestVars, sharedVars,
     workerVars
<1>1. Carried(x)' => Carried(x)
  <2>1. CASE UNCHANGED Stream
    BY <2>1 DEF Carried
  <2>2. CASE Stream # <<>> /\ Stream' = Tail(Stream)
    <3>1. \A i \in 1..Len(Stream') : i + 1 \in 1..Len(Stream) /\ Stream'[i] = Stream[i + 1]
      BY <1>0, <2>2, TailElements
    <3> QED BY <3>1 DEF Carried
  <2> QED BY <2>1, <2>2, StreamSteps
<1>2. ASSUME NEW m \in ToGuestMessage, SendToGuest(m)
      PROVE  Asking(x)' => Asking(x) \/ m.text = x
  <2>1. toGuest' = Append(toGuest, m)
    BY <1>2 DEF SendToGuest
  <2>2. /\ \A i \in 1..Len(toGuest) : toGuest'[i] = toGuest[i]
        /\ toGuest'[Len(toGuest) + 1] = m
        /\ \A i \in 1..Len(toGuest') : i \in 1..Len(toGuest) \/ i = Len(toGuest) + 1
    BY <1>0, <2>1, AppendElements
  <2> QED BY <2>2 DEF Asking
<1>3. (pendingJob' = x => pendingJob = x) /\ (Worked(x)' => Worked(x))
  BY <1>0 DEF Worked
<1>4. CASE UNCHANGED toGuest
  BY <1>1, <1>3, <1>4 DEF InFlight, Asking
<1>5. CASE /\ driverPc = "send" /\ running /\ SendToGuest(Speak(CurrentText)) /\ driverPc' = "await"
           /\ UNCHANGED <<current, pos, currentGeneration, stopping>>
  <2>1. Speak(CurrentText) \in ToGuestMessage /\ Speak(CurrentText).text = CurrentText
    BY <1>5, CurrentTextIs, FramesTyped DEF BaseInv, TypeOK
  <2>2. Asking(x)' => Asking(x) \/ x = CurrentText
    BY <1>2, <1>5, <2>1
  <2> QED BY <1>1, <1>3, <1>5, <2>2 DEF InFlight
<1>6. CASE userActive # None /\ SendToGuest(Cancel(userActive))
  <2>1. userActive \in Nat
    BY <1>6 DEF BaseInv, TypeOK, DriverTypeOK
  <2>2. Cancel(userActive) \in ToGuestMessage /\ Cancel(userActive).text = NoText
    BY <2>1, FramesTyped
  <2>3. Asking(x)' => Asking(x)
    BY <1>0, <1>2, <1>6, <2>2
  <2> QED BY <1>1, <1>3, <2>3 DEF InFlight
<1>7. \/ UNCHANGED toGuest
      \/ /\ driverPc = "send" /\ running /\ SendToGuest(Speak(CurrentText)) /\ driverPc' = "await"
         /\ UNCHANGED <<current, pos, currentGeneration, stopping>>
      \/ userActive # None /\ SendToGuest(Cancel(userActive))
  BY DriverWrites DEF userVars
<1> QED BY <1>4, <1>5, <1>6, <1>7

\* A driver that waits goes on waiting for the same text, or leaves it with a
\* frame, a closed player or a restart.
LEMMA WaitingSteps ==
  ASSUME BaseInv, DriverAction
  PROVE  /\ stopping => stopping'
         /\ driverPc = "restart" => driverPc' = "restart"
         /\ Waiting' => Waiting \/ (driverPc = "send" /\ running)
         /\ Waiting /\ Waiting' => UNCHANGED <<current, pos>>
         /\ Waiting /\ ~Waiting' =>
              \/ driverPc' = "restart"
              \/ driverPc = "feed" /\ userPc = "closed"
              \/ /\ AwaitMessage /\ Head(messages).gen = current.gen
                 /\ Head(messages).type \in {"done", "error", "cancelled"}
<1> USE DEF channelVars, userVars, renderVars, playerVars, Rest, UserGoto, DriverGoto, Waiting
<1>1. CASE AwaitMessage
  <2>1. Head(messages) \in ToHostMessage
    BY <1>1, StreamTyped, TailElements DEF AwaitMessage
  <2>2. Head(messages).type \in {"audio", "done", "error", "cancelled", "eof"}
    BY <2>1 DEF ToHostMessage
  <2> QED BY <1>1, <2>2 DEF AwaitMessage
<1>2. CASE SendSpeak
  BY <1>2 DEF SendSpeak
<1>3. CASE DriverAction /\ ~AwaitMessage /\ ~SendSpeak
  <2>1. /\ stopping => stopping'
        /\ driverPc = "restart" => driverPc' = "restart"
        /\ Waiting' => Waiting
    BY <1>3 DEF DriverAction, UserCall, UserEnds, UserStep, DriverStep, SpeakUtterance, Pause,
       BeginCancel, Terminate, DrainJobs, PutSentinel, NextJob,
       StopPlayer, JoinDriver, JoinTimesOut, SendCancel, ReadFrame, TestStopping,
       CheckJob, EnterRender, NextEvent, NotifyIndex, AlreadyRunning, FeedPlayer,
       Settle, IdlePlayer, Finish, AnnounceDone, LeaveRender, AwaitTimesOut, IfCurrent
  <2>2. Waiting /\ Waiting' => UNCHANGED <<current, pos>>
    BY <1>3 DEF DriverAction, UserCall, UserEnds, UserStep, DriverStep, SpeakUtterance, Pause,
       BeginCancel, Terminate, DrainJobs, PutSentinel, NextJob,
       StopPlayer, JoinDriver, JoinTimesOut, SendCancel, ReadFrame, TestStopping,
       CheckJob, EnterRender, NextEvent, NotifyIndex, AlreadyRunning, FeedPlayer,
       Settle, IdlePlayer, Finish, AnnounceDone, LeaveRender, AwaitTimesOut, IfCurrent
  <2>3. Waiting /\ ~Waiting' => driverPc' = "restart" \/ (driverPc = "feed" /\ userPc = "closed")
    BY <1>3 DEF DriverAction, UserCall, UserEnds, UserStep, DriverStep, SpeakUtterance, Pause,
       BeginCancel, Terminate, DrainJobs, PutSentinel, NextJob,
       StopPlayer, JoinDriver, JoinTimesOut, SendCancel, ReadFrame, TestStopping,
       CheckJob, EnterRender, NextEvent, NotifyIndex, AlreadyRunning, FeedPlayer,
       Settle, IdlePlayer, Finish, AnnounceDone, LeaveRender, AwaitTimesOut, IfCurrent
  <2> QED BY <2>1, <2>2, <2>3
<1> QED BY <1>1, <1>2, <1>3

\* The first frame, when it is of the wanted generation, is of the text
\* waited for.
LEMMA FirstIsAwaited ==
  ASSUME BaseInv, Frames, Only, AwaitMessage, IsCurrent(current.gen), messages # <<>>,
         Stream # <<>>, Head(messages) = Head(Stream), Head(messages).gen = current.gen
  PROVE  /\ Head(Stream) = Stream[1] /\ 1 \in 1..Len(Stream) /\ Stream[1] \in ToHostMessage
         /\ Stream[1].type \in {"audio", "done", "error", "eof"}
         /\ Stream[1].type # "eof" => Stream[1].text = CurrentText
<1>1. Stream[1] \in ToHostMessage /\ 1 \in 1..Len(Stream) /\ Head(Stream) = Stream[1]
  BY StreamTyped, TailElements
<1>2. Sound(Stream[1]) /\ current.gen = currentGeneration /\ driverPc = "await" /\ Waiting
  BY <1>1 DEF Frames, IsCurrent, AwaitMessage, Waiting
<1>3. Stream[1].type \in {"audio", "done", "error", "cancelled", "eof"}
  BY <1>1 DEF ToHostMessage
<1>4. Stream[1].type # "cancelled"
  <2>1. currentGeneration \in Nat
    BY DriverAssumption DEF BaseInv, TypeOK, DriverTypeOK
  <2> QED BY <1>1, <1>2, <2>1 DEF Sound
<1>5. ASSUME Stream[1].type \in {"audio", "done", "error"} PROVE Stream[1].text = CurrentText
  <2>1. Stream[1].text \in Text /\ GenOf[Stream[1].text] = current.gen
    BY <1>1, <1>2, <1>5 DEF Sound
  <2>2. Carried(Stream[1].text)
    BY <1>1 DEF Carried
  <2> QED BY <1>2, <2>1, <2>2 DEF Only, InFlight
<1> QED BY <1>1, <1>3, <1>4, <1>5

\* What is under way for the current generation stays the text waited for.
LEMMA OnlyKept ==
  BaseInv /\ Frames /\ QueueInv /\ Only /\ Single /\ [Next]_vars => Only'
<1> SUFFICES ASSUME BaseInv, Frames, QueueInv, Only, Single, [Next]_vars,
                    NEW x \in Text, InFlight(x)'
             PROVE  /\ GenOf[x] <= currentGeneration'
                    /\ IsCurrent(GenOf[x])' /\ (running' \/ Waiting') /\ driverPc' # "restart" =>
                         Waiting' /\ x = CurrentText'
  BY DEF Only
<1>0. /\ currentGeneration \in Nat /\ currentGeneration' \in Nat
      /\ currentGeneration <= currentGeneration' /\ GenOf[x] \in Nat
  BY CountsGrow, ChannelAssumption
<1>1. CASE running /\ GuestAction /\ UNCHANGED <<driverVars, latest>>
  <2>1. InFlight(x)
    BY <1>1, GuestKeepsTexts
  <2>2. UNCHANGED <<currentGeneration, stopping, running, driverPc, current, pos>>
    BY <1>1 DEF driverVars, userVars, renderVars
  <2> QED BY <2>1, <2>2 DEF Only, IsCurrent, Waiting, CurrentText
<1>2. CASE DriverAction /\ UNCHANGED guestVars
  <2>1. CASE /\ driverPc = "send" /\ running /\ driverPc' = "await" /\ x = CurrentText
             /\ UNCHANGED <<current, pos, currentGeneration, stopping>>
    <3>1. GenOf[x] = current.gen
      BY <2>1, CurrentTextIs DEF BaseInv, TypeOK
    <3>2. current.gen <= currentGeneration
      BY <2>1 DEF BaseInv, GenerationsSound, HasJob, Busy
    <3> QED BY <2>1, <3>1, <3>2 DEF Waiting, CurrentText
  <2>2. CASE InFlight(x)
    <3>1. GenOf[x] <= currentGeneration
      BY <2>2 DEF Only
    <3>2. ASSUME IsCurrent(GenOf[x])', running' \/ Waiting', driverPc' # "restart"
          PROVE  Waiting' /\ x = CurrentText'
      <4>1. IsCurrent(GenOf[x]) /\ driverPc # "restart" /\ GenOf[x] = currentGeneration
        BY <1>0, <1>2, <3>1, <3>2, WaitingSteps DEF IsCurrent
      <4>2. running \/ Waiting
        BY <1>2, <3>2, DriverReads, WaitingSteps
      <4>3. Waiting /\ x = CurrentText
        BY <2>2, <4>1, <4>2 DEF Only
      <4>4. GenOf[x] = current.gen /\ IsCurrent(current.gen)
        BY <4>1, <4>3, CurrentTextIs DEF BaseInv, TypeOK, Waiting
      <4>5. CASE Waiting'
        BY <1>2, <4>3, <4>5, WaitingSteps DEF CurrentText
      <4>6. CASE ~Waiting'
        <5>1. running
          BY <1>2, <3>2, <4>6, DriverReads
        <5>2. ~(userPc = "closed")
          BY <4>1 DEF QueueInv, IsCurrent
        <5>3. /\ AwaitMessage /\ Head(messages).gen = current.gen
              /\ Head(messages).type \in {"done", "error", "cancelled"}
          BY <1>2, <3>2, <4>3, <4>6, <5>2, WaitingSteps
        <5>4. /\ messages # <<>> /\ Stream # <<>> /\ Head(messages) = Head(Stream)
              /\ Stream' = Tail(Stream)
          BY <1>2, <5>3, StreamSteps
        <5>5. /\ Stream[1].type \in {"done", "error"} /\ Stream[1].text = CurrentText
              /\ 1 \in 1..Len(Stream)
          BY <4>4, <5>3, <5>4, FirstIsAwaited
        <5>6. \A i \in 1..Len(Stream') :
                i + 1 \in 1..Len(Stream) /\ Stream'[i] = Stream[i + 1] /\ 1 < i + 1
          BY <5>4, StreamTyped, TailElements
        <5>7. Carried(CurrentText)
          BY <5>5 DEF Carried
        <5>8. UNCHANGED <<toGuest, pendingJob, workerPc, job>>
          BY <1>2, <5>3 DEF AwaitMessage, channelVars, guestVars, workerVars, sharedVars
        <5>9. ~Asking(x) /\ pendingJob # x /\ ~Worked(x)
          BY <4>3, <4>4, <5>1, <5>5, <5>7 DEF Single, Once
        <5>10. ~Carried(x)'
          BY <4>3, <4>4, <5>1, <5>5, <5>6 DEF Single, Once, Carried
        <5>11. ~InFlight(x)'
          BY <5>8, <5>9, <5>10 DEF InFlight, Asking, Worked
        <5> QED BY <5>11
      <4> QED BY <4>5, <4>6
    <3> QED BY <1>0, <3>1, <3>2
  <2> QED BY <1>2, <2>1, <2>2, DriverKeepsTexts
<1>3. CASE StartHelper \/ StopHelper
  <2>1. /\ toGuest' = <<>> /\ toHost' = <<>> /\ messages' = <<>> /\ pendingJob' = NoText
        /\ workerPc' = "check"
    BY <1>3 DEF StartHelper, StopHelper, FreshHelper
  <2>2. Len(Stream') = 0 /\ Len(toGuest') = 0
    BY <2>1 DEF Stream
  <2> QED BY <2>1, <2>2, ChannelAssumption DEF InFlight, Asking, Worked, Carried, Working, Engaged
<1>4. CASE StartFails
  <2>1. /\ UNCHANGED <<channelVars, guestVars, messages, stopping, currentGeneration, running>>
        /\ driverPc \in {"coldstart", "boot", "reboot"} /\ driverPc' \in {"loop", "leave"}
    BY <1>4 DEF StartFails, DriverGoto, userVars
  <2>2. InFlight(x)
    BY <2>1 DEF channelVars, guestVars, sharedVars, workerVars, InFlight, Asking, Worked, Carried,
       Stream
  <2> QED BY <2>1, <2>2 DEF Only, IsCurrent, Waiting
<1>5. CASE HelperDies
  <2>1. /\ UNCHANGED <<guestVars, messages, stopping, currentGeneration, driverPc, current, pos>>
        /\ toGuest' = <<>> /\ toHost' = Append(toHost, Eof) /\ running' = FALSE /\ running
    BY <1>5 DEF HelperDies, userVars, renderVars
  <2>2. Stream' = Append(Stream, Eof) /\ Eof \in ToHostMessage /\ Eof.text = NoText
    BY <2>1, StreamAppends, FramesTyped
  <2>3. /\ \A i \in 1..Len(Stream) : Stream'[i] = Stream[i]
        /\ Stream'[Len(Stream) + 1] = Eof
        /\ \A i \in 1..Len(Stream') : i \in 1..Len(Stream) \/ i = Len(Stream) + 1
    BY <2>2, StreamTyped, AppendElements
  <2>4. Carried(x)' => Carried(x)
    BY <2>2, <2>3, ChannelAssumption DEF Carried
  <2>5. ~Asking(x)'
    BY <2>1 DEF Asking
  <2>6. InFlight(x)
    BY <2>1, <2>4, <2>5 DEF InFlight, Worked, guestVars, sharedVars, workerVars
  <2> QED BY <2>1, <2>6 DEF Only, IsCurrent, Waiting, CurrentText
<1>6. CASE UNCHANGED vars
  <2>1. UNCHANGED <<channelVars, guestVars, messages, stopping, currentGeneration, running,
                    driverPc, current, pos>>
    BY <1>6 DEF vars, driverVars, userVars, renderVars
  <2>2. InFlight(x)
    BY <2>1 DEF channelVars, guestVars, sharedVars, workerVars, InFlight, Asking, Worked, Carried,
       Stream
  <2> QED BY <2>1, <2>2 DEF Only, IsCurrent, Waiting, CurrentText
<1> QED BY <1>1, <1>2, <1>3, <1>4, <1>5, <1>6, NextCases

\* No step of the helper makes two of a text that is in one place.
LEMMA GuestKeepsOnce ==
  ASSUME BaseInv, running, GuestAction, UNCHANGED <<driverVars, latest>>, NEW x \in Text, Once(x)
  PROVE  Once(x)'
<1>0. /\ toGuest \in Seq(ToGuestMessage) /\ Stream \in Seq(ToHostMessage) /\ Len(Stream) \in Nat
      /\ UNCHANGED messages /\ x # NoText
  BY StreamTyped, ChannelAssumption DEF BaseInv, TypeOK, ChannelTypeOK, driverVars
<1>1. CASE Takes
  <2>1. /\ toGuest # <<>> /\ Head(toGuest) = toGuest[1] /\ 1 \in 1..Len(toGuest)
        /\ \A i \in 1..Len(toGuest') :
             i \in Nat /\ i > 0 /\ i + 1 \in 1..Len(toGuest) /\ toGuest'[i] = toGuest[i + 1]
    BY <1>0, <1>1, TailElements DEF Takes
  <2>2. UNCHANGED Stream /\ UNCHANGED <<job, workerPc>>
    BY <1>0, <1>1 DEF Takes, Stream
  <2>3. (Asking(x)' => Asking(x) /\ toGuest[1].text # x)
    <3> SUFFICES ASSUME NEW i \in 1..Len(toGuest'), toGuest'[i].text = x
                 PROVE  Asking(x) /\ toGuest[1].text # x
      BY DEF Asking
    <3>1. i + 1 \in 1..Len(toGuest) /\ toGuest[i + 1].text = x /\ i + 1 # 1
      BY <2>1
    <3> QED BY <2>1, <3>1 DEF Once, Asking
  <2>4. pendingJob' = x => pendingJob = x \/ toGuest[1].text = x
    BY <1>1, <2>1 DEF Takes
  <2>5. toGuest[1].text = x => Asking(x)
    BY <2>1 DEF Asking
  <2>6. Worked(x)' = Worked(x) /\ Carried(x)' = Carried(x)
    BY <2>2 DEF Worked, Carried
  <2>7. \A i, j \in 1..Len(toGuest') : toGuest'[i].text = x /\ toGuest'[j].text = x => i = j
    <3> SUFFICES ASSUME NEW i \in 1..Len(toGuest'), NEW j \in 1..Len(toGuest'),
                        toGuest'[i].text = x, toGuest'[j].text = x
                 PROVE  i = j
      OBVIOUS
    <3>1. i + 1 = j + 1
      BY <2>1 DEF Once
    <3> QED BY <2>1, <3>1
  <2> QED BY <2>2, <2>3, <2>4, <2>5, <2>6, <2>7 DEF Once
<1>2. CASE Starts /\ workerPc = "wait"
  <2>1. UNCHANGED <<Stream, toGuest>> /\ pendingJob' # x
    BY <1>0, <1>2 DEF Starts, Stream
  <2>2. Worked(x)' => pendingJob = x
    BY <1>2 DEF Starts, Worked
  <2>3. Asking(x)' = Asking(x) /\ Carried(x)' = Carried(x)
    BY <2>1 DEF Asking, Carried
  <2>4. \A i \in 1..Len(Stream) : Stream[i].text = x => Carried(x)
    BY DEF Carried
  <2> QED BY <2>1, <2>2, <2>3, <2>4 DEF Once
<1>3. CASE /\ UNCHANGED <<toGuest, toHost, pendingJob>>
           /\ workerPc' \in Working => workerPc \in Working /\ job' = job
  <2>1. UNCHANGED <<Stream, toGuest, pendingJob>>
    BY <1>0, <1>3 DEF Stream
  <2>2. /\ Asking(x)' = Asking(x) /\ Carried(x)' = Carried(x)
        /\ Worked(x)' => Worked(x)
    BY <1>3, <2>1 DEF Asking, Carried, Worked
  <2> QED BY <2>1, <2>2 DEF Once
<1>4. ASSUME NEW m \in ToHostMessage, toHost' = Append(toHost, m), UNCHANGED toGuest, GuestWrites(m)
      PROVE  Once(x)'
  <2>1. Stream' = Append(Stream, m)
    BY <1>0, <1>4, StreamAppends
  <2>2. /\ \A i \in 1..Len(Stream) : Stream'[i] = Stream[i]
        /\ Stream'[Len(Stream) + 1] = m
        /\ \A i \in 1..Len(Stream') :
             i \in Nat /\ (i \in 1..Len(Stream) \/ (i = Len(Stream) + 1 /\ Stream'[i] = m))
    BY <1>0, <2>1, AppendElements
  <2>3. Carried(x)' => Carried(x) \/ m.text = x
    BY <2>2 DEF Carried
  <2>4. /\ m.text = x => Worked(x)
        /\ m.text = x /\ m.type \in {"done", "error"} => ~Worked(x)'
        /\ Worked(x)' => Worked(x)
        /\ UNCHANGED <<pendingJob, toGuest>>
    BY <1>4, WritesOwn
  <2>5. Asking(x)' = Asking(x)
    BY <2>4 DEF Asking
  <2>6. ASSUME NEW i \in 1..Len(Stream'), Stream'[i].type \in {"done", "error"}, Stream'[i].text = x
        PROVE  ~Worked(x)' /\ \A j \in 1..Len(Stream') : i < j => Stream'[j].text # x
    <3>1. CASE i \in 1..Len(Stream)
      <4>1. ~Worked(x) /\ \A j \in 1..Len(Stream) : i < j => Stream[j].text # x
        BY <2>2, <2>6, <3>1 DEF Once
      <4> QED BY <2>2, <2>4, <4>1
    <3>2. CASE i = Len(Stream) + 1 /\ Stream'[i] = m
      <4>1. \A j \in 1..Len(Stream') : ~(i < j)
        BY <1>0, <2>2, <3>2
      <4> QED BY <2>4, <2>6, <3>2, <4>1
    <3> QED BY <2>2, <3>1, <3>2
  <2> QED BY <2>3, <2>4, <2>5, <2>6 DEF Once
<1> QED BY <1>1, <1>2, <1>3, <1>4, GuestMoves

\* A frame leaves the stream: what is in one place stays there.
LEMMA ReadKeepsOnce ==
  ASSUME NEW x, Once(x), Stream \in Seq(ToHostMessage), Len(Stream) \in Nat,
         UNCHANGED <<toGuest, pendingJob, workerPc, job>>,
         UNCHANGED Stream \/ (Stream # <<>> /\ Stream' = Tail(Stream))
  PROVE  Once(x)'
<1>1. Asking(x)' = Asking(x) /\ Worked(x)' = Worked(x)
  BY DEF Asking, Worked
<1>2. CASE UNCHANGED Stream
  BY <1>1, <1>2 DEF Once, Carried
<1>3. CASE Stream # <<>> /\ Stream' = Tail(Stream)
  <2>1. \A i \in 1..Len(Stream') :
          i \in Nat /\ i + 1 \in 1..Len(Stream) /\ Stream'[i] = Stream[i + 1]
    BY <1>3, TailElements
  <2>2. Carried(x)' => Carried(x)
    BY <2>1 DEF Carried
  <2>3. ASSUME NEW i \in 1..Len(Stream'), Stream'[i].type \in {"done", "error"}, Stream'[i].text = x
        PROVE  ~Worked(x) /\ \A j \in 1..Len(Stream') : i < j => Stream'[j].text # x
    <3>1. /\ i + 1 \in 1..Len(Stream) /\ Stream[i + 1].text = x
          /\ Stream[i + 1].type \in {"done", "error"}
      BY <2>1, <2>3
    <3>2. ~Worked(x) /\ \A j \in 1..Len(Stream) : i + 1 < j => Stream[j].text # x
      BY <3>1 DEF Once
    <3>3. ASSUME NEW j \in 1..Len(Stream'), i < j PROVE Stream'[j].text # x
      <4>1. j + 1 \in 1..Len(Stream) /\ i + 1 < j + 1 /\ Stream'[j] = Stream[j + 1]
        BY <2>1, <3>3
      <4> QED BY <3>2, <4>1
    <3> QED BY <3>2, <3>3
  <2> QED BY <1>1, <2>2, <2>3 DEF Once
<1> QED BY <1>2, <1>3

\* A request is sent when nothing of its generation is under way.
LEMMA RequestFirst ==
  ASSUME BaseInv, Only, driverPc = "send", IsCurrent(current.gen), running
  PROVE  ~InFlight(CurrentText) /\ CurrentText \in Text
<1>1. CurrentText \in Text /\ GenOf[CurrentText] = current.gen
  BY CurrentTextIs DEF BaseInv, TypeOK
<1> QED BY <1>1 DEF Only, Waiting

\* The driver comes to wait for an answer by asking, and while it waits for a
\* wanted one it writes nothing.
LEMMA DriverWaits ==
  ASSUME BaseInv, DriverAction, Waiting', IsCurrent(current.gen)'
  PROVE  /\ IsCurrent(current.gen) /\ UNCHANGED <<current, pos, running>>
         /\ \/ Waiting /\ UNCHANGED toGuest
            \/ /\ SendSpeak /\ SendToGuest(Speak(CurrentText)) /\ driverPc' = "await"
               /\ UNCHANGED <<messages, toHost, out>> /\ driverPc = "send" /\ running
<1>0. /\ running' = running /\ currentGeneration \in Nat
      /\ currentGeneration' \in {currentGeneration, currentGeneration + 1}
  BY DriverReads, GenerationGrows, DriverAssumption DEF BaseInv, TypeOK, DriverTypeOK
<1>1. CASE Waiting
  <2>1. UNCHANGED <<current, pos>> /\ ~stopping
    BY <1>1, WaitingSteps DEF IsCurrent
  <2>2. current.gen <= currentGeneration /\ current.gen \in Nat
    BY <1>1, DriverAssumption
    DEF BaseInv, GenerationsSound, HasJob, Busy, Waiting, DriverTyped, JobRecord
  <2>3. IsCurrent(current.gen)
    BY <1>0, <2>1, <2>2 DEF IsCurrent
  <2>4. ~(userPc = "send")
    BY <1>1, <2>2, <2>3 DEF BaseInv, CancelsOlder, IsCurrent, Waiting, HasJob, Busy
  <2>5. UNCHANGED toGuest
    BY <1>1, <2>4, DriverWrites DEF Waiting
  <2> QED BY <1>0, <1>1, <2>1, <2>3, <2>5
<1>2. CASE ~Waiting
  <2>1. driverPc = "send" /\ driverPc' # driverPc /\ running
    BY <1>2, WaitingSteps DEF Waiting
  <2>2. SendSpeak
    BY <2>1 DEF DriverAction, UserCall, UserEnds, UserStep, DriverStep,
       SpeakUtterance, Pause, Terminate, BeginCancel, DrainJobs, StopPlayer,
       PutSentinel, JoinDriver, JoinTimesOut, ReadFrame, TestStopping, NextJob,
       CheckJob, EnterRender, NextEvent, NotifyIndex, AlreadyRunning,
       AwaitMessage, FeedPlayer, Settle, IdlePlayer, Finish, AnnounceDone,
       LeaveRender, AwaitTimesOut, SendCancel, renderVars, UserGoto, DriverGoto
  <2>3. /\ SendToGuest(Speak(CurrentText)) /\ driverPc' = "await"
        /\ UNCHANGED <<messages, toHost, current, pos, currentGeneration, stopping, out>>
    BY <2>1, <2>2 DEF SendSpeak, Rest, userVars, playerVars
  <2> QED BY <1>0, <2>1, <2>2, <2>3 DEF IsCurrent
<1> QED BY <1>1, <1>2

\* The request waited for stays in one place.
LEMMA SingleKept == BaseInv /\ Only /\ Single /\ [Next]_vars => Single'
<1> SUFFICES ASSUME BaseInv, Only, Single, [Next]_vars,
                    Waiting', IsCurrent(current.gen)', running'
             PROVE  Once(CurrentText)'
  BY DEF Single
<1>0. /\ toGuest \in Seq(ToGuestMessage) /\ Stream \in Seq(ToHostMessage) /\ Len(Stream) \in Nat
  BY StreamTyped DEF BaseInv, TypeOK, ChannelTypeOK
<1>a. ASSUME Waiting PROVE CurrentText \in Text
  BY <1>a, CurrentTextIs DEF BaseInv, TypeOK, Waiting
<1>1. CASE running /\ GuestAction /\ UNCHANGED <<driverVars, latest>>
  <2>1. Waiting /\ IsCurrent(current.gen) /\ CurrentText' = CurrentText
    BY <1>1 DEF driverVars, renderVars, userVars, Waiting, IsCurrent, CurrentText
  <2> DEFINE x == CurrentText
  <2>2. x \in Text /\ Once(x) /\ x' = x
    BY <1>1, <1>a, <2>1 DEF Single
  <2> HIDE DEF x
  <2>3. \A y \in Text : Once(y) => Once(y)'
    BY <1>1, GuestKeepsOnce
  <2>4. \A y : y = CurrentText' /\ Once(y)' => Once(CurrentText)'
    BY DEF Once, Asking, Worked, Carried
  <2> QED BY <2>1, <2>2, <2>3, <2>4 DEF x
<1>2. CASE DriverAction /\ UNCHANGED guestVars
  <2>0. UNCHANGED <<pendingJob, workerPc, job>> /\ CurrentText' = CurrentText
    BY <1>2, DriverWaits DEF guestVars, sharedVars, workerVars, CurrentText
  <2>1. CASE Waiting /\ UNCHANGED toGuest
    <3>1. Once(CurrentText)
      BY <1>2, <2>1, DriverWaits DEF Single
    <3>2. UNCHANGED Stream \/ (Stream # <<>> /\ Stream' = Tail(Stream))
      BY <1>2, StreamSteps
    <3>3. \A y : Once(y) => Once(y)'
      BY <1>0, <2>0, <2>1, <3>2, ReadKeepsOnce
    <3>4. \A y : y = CurrentText' /\ Once(y)' => Once(CurrentText)'
      BY DEF Once, Asking, Worked, Carried
    <3> QED BY <2>0, <3>1, <3>3, <3>4
  <2>2. CASE /\ SendSpeak /\ SendToGuest(Speak(CurrentText)) /\ driverPc' = "await"
             /\ UNCHANGED <<messages, toHost, out>> /\ driverPc = "send" /\ running
    <3> DEFINE x == CurrentText
    <3>1. ~InFlight(x) /\ x \in Text /\ x' = x
      BY <1>2, <2>0, <2>2, DriverWaits, RequestFirst
    <3>2. toGuest' = Append(toGuest, Speak(x))
      BY <2>2 DEF SendToGuest
    <3> HIDE DEF x
    <3>3. Speak(x) \in ToGuestMessage /\ Speak(x).text = x
      BY <3>1, FramesTyped
    <3>4. /\ \A i \in 1..Len(toGuest) : toGuest'[i] = toGuest[i]
          /\ \A i \in 1..Len(toGuest') : i \in 1..Len(toGuest) \/ i = Len(toGuest) + 1
      BY <1>0, <3>2, <3>3, AppendElements
    <3>5. \A i, j \in 1..Len(toGuest') : toGuest'[i].text = x /\ toGuest'[j].text = x => i = j
      BY <3>1, <3>4 DEF InFlight, Asking
    <3>6. UNCHANGED Stream
      BY <2>2 DEF Stream
    <3>7. /\ pendingJob' # x /\ ~(workerPc' \in Working /\ job' = x)
          /\ \A i \in 1..Len(Stream') : Stream'[i].text # x
      BY <2>0, <3>1, <3>6 DEF InFlight, Worked, Carried
    <3> QED BY <2>0, <3>5, <3>7 DEF Once, Asking, Worked, Carried, x
  <2> QED BY <1>2, <2>1, <2>2, DriverWaits
<1>3. CASE StartHelper \/ StopHelper \/ HelperDies \/ StartFails
  <2>1. ~Waiting' \/ ~running'
    BY <1>3 DEF StartHelper, StopHelper, HelperDies, StartFails, Waiting, DriverGoto
  <2> QED BY <2>1
<1>4. CASE UNCHANGED vars
  <2>1. UNCHANGED <<toGuest, Stream, pendingJob, workerPc, job, running, driverPc, current, pos,
                    stopping, currentGeneration>>
    BY <1>4 DEF vars, channelVars, guestVars, sharedVars, workerVars, driverVars, renderVars,
       userVars, Stream
  <2>2. Once(CurrentText)
    BY <2>1 DEF Single, Waiting, IsCurrent
  <2> QED BY <2>1, <2>2 DEF Once, Asking, Worked, Carried, CurrentText
<1> QED BY <1>1, <1>2, <1>3, <1>4, NextCases

------------------------------------------------------------------------------
(* The pieces of the text waited for, counted: those already taken from the  *)
(* stream, those in it, and the next one of the worker.                      *)

Speaks == Engaged \ {"retire"}

\* A job that is still wanted is not silenced.
LEMMA NotSilenced ==
  ASSUME BaseInv, running, workerPc \in Engaged, IsCurrent(GenOf[job])
  PROVE  ~cancelling /\ activeGeneration # 0 /\ job \in Text /\ ~shuttingDown
<1>1. ~cancelling /\ ~shuttingDown
  <2> SUFFICES ASSUME cancelling PROVE FALSE
    BY DEF BaseInv, NeverEnding
  <2>1. GenOf[job] \in 1 .. (currentGeneration - 1)
    BY DEF BaseInv, GuestSound, G!IInv, G!Guarded, G!SparesOthers, G!Engaged,
       Engaged, NeverEnding
  <2> QED BY <2>1, DriverAssumption DEF IsCurrent, BaseInv, TypeOK, DriverTypeOK
<1>2. job \in Text
  BY DEF BaseInv, TypeOK, GuestTypeOK
<1>3. activeGeneration = GenOf[job]
  BY DEF BaseInv, GuestSound, G!IInv, G!Tagged, G!ActiveIsJob, G!Engaged, Engaged
<1>4. activeGeneration # 0
  BY <1>2, <1>3, ChannelAssumption
<1> QED BY <1>1, <1>2, <1>4

\* Without writing, the worker comes to a wanted text from its slot, begins it
\* at its first piece and ends it after its last.
LEMMA WorkerCounts ==
  ASSUME BaseInv, running, GuestAction, UNCHANGED <<driverVars, latest, toHost>>,
         NEW x \in Text, IsCurrent(GenOf[x]), job' = x
  PROVE  /\ workerPc' \in {"clear", "activate"} =>
              (workerPc \in {"clear", "activate"} /\ job = x) \/ pendingJob = x
         /\ workerPc' \in Speaks =>
              \/ workerPc = "activate" /\ job = x /\ offset' = 0 /\ workerPc' = "select"
              \/ /\ workerPc \in Speaks /\ job = x /\ offset' = offset
                 /\ workerPc' \in {"verdict", "reply"} /\ succeeded' =>
                      offset = Chunks \/ (workerPc \in {"verdict", "reply"} /\ succeeded)
<1> USE DEF channelVars, mainVars, workerVars, sharedVars, guestVars, Speaks, Engaged, Goto
<1>0. /\ GuestTypeOK /\ toHost \in Seq(ToHostMessage) /\ toHost' = toHost /\ x # NoText
  BY ChannelAssumption DEF BaseInv, TypeOK, ChannelTypeOK
<1>1. CASE MainStep
  <2>1. /\ workerPc' \in {workerPc, "wait"} /\ UNCHANGED <<job, offset, succeeded>>
    BY <1>1 DEF MainStep, ReadSpeak, ReadEmpty, ReadCancel, ReadQuit, ReadBad, NotifyOne,
       CompareActive, RaiseCancelling, ReportCancelled, StoreShuttingDown, AimAtActive, NotifyAll,
       JoinWorker, Woken
  <2> QED BY <2>1
<1>2. CASE WaitTake
  BY <1>2 DEF WaitTake
<1>3. CASE CheckShutdown \/ WaitLeave \/ WaitPark \/ Park \/ Retire
  BY <1>0, <1>3 DEF CheckShutdown, WaitLeave, WaitPark, Park, Retire
<1>4. CASE ClearCancelling \/ Activate \/ SelectVoice \/ SelectFails \/ EngineFails
  BY <1>4 DEF ClearCancelling, Activate, SelectVoice, SelectFails, EngineFails
<1>5. CASE ChunkLoop
  <2>1. /\ UNCHANGED <<job, offset, succeeded>> /\ workerPc = "loop"
        /\ workerPc' \in {"callback", "verdict"}
    BY <1>5 DEF ChunkLoop
  <2>2. ~cancelling
    BY <2>1, NotSilenced
  <2>3. workerPc' = "verdict" => offset = Chunks
    BY <1>0, <1>5, <2>2, ChannelAssumption DEF ChunkLoop, GuestTypeOK
  <2> QED BY <2>1, <2>3
<1>6. CASE Callback
  <2>1. job' = job /\ workerPc = "callback"
    BY <1>6 DEF Callback
  <2>2. ~(activeGeneration = 0 \/ cancelling)
    BY <2>1, NotSilenced
  <2>3. UNCHANGED <<offset, succeeded>> /\ workerPc' = "emit"
    BY <1>6, <2>2 DEF Callback
  <2> QED BY <2>1, <2>3
<1>7. CASE Verdict
  <2>1. /\ workerPc = "verdict" /\ UNCHANGED <<job, offset, succeeded>>
        /\ workerPc' \in {"retire", "reply"}
    BY <1>7 DEF Verdict
  <2> QED BY <2>1
<1>8. CASE EmitAudio \/ Reply
  <2>1. \E m : toHost' = Append(toHost, m)
    BY <1>8 DEF EmitAudio, Reply, SendToHost
  <2> QED BY <1>0, <2>1
<1> QED BY <1>1, <1>2, <1>3, <1>4, <1>5, <1>6, <1>7, <1>8 DEF GuestAction, WorkerStep, WorkerMishap

\* The worker has written n pieces of the text.
WorkerAt(n, x) ==
  running =>
    /\ Asking(x) \/ pendingJob = x \/ (workerPc \in {"clear", "activate"} /\ job = x) => n = 0
    /\ workerPc \in Speaks /\ job = x =>
         n = offset /\ (workerPc \in {"verdict", "reply"} /\ succeeded => n = Chunks)

\* The next frame about a wanted text is its next piece, or its answer after
\* the last.
LEMMA WorkerAtKept ==
  ASSUME BaseInv, running, GuestAction, UNCHANGED <<driverVars, latest>>,
         NEW x \in Text, IsCurrent(GenOf[x]), Once(x), NEW n \in 0..Chunks, WorkerAt(n, x)
  PROVE  \/ UNCHANGED toHost /\ WorkerAt(n, x)'
         \/ \E m \in ToHostMessage :
              /\ toHost' = Append(toHost, m)
              /\ \/ /\ m.type = "audio" /\ m.text = x /\ m.chunk = n + 1 /\ n + 1 \in 0..Chunks
                    /\ WorkerAt(n + 1, x)'
                 \/ /\ ~(m.type = "audio" /\ m.text = x)
                    /\ m.type = "done" /\ m.text = x => n = Chunks
                    /\ WorkerAt(n, x)'
<1> USE DEF Speaks, Engaged
<1>0. /\ toGuest \in Seq(ToGuestMessage) /\ x # NoText /\ Chunks \in Nat
  BY ChannelAssumption DEF BaseInv, TypeOK, ChannelTypeOK
<1>a. running' = running
  BY DEF driverVars
<1>1. ASSUME UNCHANGED toHost, Asking(x)' => Asking(x),
             pendingJob' = x => pendingJob = x \/ Asking(x)
      PROVE  WorkerAt(n, x)'
  <2>1. CASE job' = x
    <3>1. /\ workerPc' \in {"clear", "activate"} =>
               (workerPc \in {"clear", "activate"} /\ job = x) \/ pendingJob = x
          /\ workerPc' \in Speaks =>
               \/ workerPc = "activate" /\ job = x /\ offset' = 0 /\ workerPc' = "select"
               \/ /\ workerPc \in Speaks /\ job = x /\ offset' = offset
                  /\ workerPc' \in {"verdict", "reply"} /\ succeeded' =>
                       offset = Chunks \/ (workerPc \in {"verdict", "reply"} /\ succeeded)
      BY <1>1, <2>1, WorkerCounts
    <3> QED BY <1>1, <2>1, <3>1 DEF WorkerAt
  <2>2. CASE job' # x
    BY <1>1, <2>2 DEF WorkerAt
  <2> QED BY <2>1, <2>2
<1>2. CASE Takes
  <2>1. /\ toGuest # <<>> /\ Head(toGuest) = toGuest[1] /\ 1 \in 1..Len(toGuest)
        /\ \A i \in 1..Len(toGuest') : i + 1 \in 1..Len(toGuest) /\ toGuest'[i] = toGuest[i + 1]
    BY <1>0, <1>2, TailElements DEF Takes
  <2>2. Asking(x)' => Asking(x)
    BY <2>1 DEF Asking
  <2>3. pendingJob' = x => pendingJob = x \/ Asking(x)
    BY <1>2, <2>1 DEF Asking, Takes
  <2>4. UNCHANGED toHost
    BY <1>2 DEF Takes
  <2> QED BY <1>1, <2>2, <2>3, <2>4
<1>3. CASE Starts
  BY <1>0, <1>1, <1>3 DEF Starts, Asking
<1>4. CASE UNCHANGED <<toGuest, toHost, pendingJob>>
  BY <1>1, <1>4 DEF Asking
<1>5. ASSUME NEW m \in ToHostMessage, toHost' = Append(toHost, m), UNCHANGED toGuest, GuestWrites(m)
      PROVE  \/ /\ m.type = "audio" /\ m.text = x /\ m.chunk = n + 1 /\ n + 1 \in 0..Chunks
                /\ WorkerAt(n + 1, x)'
             \/ /\ ~(m.type = "audio" /\ m.text = x)
                /\ m.type = "done" /\ m.text = x => n = Chunks
                /\ WorkerAt(n, x)'
  <2>1. Asking(x)' = Asking(x)
    BY <1>5 DEF Asking
  <2>2. CASE m = Frame("cancelled", target, NoText, 0) /\ UNCHANGED <<workerVars, pendingJob>>
    <3>1. m.type = "cancelled" /\ m.text # x /\ UNCHANGED <<workerPc, job, offset, succeeded>>
      BY <1>0, <2>2 DEF Frame, workerVars
    <3> QED BY <1>a, <2>1, <2>2, <3>1 DEF WorkerAt
  <2>3. CASE /\ workerPc = "emit" /\ workerPc' = "loop" /\ UNCHANGED <<job, pendingJob, succeeded>>
             /\ m = Frame("audio", GenOf[job], job, offset + 1) /\ offset' = offset + 1
    <3>1. m.type = "audio" /\ m.text = job /\ m.chunk = offset + 1
      BY <2>3 DEF Frame
    <3>2. CASE job = x
      <4>1. Worked(x)
        BY <2>3, <3>2 DEF Worked, Working
      <4>2. ~Asking(x) /\ pendingJob # x
        BY <4>1 DEF Once
      <4>3. n = offset /\ offset < Chunks /\ offset \in Nat
        BY <1>0, <2>3, <3>2 DEF WorkerAt, BaseInv, TypeOK, GuestTypeOK
      <4>4. WorkerAt(n + 1, x)'
        BY <2>1, <2>3, <4>2, <4>3 DEF WorkerAt
      <4> QED BY <1>0, <3>1, <3>2, <4>3, <4>4
    <3>3. CASE job # x
      BY <1>a, <2>1, <2>3, <3>1, <3>3 DEF WorkerAt
    <3> QED BY <3>2, <3>3
  <2>4. CASE /\ workerPc = "reply" /\ workerPc' = "retire"
             /\ UNCHANGED <<job, pendingJob, succeeded>>
             /\ m = Frame(IF succeeded THEN "done" ELSE "error", GenOf[job], job, 0)
    <3>1. m.type = (IF succeeded THEN "done" ELSE "error") /\ m.text = job
      BY <2>4 DEF Frame
    <3>2. m.type = "done" /\ m.text = x => n = Chunks
      BY <2>4, <3>1 DEF WorkerAt
    <3>3. WorkerAt(n, x)'
      BY <1>a, <2>1, <2>4 DEF WorkerAt
    <3> QED BY <3>1, <3>2, <3>3
  <2> QED BY <1>5, <2>2, <2>3, <2>4 DEF GuestWrites
<1> QED BY <1>1, <1>2, <1>3, <1>4, <1>5, GuestMoves DEF Takes, Starts

\* f[i] pieces of the text have been taken or come by the frame at i.
Counting(f, x) ==
  /\ f \in [0..Len(Stream) -> 0..Chunks]
  /\ \A i \in 1..Len(Stream) :
       /\ Stream[i].type = "audio" /\ Stream[i].text = x =>
            f[i] = f[i - 1] + 1 /\ Stream[i].chunk = f[i]
       /\ ~(Stream[i].type = "audio" /\ Stream[i].text = x) => f[i] = f[i - 1]
       /\ Stream[i].type = "done" /\ Stream[i].text = x => f[i] = Chunks

\* Of a text not in the stream nothing comes.
LEMMA CountStarts ==
  ASSUME NEW x, ~Carried(x), Len(Stream) \in Nat
  PROVE  \E f : Counting(f, x) /\ f[0] = 0 /\ f[Len(Stream)] = 0
<1> DEFINE f == [i \in 0..Len(Stream) |-> 0]
<1>1. f \in [0..Len(Stream) -> 0..Chunks] /\ \A i \in 0..Len(Stream) : f[i] = 0
  BY ChannelAssumption
<1> HIDE DEF f
<1>2. \A i \in 1..Len(Stream) : i \in 0..Len(Stream) /\ i - 1 \in 0..Len(Stream)
  OBVIOUS
<1>3. Counting(f, x)
  BY <1>1, <1>2 DEF Counting, Carried
<1>4. f[0] = 0 /\ f[Len(Stream)] = 0
  BY <1>1
<1> QED BY <1>3, <1>4

\* One more frame is counted at the end.
LEMMA CountAppended ==
  ASSUME Stream \in Seq(ToHostMessage), NEW x, NEW f, Counting(f, x), NEW m \in ToHostMessage,
         Stream' = Append(Stream, m), NEW n \in 0..Chunks,
         \/ /\ m.type = "audio" /\ m.text = x /\ n = f[Len(Stream)] + 1 /\ m.chunk = n
         \/ /\ ~(m.type = "audio" /\ m.text = x) /\ n = f[Len(Stream)]
            /\ m.type = "done" /\ m.text = x => n = Chunks
  PROVE  \E g : Counting(g, x)' /\ g[0] = f[0] /\ g[Len(Stream')] = n
<1> DEFINE l == Len(Stream)
<1>0. PICK g : g = [i \in 0..(l + 1) |-> IF i <= l THEN f[i] ELSE n]
  OBVIOUS
<1>1. /\ l \in Nat /\ Len(Stream') = l + 1
      /\ \A i \in 1..l : Stream'[i] = Stream[i]
      /\ Stream'[l + 1] = m
  BY AppendElements
<1>2. f \in [0..l -> 0..Chunks]
  BY DEF Counting
<1>3. /\ g \in [0..(l + 1) -> 0..Chunks] /\ g[l + 1] = n
      /\ \A i \in 0..l : g[i] = f[i]
  BY <1>0, <1>1, <1>2
<1>4. /\ \A i \in 1..l :
           /\ Stream[i].type = "audio" /\ Stream[i].text = x =>
                f[i] = f[i - 1] + 1 /\ Stream[i].chunk = f[i]
           /\ ~(Stream[i].type = "audio" /\ Stream[i].text = x) => f[i] = f[i - 1]
           /\ Stream[i].type = "done" /\ Stream[i].text = x => f[i] = Chunks
      /\ \/ /\ m.type = "audio" /\ m.text = x /\ n = f[l] + 1 /\ m.chunk = n
         \/ /\ ~(m.type = "audio" /\ m.text = x) /\ n = f[l]
            /\ m.type = "done" /\ m.text = x => n = Chunks
  BY DEF Counting
<1>a. Len(Stream)' = l + 1
  BY <1>1
<1> HIDE DEF l
<1>5. \A i \in 1..l : i \in 0..l /\ i - 1 \in 0..l
  BY <1>1
<1>6. l \in 0..l /\ 0 \in 0..l /\ (l + 1) - 1 = l
  BY <1>1
<1>7. \A i \in 1..(l + 1) : i \in 1..l \/ i = l + 1
  BY <1>1
<1>8. ASSUME NEW i \in 1..(l + 1)
      PROVE  /\ Stream'[i].type = "audio" /\ Stream'[i].text = x =>
                  g[i] = g[i - 1] + 1 /\ Stream'[i].chunk = g[i]
             /\ ~(Stream'[i].type = "audio" /\ Stream'[i].text = x) => g[i] = g[i - 1]
             /\ Stream'[i].type = "done" /\ Stream'[i].text = x => g[i] = Chunks
  <2>1. CASE i \in 1..l
    <3>1. g[i] = f[i] /\ g[i - 1] = f[i - 1] /\ Stream'[i] = Stream[i]
      BY <1>1, <1>3, <1>5, <2>1
    <3> QED BY <1>4, <2>1, <3>1
  <2>2. CASE i = l + 1
    <3>1. g[i] = n /\ g[i - 1] = f[l] /\ Stream'[i] = m
      BY <1>1, <1>3, <1>6, <2>2
    <3> QED BY <1>4, <3>1
  <2> QED BY <1>7, <2>1, <2>2
<1>9. Counting(g, x)'
  BY <1>3, <1>8, <1>a DEF Counting
<1>10. g[0] = f[0] /\ g[Len(Stream')] = n
  BY <1>1, <1>3, <1>6
<1> QED BY <1>9, <1>10

\* The first frame is taken out of the stream.
LEMMA CountAdvanced ==
  ASSUME Stream \in Seq(ToHostMessage), NEW x, NEW f, Counting(f, x), Stream # <<>>,
         Stream' = Tail(Stream)
  PROVE  \E g : Counting(g, x)' /\ g[0] = f[1] /\ g[Len(Stream')] = f[Len(Stream)]
<1> DEFINE l == Len(Stream)
<1>0. PICK g : g = [i \in 0..(l - 1) |-> f[i + 1]]
  OBVIOUS
<1>1. /\ l \in Nat /\ l > 0 /\ Len(Stream') = l - 1
      /\ \A i \in 1..(l - 1) : Stream'[i] = Stream[i + 1]
  BY TailElements
<1>2. f \in [0..l -> 0..Chunks]
  BY DEF Counting
<1>3. /\ g \in [0..(l - 1) -> 0..Chunks] /\ \A i \in 0..(l - 1) : g[i] = f[i + 1]
  BY <1>0, <1>1, <1>2
<1>4. \A i \in 1..l :
        /\ Stream[i].type = "audio" /\ Stream[i].text = x =>
             f[i] = f[i - 1] + 1 /\ Stream[i].chunk = f[i]
        /\ ~(Stream[i].type = "audio" /\ Stream[i].text = x) => f[i] = f[i - 1]
        /\ Stream[i].type = "done" /\ Stream[i].text = x => f[i] = Chunks
  BY DEF Counting
<1>a. Len(Stream)' = l - 1
  BY <1>1
<1> HIDE DEF l
<1>5. ASSUME NEW i \in 1..(l - 1)
      PROVE  /\ Stream'[i].type = "audio" /\ Stream'[i].text = x =>
                  g[i] = g[i - 1] + 1 /\ Stream'[i].chunk = g[i]
             /\ ~(Stream'[i].type = "audio" /\ Stream'[i].text = x) => g[i] = g[i - 1]
             /\ Stream'[i].type = "done" /\ Stream'[i].text = x => g[i] = Chunks
  <2>1. /\ i \in 0..(l - 1) /\ i - 1 \in 0..(l - 1) /\ i + 1 \in 1..l
        /\ (i - 1) + 1 = i /\ (i + 1) - 1 = i
    BY <1>1
  <2>2. g[i] = f[i + 1] /\ g[i - 1] = f[i] /\ Stream'[i] = Stream[i + 1]
    BY <1>1, <1>3, <2>1
  <2> QED BY <1>4, <2>1, <2>2
<1>6. Counting(g, x)'
  BY <1>3, <1>5, <1>a DEF Counting
<1>7. 0 \in 0..(l - 1) /\ l - 1 \in 0..(l - 1) /\ 0 + 1 = 1 /\ (l - 1) + 1 = l
  BY <1>1
<1>8. g[0] = f[1] /\ g[Len(Stream')] = f[Len(Stream)]
  BY <1>1, <1>3, <1>7 DEF l
<1> QED BY <1>6, <1>8

\* What NVDA has received of the utterance, with the piece in hand, ends with
\* the n-th piece of the text waited for.
TakenTo(n) ==
  /\ Received(current.utt) + (IF driverPc = "feed" THEN 1 ELSE 0) = Begins(current.utt)[pos] + n
  /\ driverPc = "feed" => hand = AudioItem(CurrentText, n) /\ n > 0

\* While it is waited for, the pieces taken, those in the stream and the
\* next one of the helper follow each other without a gap.
InOrder ==
  Waiting /\ IsCurrent(current.gen) =>
    \E f : Counting(f, CurrentText) /\ WorkerAt(f[Len(Stream)], CurrentText) /\ TakenTo(f[0])

\* What a worker that goes on waiting does.
LEMMA WaitingMoves ==
  ASSUME BaseInv, DriverAction, Waiting, Waiting'
  PROVE  \/ AwaitMessage /\ driverPc = "await" /\ UNCHANGED out
         \/ /\ driverPc = "feed" /\ driverPc' = "await" /\ out' = Append(out, hand)
            /\ UNCHANGED Stream
         \/ UNCHANGED <<driverPc, hand, out, Stream>>
<1> USE DEF channelVars, userVars, renderVars, playerVars, Rest, UserGoto, DriverGoto, Waiting
<1>1. CASE AwaitMessage
  BY <1>1 DEF AwaitMessage
<1>2. CASE FeedPlayer
  <2>1. UNCHANGED <<messages, toHost>>
    BY <1>2 DEF FeedPlayer
  <2> QED BY <1>2, <2>1 DEF FeedPlayer, Stream
<1>3. CASE DriverAction /\ ~AwaitMessage /\ ~FeedPlayer
  <2>1. UNCHANGED <<driverPc, hand, out>>
    BY <1>3 DEF DriverAction, UserCall, UserEnds, UserStep, DriverStep, SpeakUtterance, Pause,
       BeginCancel, Terminate, DrainJobs, PutSentinel, NextJob, SendSpeak,
       StopPlayer, JoinDriver, JoinTimesOut, SendCancel, ReadFrame, TestStopping,
       CheckJob, EnterRender, NextEvent, NotifyIndex, AlreadyRunning,
       Settle, IdlePlayer, Finish, AnnounceDone, LeaveRender, AwaitTimesOut, IfCurrent
  <2>2. UNCHANGED Stream
    BY <1>3, StreamSteps
  <2> QED BY <2>1, <2>2
<1> QED BY <1>1, <1>2, <1>3

\* The first frame of the stream: skipped when it is of another generation,
\* otherwise the next piece of the text, or its end after the last.
LEMMA MessageTaken ==
  ASSUME BaseInv, Frames, Only, AwaitMessage, IsCurrent(current.gen),
         NEW x, x = CurrentText, NEW f, Counting(f, x)
  PROVE  /\ Stream # <<>> /\ Stream' = Tail(Stream) /\ f[0] \in 0..Chunks
         /\ \/ driverPc' = "await" /\ f[1] = f[0]
            \/ driverPc' = "feed" /\ f[1] = f[0] + 1 /\ hand' = AudioItem(x, f[1])
            \/ driverPc' = "settle" /\ f[0] = Chunks
            \/ driverPc' \in {"restart", "leave"}
<1>0. /\ messages # <<>> /\ Stream # <<>> /\ Head(messages) = Head(Stream)
      /\ Stream' = Tail(Stream)
  <2>1. DriverAction
    BY DEF DriverAction, DriverStep
  <2> QED BY <2>1, StreamSteps
<1> DEFINE m == Stream[1]
<1>1. m \in ToHostMessage /\ 1 \in 1..Len(Stream) /\ Head(messages) = m /\ Len(Stream) \in Nat
  BY <1>0, StreamTyped, TailElements
<1>2. Sound(m)
  BY <1>1 DEF Frames
<1>3. /\ m.type = "audio" /\ m.text = x => f[1] = f[0] + 1 /\ m.chunk = f[1]
      /\ ~(m.type = "audio" /\ m.text = x) => f[1] = f[0]
      /\ m.type = "done" /\ m.text = x => f[1] = Chunks
      /\ f \in [0..Len(Stream) -> 0..Chunks]
  BY <1>1 DEF Counting
<1>4. f[0] \in 0..Chunks
  BY <1>1, <1>3
<1>5. GenOf[x] = current.gen
  BY CurrentTextIs DEF AwaitMessage, BaseInv, TypeOK
<1>6. m.gen = current.gen =>
        /\ m.type \in {"audio", "done", "error", "eof"}
        /\ m.type # "eof" => m.text = x
  BY <1>0, <1>1, FirstIsAwaited
<1>7. m.type \in {"audio", "done", "error", "cancelled", "eof"}
  BY <1>1 DEF ToHostMessage
<1> HIDE DEF m
<1>8. CASE m.gen # current.gen
  <2>1. f[1] = f[0]
    BY <1>2, <1>3, <1>5, <1>8 DEF Sound
  <2>2. driverPc' \in {"await", "restart"}
    BY <1>1, <1>8 DEF AwaitMessage
  <2> QED BY <1>0, <1>4, <2>1, <2>2
<1>9. CASE m.gen = current.gen /\ m.type = "audio"
  <2>1. m.text = x /\ f[1] = f[0] + 1 /\ m.chunk = f[1]
    BY <1>3, <1>6, <1>9
  <2>2. driverPc' = "feed" /\ hand' = AudioItem(m.text, m.chunk)
    BY <1>1, <1>9 DEF AwaitMessage
  <2> QED BY <1>0, <1>4, <2>1, <2>2
<1>10. CASE m.gen = current.gen /\ m.type = "done"
  <2>1. m.text = x /\ f[1] = f[0] /\ f[1] = Chunks
    BY <1>3, <1>6, <1>10
  <2>2. driverPc' = "settle"
    BY <1>1, <1>10 DEF AwaitMessage
  <2> QED BY <1>0, <1>4, <2>1, <2>2
<1>11. CASE m.gen = current.gen /\ m.type \in {"error", "cancelled", "eof"}
  <2>1. driverPc' \in {"restart", "leave"}
    BY <1>1, <1>11 DEF AwaitMessage
  <2> QED BY <1>0, <1>4, <2>1
<1> QED BY <1>7, <1>8, <1>9, <1>10, <1>11

\* Nothing has been received of the text to be asked for; after the answer
\* has come, all of it.
Progress ==
  driverPc \in Rendering /\ IsCurrent(current.gen) /\ ~Waiting =>
    Received(current.utt) =
      Begins(current.utt)[pos] + (IF driverPc \in {"settle", "idle"} THEN Chunks ELSE 0)

\* The witness of the order in the next state.
LEMMA OrderFrom ==
  ASSUME NEW x, NEW f, NEW n, NEW k, CurrentText' = x, Counting(f, x)', WorkerAt(n, x)',
         TakenTo(k)', n = f[Len(Stream')], k = f[0]
  PROVE  InOrder'
<1>1. Counting(f, CurrentText)'
  BY DEF Counting
<1>2. WorkerAt(f[Len(Stream)], CurrentText)'
  BY DEF WorkerAt, Asking
<1>3. TakenTo(f[0])'
  BY DEF TakenTo
<1> QED BY <1>1, <1>2, <1>3 DEF InOrder

\* Nothing taken, nothing counted.
LEMMA TakenSame ==
  ASSUME NEW n, TakenTo(n), UNCHANGED <<out, hand, driverPc, current, pos>>
  PROVE  TakenTo(n)'
BY DEF TakenTo, Received, CurrentText

\* The pieces stay in order, whatever thread, helper or mishap moves.
LEMMA InOrderKept ==
  BaseInv /\ HeardInv /\ Frames /\ Only /\ Single /\ InOrder /\ Progress /\ [Next]_vars
    => InOrder'
<1> SUFFICES ASSUME BaseInv, HeardInv, Frames, Only, Single, InOrder, Progress, [Next]_vars
             PROVE  InOrder'
  OBVIOUS
<1>s. ~(Waiting' /\ IsCurrent(current.gen)') => InOrder'
  BY DEF InOrder
<1> SUFFICES ASSUME Waiting', IsCurrent(current.gen)' PROVE InOrder'
  BY <1>s
<1>0. Stream \in Seq(ToHostMessage) /\ Len(Stream) \in Nat /\ Chunks \in Nat
  BY StreamTyped, ChannelAssumption
<1>a. ASSUME Waiting, NEW x, x = CurrentText
      PROVE  /\ x \in Text /\ x # NoText /\ GenOf[x] = current.gen /\ x[2] = current.utt
  BY <1>a, CurrentTextIs DEF BaseInv, TypeOK, Waiting
\* The order so far.
<1>b. ASSUME NEW x, NEW f, Counting(f, x)
      PROVE  f[Len(Stream)] \in 0..Chunks /\ f[0] \in 0..Chunks
  <2>1. f \in [0..Len(Stream) -> 0..Chunks]
    BY <1>b DEF Counting
  <2> QED BY <1>0, <2>1
<1>1. CASE running /\ GuestAction /\ UNCHANGED <<driverVars, latest>>
  <2>1. /\ UNCHANGED <<current, pos, out, hand, driverPc, messages, running>>
        /\ Waiting /\ IsCurrent(current.gen)
    BY <1>1 DEF driverVars, renderVars, userVars, playerVars, Waiting, IsCurrent
  <2>2. PICK x : x = CurrentText
    OBVIOUS
  <2>3. PICK f : Counting(f, x) /\ WorkerAt(f[Len(Stream)], x) /\ TakenTo(f[0])
    BY <2>1, <2>2 DEF InOrder
  <2>4. PICK n : n = f[Len(Stream)]
    OBVIOUS
  <2>5. PICK k : k = f[0]
    OBVIOUS
  <2>6. /\ CurrentText' = x /\ x \in Text /\ IsCurrent(GenOf[x]) /\ Once(x) /\ TakenTo(k)'
        /\ n \in 0..Chunks /\ WorkerAt(n, x)
    <3>1. CurrentText' = x
      BY <2>1, <2>2 DEF CurrentText
    <3>2. Once(x)
      BY <1>1, <2>1, <2>2 DEF Single
    <3> QED BY <1>a, <1>b, <2>1, <2>2, <2>3, <2>4, <2>5, <3>1, <3>2, TakenSame
  <2>7. CASE UNCHANGED toHost /\ WorkerAt(n, x)'
    <3>1. UNCHANGED Stream
      BY <2>1, <2>7 DEF Stream
    <3>2. Counting(f, x)'
      BY <2>3, <3>1 DEF Counting
    <3>3. n = f[Len(Stream')]
      BY <2>4, <3>1
    <3> QED BY <2>5, <2>6, <2>7, <3>2, <3>3, OrderFrom
  <2>8. ASSUME NEW m \in ToHostMessage, toHost' = Append(toHost, m), NEW n1 \in 0..Chunks,
               WorkerAt(n1, x)',
               \/ /\ m.type = "audio" /\ m.text = x /\ m.chunk = n + 1 /\ n1 = n + 1
               \/ /\ ~(m.type = "audio" /\ m.text = x) /\ n1 = n
                  /\ m.type = "done" /\ m.text = x => n = Chunks
        PROVE  InOrder'
    <3>1. Stream' = Append(Stream, m)
      BY <2>1, <2>8, StreamAppends
    <3>2. \E g : Counting(g, x)' /\ g[0] = f[0] /\ g[Len(Stream')] = n1
      BY <1>0, <2>3, <2>4, <2>8, <3>1, CountAppended
    <3>3. PICK g : Counting(g, x)' /\ g[0] = f[0] /\ g[Len(Stream')] = n1
      BY <3>2
    <3> QED BY <2>5, <2>6, <2>8, <3>3, OrderFrom
  <2> QED BY <1>1, <2>6, <2>7, <2>8, WorkerAtKept
<1>2. CASE DriverAction /\ UNCHANGED guestVars
  <2>1. /\ IsCurrent(current.gen) /\ UNCHANGED <<current, pos, running>>
        /\ \/ Waiting /\ UNCHANGED toGuest
           \/ /\ SendSpeak /\ SendToGuest(Speak(CurrentText)) /\ driverPc' = "await"
              /\ UNCHANGED <<messages, toHost, out>> /\ driverPc = "send" /\ running
    BY <1>2, DriverWaits
  <2>2. PICK x : x = CurrentText
    OBVIOUS
  <2>3. CurrentText' = x /\ UNCHANGED <<pendingJob, workerPc, job, offset, succeeded>>
    BY <1>2, <2>1, <2>2 DEF CurrentText, guestVars, sharedVars, workerVars
  <2>4. CASE /\ driverPc = "send" /\ UNCHANGED <<messages, toHost, out>>
             /\ driverPc' = "await" /\ running
    <3>1. ~InFlight(x)
      BY <2>1, <2>2, <2>4, RequestFirst
    <3>2. UNCHANGED Stream
      BY <2>4 DEF Stream
    <3>3. ~Carried(x)' /\ Len(Stream') \in Nat
      BY <1>0, <3>1, <3>2 DEF InFlight, Carried
    <3>4. \E f : Counting(f, x)' /\ f[0] = 0 /\ f[Len(Stream')] = 0
      <4>1. PICK f : Counting(f, x) /\ f[0] = 0 /\ f[Len(Stream)] = 0
        BY <1>0, <3>1, CountStarts DEF InFlight
      <4> QED BY <3>2, <4>1 DEF Counting
    <3>5. PICK f : Counting(f, x)' /\ f[0] = 0 /\ f[Len(Stream')] = 0
      BY <3>4
    <3>6. WorkerAt(0, x)'
      <4>1. ~(workerPc \in Speaks /\ job = x)
        BY <3>1 DEF InFlight, Worked, Working, Speaks, Engaged
      <4> QED BY <2>3, <4>1 DEF WorkerAt
    <3>7. TakenTo(0)'
      <4>1. Received(current.utt) = Begins(current.utt)[pos] + 0
        BY <2>1, <2>4 DEF Progress, Rendering, Waiting
      <4>2. (Received(current.utt))' = Received(current.utt)
        BY <2>1, <2>4 DEF Received
      <4>3. Received(current.utt) \in Nat
        BY ReceivedCounts DEF HeardInv
      <4> QED BY <2>1, <2>4, <4>1, <4>2, <4>3 DEF TakenTo
    <3> QED BY <2>3, <3>5, <3>6, <3>7, OrderFrom
  <2>5. CASE Waiting /\ UNCHANGED toGuest
    <3>1. PICK f : Counting(f, x) /\ WorkerAt(f[Len(Stream)], x) /\ TakenTo(f[0])
      BY <2>1, <2>2, <2>5 DEF InOrder
    <3>2. PICK n : n = f[Len(Stream)]
      OBVIOUS
    <3>3. PICK k : k = f[0]
      OBVIOUS
    <3>4. WorkerAt(n, x)' /\ k \in 0..Chunks /\ TakenTo(k)
      BY <1>b, <2>1, <2>3, <2>5, <3>1, <3>2, <3>3 DEF WorkerAt, Asking
    <3>5. ASSUME UNCHANGED Stream, TakenTo(k)' PROVE InOrder'
      <4>1. Counting(f, x)' /\ n = f[Len(Stream')]
        BY <3>1, <3>2, <3>5 DEF Counting
      <4> QED BY <2>3, <3>3, <3>4, <3>5, <4>1, OrderFrom
    <3>6. CASE UNCHANGED <<driverPc, hand, out, Stream>>
      BY <2>1, <3>4, <3>5, <3>6, TakenSame
    <3>7. CASE /\ driverPc = "feed" /\ driverPc' = "await" /\ out' = Append(out, hand)
               /\ UNCHANGED Stream
      <4>1. hand = AudioItem(x, k) /\ hand \in AudioRecord
        BY <2>2, <3>4, <3>7 DEF TakenTo, BaseInv, DriverTyped
      <4>2. hand.utt = current.utt /\ hand \in Item
        BY <1>a, <2>2, <2>5, <4>1 DEF AudioItem, AudioRecord, Item
      <4>3. PICK u : u = current.utt
        OBVIOUS
      <4>4. Received(u) \in Nat /\ Received(u)' = Received(u) + 1
        BY <3>7, <4>2, <4>3, ReceivedGrows DEF HeardInv
      <4>5. Received(u) + 1 = Begins(u)[pos] + k
        BY <3>4, <3>7, <4>3 DEF TakenTo
      <4>6. (Received(current.utt))' = Received(u)'
        BY <2>1, <4>3 DEF Received
      <4>7. TakenTo(k)'
        BY <2>1, <3>7, <4>3, <4>4, <4>5, <4>6 DEF TakenTo
      <4> QED BY <3>5, <3>7, <4>7
    <3>8. CASE AwaitMessage /\ driverPc = "await" /\ UNCHANGED out
      <4>1. /\ Stream # <<>> /\ Stream' = Tail(Stream)
            /\ \/ driverPc' = "await" /\ f[1] = f[0]
               \/ driverPc' = "feed" /\ f[1] = f[0] + 1 /\ hand' = AudioItem(x, f[1])
        BY <2>1, <2>2, <3>1, <3>8, MessageTaken DEF Waiting
      <4>2. \E g : Counting(g, x)' /\ g[0] = f[1] /\ g[Len(Stream')] = f[Len(Stream)]
        BY <1>0, <3>1, <4>1, CountAdvanced
      <4>3. PICK g : Counting(g, x)' /\ g[0] = f[1] /\ g[Len(Stream')] = n
        BY <3>2, <4>2
      <4>4. PICK j : j = f[1]
        OBVIOUS
      <4>5. TakenTo(j)'
        <5>1. Received(current.utt) + 0 = Begins(current.utt)[pos] + k
          BY <3>4, <3>8 DEF TakenTo
        <5>2. (Received(current.utt))' = Received(current.utt)
          BY <2>1, <3>8 DEF Received
        <5>3. PICK r : r = Received(current.utt)
          OBVIOUS
        <5>4. PICK b : b = Begins(current.utt)[pos]
          OBVIOUS
        <5>5. /\ (Received(current.utt))' = r /\ Begins(current.utt')[pos'] = b
              /\ r \in Nat /\ r + 0 = b + k
          BY <2>1, <5>1, <5>2, <5>3, <5>4, ReceivedCounts DEF HeardInv
        <5>6. b \in Nat
          <6>1. current.utt \in Utterance /\ pos \in 1..(Len(EventsOf[current.utt]) + 1)
            BY <3>8 DEF BaseInv, TypeOK, DriverTypeOK, DriverTyped, JobRecord, HasJob, Busy,
               Rendering, Event
          <6> QED BY <5>4, <6>1, BeginsIs DEF Layout
        <5>7. r + (IF driverPc' = "feed" THEN 1 ELSE 0) = b + j
          BY <3>3, <3>4, <4>1, <4>4, <5>5, <5>6
        <5>8. driverPc' = "feed" => hand' = AudioItem(CurrentText', j) /\ j > 0
          BY <2>3, <3>3, <3>4, <4>1, <4>4
        <5> QED BY <5>5, <5>7, <5>8 DEF TakenTo
      <4> QED BY <2>3, <3>4, <4>3, <4>4, <4>5, OrderFrom
    <3> QED BY <1>2, <2>5, <3>6, <3>7, <3>8, WaitingMoves
  <2> QED BY <2>1, <2>4, <2>5
<1>3. CASE StartHelper \/ StopHelper \/ StartFails
  <2>1. ~Waiting'
    BY <1>3 DEF StartHelper, StopHelper, StartFails, Waiting, DriverGoto
  <2> QED BY <2>1
<1>4. CASE HelperDies \/ UNCHANGED vars
  <2>1. /\ UNCHANGED <<current, pos, out, hand, driverPc>> /\ Waiting /\ IsCurrent(current.gen)
    BY <1>4 DEF HelperDies, vars, driverVars, renderVars, userVars, playerVars, Waiting, IsCurrent
  <2>2. PICK x : x = CurrentText
    OBVIOUS
  <2>3. PICK f : Counting(f, x) /\ WorkerAt(f[Len(Stream)], x) /\ TakenTo(f[0])
    BY <2>1, <2>2 DEF InOrder
  <2>4. PICK n : n = f[Len(Stream)]
    OBVIOUS
  <2>5. PICK k : k = f[0]
    OBVIOUS
  <2>6. CurrentText' = x /\ TakenTo(k)' /\ n \in 0..Chunks /\ x # NoText
    BY <1>a, <1>b, <2>1, <2>2, <2>3, <2>4, <2>5, TakenSame DEF CurrentText
  <2>7. CASE HelperDies
    <3>1. running' = FALSE /\ toHost' = Append(toHost, Eof) /\ UNCHANGED messages
      BY <2>7 DEF HelperDies
    <3>2. Eof \in ToHostMessage /\ Eof.type = "eof"
      BY FramesTyped
    <3>3. Stream' = Append(Stream, Eof)
      BY <3>1, <3>2, StreamAppends
    <3>4. \E g : Counting(g, x)' /\ g[0] = f[0] /\ g[Len(Stream')] = n
      BY <1>0, <2>3, <2>4, <2>6, <3>2, <3>3, CountAppended
    <3>5. PICK g : Counting(g, x)' /\ g[0] = f[0] /\ g[Len(Stream')] = n
      BY <3>4
    <3>6. WorkerAt(n, x)'
      BY <3>1 DEF WorkerAt
    <3> QED BY <2>5, <2>6, <3>5, <3>6, OrderFrom
  <2>8. CASE UNCHANGED vars
    <3>1. UNCHANGED <<toGuest, Stream, pendingJob, workerPc, job, offset, succeeded, running>>
      BY <2>8 DEF vars, channelVars, guestVars, sharedVars, workerVars, driverVars, Stream
    <3>2. Counting(f, x)' /\ n = f[Len(Stream')] /\ WorkerAt(n, x)'
      BY <2>3, <2>4, <3>1 DEF Counting, WorkerAt, Asking
    <3> QED BY <2>5, <2>6, <3>2, OrderFrom
  <2> QED BY <1>4, <2>7, <2>8
<1> QED BY <1>1, <1>2, <1>3, <1>4, NextCases

\* A job that is wanted after a step was so before it.
LEMMA CurrentBefore ==
  ASSUME BaseInv, DriverAction, driverPc \in HasJob, UNCHANGED current, IsCurrent(current.gen)'
  PROVE  IsCurrent(current.gen) /\ UNCHANGED <<currentGeneration, stopping>>
<1>1. ~stopping' /\ ~stopping /\ stopping \in BOOLEAN /\ stopping' \in BOOLEAN
  BY WaitingSteps, DriverKeepsTypes DEF IsCurrent, BaseInv, TypeOK, DriverTypeOK
<1>2. /\ currentGeneration' \in {currentGeneration, currentGeneration + 1}
      /\ currentGeneration \in Nat
  BY GenerationGrows, DriverAssumption DEF BaseInv, TypeOK, DriverTypeOK
<1>3. current.gen <= currentGeneration /\ current.gen \in Nat
  BY DriverAssumption DEF BaseInv, GenerationsSound, DriverTyped, JobRecord
<1> QED BY <1>1, <1>2, <1>3 DEF IsCurrent

\* How a worker that renders, and does not wait, has come to where it is.
LEMMA RenderMoves ==
  ASSUME BaseInv, DriverAction, driverPc' \in Rendering \ {"await", "feed"}
  PROVE  \/ NextJob /\ jobs # <<>> /\ Head(jobs) # None /\ current' = Head(jobs) /\ pos' = 1
            /\ driverPc' = "check" /\ UNCHANGED out
         \/ AwaitMessage /\ driverPc' = "settle" /\ UNCHANGED <<current, pos, out>>
         \/ /\ driverPc = "notify" /\ driverPc' = "event" /\ pos' = pos + 1
            /\ out' = Append(out, hand) /\ UNCHANGED current
         \/ driverPc = "idle" /\ driverPc' = "event" /\ pos' = pos + 1 /\ UNCHANGED <<current, out>>
         \/ /\ driverPc \in Rendering \ {"await", "feed"} /\ UNCHANGED <<current, pos, out>>
            /\ driverPc \in {"settle", "idle"} <=> driverPc' \in {"settle", "idle"}
<1> USE DEF channelVars, userVars, renderVars, playerVars, Rest, UserGoto, DriverGoto, Rendering
<1>1. CASE AwaitMessage
  <2>1. Head(messages) \in ToHostMessage
    BY <1>1, StreamTyped, TailElements DEF AwaitMessage
  <2>2. Head(messages).type \in {"audio", "done", "error", "cancelled", "eof"}
    BY <2>1 DEF ToHostMessage
  <2> QED BY <1>1, <2>2 DEF AwaitMessage
<1>2. CASE NextJob
  BY <1>2 DEF NextJob
<1>3. CASE IdlePlayer
  BY <1>3 DEF IdlePlayer
<1>4. CASE NotifyIndex
  BY <1>4 DEF NotifyIndex
<1>5. CASE DriverAction /\ ~AwaitMessage /\ ~NextJob /\ ~IdlePlayer /\ ~NotifyIndex
  BY <1>5 DEF DriverAction, UserCall, UserEnds, UserStep, DriverStep, SpeakUtterance, Pause,
     BeginCancel, Terminate, DrainJobs, PutSentinel, SendSpeak, FeedPlayer,
     StopPlayer, JoinDriver, JoinTimesOut, SendCancel, ReadFrame, TestStopping,
     CheckJob, EnterRender, NextEvent, AlreadyRunning,
     Settle, Finish, AnnounceDone, LeaveRender, AwaitTimesOut, IfCurrent
<1> QED BY <1>1, <1>2, <1>3, <1>4, <1>5

\* The place of an event among the items.
LEMMA Places ==
  ASSUME BaseInv, driverPc \in Rendering
  PROVE  /\ current.utt \in Utterance /\ Layout(current.utt, Begins(current.utt))
         /\ pos \in 1..(Len(Event) + 1) /\ Len(Event) \in Nat
         /\ Begins(current.utt)[pos] \in Nat
         /\ pos <= Len(Event) =>
              Begins(current.utt)[pos + 1] =
                Begins(current.utt)[pos] + EventSize(current.utt, pos)
<1>1. current.utt \in Utterance /\ pos \in 1..(Len(Event) + 1) /\ Len(Event) \in Nat
  BY DriverAssumption DEF BaseInv, TypeOK, DriverTypeOK, DriverTyped, JobRecord, HasJob, Busy,
     Rendering, Event
<1>2. Layout(current.utt, Begins(current.utt))
  BY <1>1, BeginsIs
<1> DEFINE u == current.utt
           B == Begins(u)
<1>3. /\ B \in [1..(Len(EventsOf[u]) + 1) -> Nat]
      /\ \A i \in 1..Len(EventsOf[u]) : B[i + 1] = B[i] + EventSize(u, i)
  BY <1>2 DEF Layout
<1>4. pos \in 1..(Len(EventsOf[u]) + 1) /\ Len(EventsOf[u]) \in Nat
  BY <1>1 DEF Event
<1> HIDE DEF u, B
<1>5. B[pos] \in Nat /\ (pos <= Len(EventsOf[u]) => B[pos + 1] = B[pos] + EventSize(u, pos))
  BY <1>3, <1>4
<1> QED BY <1>1, <1>2, <1>5 DEF u, B, Event

\* Between two texts the worker has passed on whole events.
LEMMA ProgressKept ==
  BaseInv /\ HeardInv /\ Frames /\ Only /\ Place /\ OutBegun /\ InOrder /\ Progress /\ [Next]_vars
    => Progress'
<1> SUFFICES ASSUME BaseInv, HeardInv, Frames, Only, Place, OutBegun, InOrder, Progress,
                    [Next]_vars
             PROVE  Progress'
  OBVIOUS
<1> DEFINE extra(pc) == IF pc \in {"settle", "idle"} THEN Chunks ELSE 0
<1>s. /\ ~(driverPc' \in Rendering /\ IsCurrent(current.gen)' /\ ~Waiting') => Progress'
      /\ (Received(current.utt))' = Begins(current.utt')[pos'] + extra(driverPc') => Progress'
  BY DEF Progress
<1>p. driverPc \in Rendering /\ IsCurrent(current.gen) /\ ~Waiting =>
        Received(current.utt) = Begins(current.utt)[pos] + extra(driverPc)
  BY DEF Progress
<1> SUFFICES ASSUME driverPc' \in Rendering, IsCurrent(current.gen)', ~Waiting'
             PROVE  (Received(current.utt))' = Begins(current.utt')[pos'] + extra(driverPc')
  BY <1>s
<1>0. /\ \A u : Received(u) \in Nat /\ driverPc' \in Rendering \ {"await", "feed"}
      /\ Chunks \in Nat
  BY ReceivedCounts, ChannelAssumption DEF HeardInv, Waiting
<1>1. ASSUME UNCHANGED <<current, pos, out>>, driverPc \in Rendering \ {"await", "feed"},
             driverPc \in {"settle", "idle"} <=> driverPc' \in {"settle", "idle"},
             IsCurrent(current.gen)
      PROVE  (Received(current.utt))' = Begins(current.utt')[pos'] + extra(driverPc')
  <2>1. Received(current.utt) = Begins(current.utt)[pos] + extra(driverPc)
    BY <1>1, <1>p DEF Waiting
  <2>2. (Received(current.utt))' = Received(current.utt)
    BY <1>1 DEF Received
  <2> QED BY <1>1, <2>1, <2>2
<1>2. CASE DriverAction
  <2>1. CASE /\ jobs # <<>> /\ Head(jobs) # None /\ current' = Head(jobs) /\ pos' = 1
             /\ driverPc' = "check" /\ UNCHANGED out
    <3>1. PICK u : u = Head(jobs).utt
      OBVIOUS
    <3>2. 1 \in 1..Len(jobs) /\ Head(jobs) = jobs[1] /\ jobs[1] \in JobRecord
      BY <2>1, TailElements DEF BaseInv, DriverTyped
    <3>3. u \in Queued /\ u \in Utterance
      BY <2>1, <3>1, <3>2 DEF Queued, JobRecord
    <3>4. u \notin Begun
      BY <3>3 DEF Begun
    <3>5. Received(u) = 0
      BY <3>4, NoneReceived DEF OutBegun, HeardInv
    <3>6. (Received(current.utt))' = Received(u)
      BY <2>1, <3>1 DEF Received
    <3>7. Begins(u)[1] = 0
      BY <3>3, BeginsIs DEF Layout
    <3> QED BY <2>1, <3>1, <3>5, <3>6, <3>7
  <2>2. CASE AwaitMessage /\ driverPc' = "settle" /\ UNCHANGED <<current, pos, out>>
    <3>1. driverPc = "await" /\ IsCurrent(current.gen)
      BY <1>2, <2>2, CurrentBefore DEF AwaitMessage, HasJob, Busy
    <3>2. PICK x : x = CurrentText
      OBVIOUS
    <3>3. PICK f : Counting(f, x) /\ TakenTo(f[0])
      BY <3>1, <3>2 DEF InOrder, Waiting
    <3>4. f[0] = Chunks
      BY <2>2, <3>1, <3>2, <3>3, MessageTaken
    <3>5. Received(current.utt) + 0 = Begins(current.utt)[pos] + Chunks
      BY <3>1, <3>3, <3>4 DEF TakenTo
    <3>6. (Received(current.utt))' = Received(current.utt)
      BY <2>2 DEF Received
    <3>7. PICK r : r = Received(current.utt)
      OBVIOUS
    <3>8. r \in Nat /\ r + 0 = r
      BY <1>0, <3>7
    <3> QED BY <2>2, <3>5, <3>6, <3>7, <3>8
  <2>3. CASE /\ driverPc = "notify" /\ driverPc' = "event" /\ pos' = pos + 1
             /\ out' = Append(out, hand) /\ UNCHANGED current
    <3>1. IsCurrent(current.gen) /\ driverPc \in Rendering /\ ~Waiting
      BY <1>2, <2>3, CurrentBefore DEF HasJob, Busy, Rendering, Waiting
    <3>2. PICK u : u = current.utt
      OBVIOUS
    <3>3. Event[pos] = "index" /\ pos <= Len(Event)
      BY <2>3 DEF Place, BaseInv, DriverTyped, AtEvent
    <3>4. Begins(u)[pos + 1] = Begins(u)[pos] + 1 /\ Begins(u)[pos] \in Nat /\ u \in Utterance
          /\ pos \in Nat
      BY <3>1, <3>2, <3>3, Places DEF EventSize, Event
    <3>5. hand.utt = u /\ hand \in Item
      BY <2>3, <3>2, <3>4 DEF BaseInv, DriverTyped, IndexItem, Item
    <3>6. Received(u) = Begins(u)[pos] + 0
      BY <1>p, <2>3, <3>1, <3>2
    <3>7. Received(u)' = Received(u) + 1
      BY <2>3, <3>5, ReceivedGrows DEF HeardInv
    <3>8. (Received(current.utt))' = Received(u)'
      BY <2>3, <3>2 DEF Received
    <3> QED BY <2>3, <3>2, <3>4, <3>6, <3>7, <3>8
  <2>4. CASE /\ driverPc = "idle" /\ driverPc' = "event"
             /\ pos' = pos + 1 /\ UNCHANGED <<current, out>>
    <3>1. IsCurrent(current.gen) /\ driverPc \in Rendering /\ ~Waiting
      BY <1>2, <2>4, CurrentBefore DEF HasJob, Busy, Rendering, Waiting
    <3>2. Event[pos] = "text" /\ pos <= Len(Event)
      BY <2>4 DEF Place, BaseInv, DriverTyped, AtEvent
    <3>3. /\ Begins(current.utt)[pos + 1] = Begins(current.utt)[pos] + Chunks
          /\ Begins(current.utt)[pos] \in Nat
      BY <3>1, <3>2, Places DEF EventSize, Event
    <3>4. Received(current.utt) = Begins(current.utt)[pos] + Chunks
      BY <1>p, <2>4, <3>1
    <3>5. (Received(current.utt))' = Received(current.utt)
      BY <2>4 DEF Received
    <3>6. PICK b : b = Begins(current.utt)[pos + 1]
      OBVIOUS
    <3>7. Begins(current.utt')[pos'] = b /\ b \in Nat /\ b + 0 = b /\ extra(driverPc') = 0
      BY <1>0, <2>4, <3>3, <3>6
    <3> HIDE DEF extra
    <3> QED BY <3>3, <3>4, <3>5, <3>6, <3>7
  <2>5. CASE /\ driverPc \in Rendering \ {"await", "feed"} /\ UNCHANGED <<current, pos, out>>
             /\ driverPc \in {"settle", "idle"} <=> driverPc' \in {"settle", "idle"}
    <3>1. IsCurrent(current.gen)
      BY <1>2, <2>5, CurrentBefore DEF HasJob, Busy, Rendering
    <3> QED BY <1>1, <2>5, <3>1
  <2> QED BY <1>0, <1>2, <2>1, <2>2, <2>3, <2>4, <2>5, RenderMoves
<1>3. CASE UNCHANGED <<current, pos, out, driverPc, stopping, currentGeneration>>
  <2>1. driverPc \in Rendering \ {"await", "feed"} /\ IsCurrent(current.gen)
    BY <1>0, <1>3 DEF IsCurrent
  <2> QED BY <1>1, <1>3, <2>1
<1>4. UNCHANGED driverVars \/ UNCHANGED vars \/ HelperDies =>
        UNCHANGED <<current, pos, out, driverPc, stopping, currentGeneration>>
  BY DEF driverVars, vars, HelperDies, renderVars, userVars, playerVars
<1>5. CASE StartHelper
  <2>1. /\ driverPc = "boot" /\ driverPc' = "send"
        /\ UNCHANGED <<current, pos, out, stopping, currentGeneration>>
    BY <1>5 DEF StartHelper, DriverGoto, Rendering, userVars, playerVars
  <2> QED BY <1>1, <2>1 DEF IsCurrent, Rendering
<1>6. ~StopHelper /\ ~StartFails
  BY DEF StopHelper, StartFails, DriverGoto, Rendering
<1> QED BY <1>2, <1>3, <1>4, <1>5, <1>6, NextCases

------------------------------------------------------------------------------
(* What NVDA is still owed, in the terms of Announcer.                       *)

\* The utterance being rendered, if it is still wanted.
NowSpoken == IF driverPc \in Rendering /\ IsCurrent(current.gen) THEN <<current.utt>> ELSE <<>>

\* What SpeechSystem maps to waiting is made of these two.
LEMMA WantedIs == Wanted = NowSpoken \o StillQueued
BY DEF Wanted, NowSpoken, StillQueued

\* The first wanted utterance is the one rendered.
LEMMA WantedFirst ==
  ASSUME StillQueued \in Seq(Utterance), NEW u \in Utterance
  PROVE  /\ NowSpoken = <<u>> => Wanted # <<>> /\ Head(Wanted) = u /\ Tail(Wanted) = StillQueued
         /\ NowSpoken = <<>> => Wanted = StillQueued
<1>1. <<>> \o StillQueued = StillQueued
  BY ConcatEmptySeq
<1>2. <<u>> \in Seq(Utterance) /\ <<u>> # <<>> /\ Head(<<u>>) = u /\ Tail(<<u>>) = <<>>
  OBVIOUS
<1> DEFINE a == <<u>>
<1>3. a \in Seq(Utterance) /\ a # <<>> /\ Head(a) = u /\ Tail(a) = <<>>
  BY <1>2
<1> HIDE DEF a
<1>4. /\ Tail(a) \o StillQueued = Tail(a \o StillQueued) /\ a \o StillQueued # <<>>
      /\ Head(a \o StillQueued) = Head(a)
  BY <1>3, Joined
<1>5. NowSpoken = a => Wanted # <<>> /\ Head(Wanted) = u /\ Tail(Wanted) = StillQueued
  BY <1>1, <1>3, <1>4, WantedIs
<1> QED BY <1>1, <1>5, WantedIs DEF a

\* Nothing owed or received changes: none of the business of Announcer.
LEMMA Stutters ==
  ASSUME UNCHANGED <<NowSpoken, StillQueued, out, InHand>>
  PROVE  UNCHANGED Promise!vars
<1>1. Wanted' = Wanted
  <2>1. Wanted' = NowSpoken' \o StillQueued'
    BY WantedIs DEF Wanted, NowSpoken, StillQueued
  <2> QED BY <2>1, WantedIs
<1> QED BY <1>1 DEF Promise!vars

\* The next item arrives.
LEMMA Delivers ==
  ASSUME StillQueued \in Seq(Utterance), NEW u \in Utterance, NowSpoken = <<u>>,
         InHand = {}, InHand' = {}, StillQueued' = StillQueued,
         Received(u) \in Nat, Received(u) < Len(Items(u)),
         out' = Append(out, Items(u)[Received(u) + 1]),
         NowSpoken' = IF Received(u) + 1 = Len(Items(u)) THEN <<>> ELSE <<u>>
  PROVE  Promise!Next
<1>1. Wanted # <<>> /\ Head(Wanted) = u /\ Tail(Wanted) = StillQueued
  BY WantedFirst
<1>2. Promise!Received(u) = Received(u)
  BY ReceivedIs
<1>3. [w \in Utterance |-> Items(w)][u] = Items(u)
  OBVIOUS
<1>4. Wanted' = IF Received(u) + 1 = Len(Items(u)) THEN Tail(Wanted) ELSE Wanted
  <2>1. Wanted' = NowSpoken' \o StillQueued
    BY WantedIs DEF Wanted, NowSpoken, StillQueued
  <2>2. <<>> \o StillQueued = StillQueued
    BY ConcatEmptySeq
  <2> QED BY <1>1, <2>1, <2>2, WantedIs
<1>5. Promise!Deliver
  BY <1>1, <1>2, <1>3, <1>4 DEF Promise!Deliver, Promise!Unfinished, Promise!NextItem
<1> QED BY <1>5 DEF Promise!Next

\* An utterance is spoken.
LEMMA SpokenMore ==
  ASSUME StillQueued \in Seq(Utterance), NEW u \in Utterance, NowSpoken \in Seq(Utterance),
         StillQueued' = Append(StillQueued, u), UNCHANGED <<NowSpoken, out, InHand>>
  PROVE  Promise!Next
<1>1. Wanted' = NowSpoken \o Append(StillQueued, u)
  BY WantedIs DEF Wanted, NowSpoken, StillQueued
<1>2. Wanted' = Append(Wanted, u)
  BY <1>1, WantedIs, Joined
<1>3. Promise!Spoken(u)
  BY <1>2 DEF Promise!Spoken
<1> QED BY <1>3 DEF Promise!Next

\* Everything waiting is cancelled; one item may be in hand.
LEMMA CancelsAll ==
  ASSUME StillQueued \in Seq(Utterance), NowSpoken' = <<>>, StillQueued' = <<>>, UNCHANGED out,
         \/ UNCHANGED InHand
         \/ \E u \in Utterance :
              /\ NowSpoken = <<u>> /\ InHand = {} /\ Received(u) < Len(Items(u))
              /\ InHand' = {Items(u)[Received(u) + 1]}
  PROVE  Promise!Next
<1>1. Wanted' = <<>>
  <2>1. Wanted' = <<>> \o <<>>
    BY WantedIs DEF Wanted, NowSpoken, StillQueued
  <2>2. <<>> \in Seq(Utterance)
    OBVIOUS
  <2>3. <<>> \o <<>> = <<>>
    BY <2>2, ConcatEmptySeq
  <2> QED BY <2>1, <2>3
<1>2. CASE UNCHANGED InHand
  BY <1>1, <1>2 DEF Promise!Next, Promise!Cancelled
<1>3. CASE ~UNCHANGED InHand
  <2>1. PICK u \in Utterance :
          /\ NowSpoken = <<u>> /\ InHand = {} /\ Received(u) < Len(Items(u))
          /\ InHand' = {Items(u)[Received(u) + 1]}
    BY <1>3
  <2>2. Wanted # <<>> /\ Head(Wanted) = u
    BY <2>1, WantedFirst
  <2>3. Promise!Received(u) = Received(u) /\ [w \in Utterance |-> Items(w)][u] = Items(u)
    BY ReceivedIs
  <2>4. Promise!Unfinished(Head(Wanted)) /\ InHand' = {Promise!NextItem(Head(Wanted))}
    BY <2>1, <2>2, <2>3 DEF Promise!Unfinished, Promise!NextItem
  <2> QED BY <1>1, <2>1, <2>2, <2>4 DEF Promise!Next, Promise!Cancelled
<1> QED BY <1>2, <1>3

\* The utterance is given up after a mishap.
LEMMA GivesUp ==
  ASSUME StillQueued \in Seq(Utterance), NEW u \in Utterance, NowSpoken = <<u>>, NowSpoken' = <<>>,
         UNCHANGED <<StillQueued, out>>, InHand = {}, InHand' = {}, mishaps' > 0
  PROVE  Promise!Next
<1>1. Wanted # <<>> /\ Tail(Wanted) = StillQueued
  BY WantedFirst
<1>2. Wanted' = <<>> \o StillQueued
  BY WantedIs DEF Wanted, NowSpoken, StillQueued
<1>3. Wanted' = Tail(Wanted)
  BY <1>1, <1>2, ConcatEmptySeq
<1>4. Promise!GiveUp
  BY <1>1, <1>3 DEF Promise!GiveUp
<1> QED BY <1>4 DEF Promise!Next

\* The item in hand arrives after the cancellation, or is dropped.
LEMMA ComesLate ==
  ASSUME UNCHANGED <<NowSpoken, StillQueued>>, NEW item, InHand = {item}, InHand' = {},
         UNCHANGED out \/ out' = Append(out, item)
  PROVE  Promise!Next
<1>1. Wanted' = Wanted
  BY WantedIs DEF Wanted, NowSpoken, StillQueued
<1> QED BY <1>1 DEF Promise!Next, Promise!Late, Promise!Forget

\* The next job is taken into work: it is wanted as before.
LEMMA TakesFirst ==
  ASSUME StillQueued \in Seq(Utterance), StillQueued # <<>>, NowSpoken = <<>>,
         NowSpoken' = <<Head(StillQueued)>>, StillQueued' = Tail(StillQueued),
         UNCHANGED <<out, InHand>>
  PROVE  UNCHANGED Promise!vars
<1>1. Wanted = StillQueued
  BY ConcatEmptySeq, WantedIs
<1>2. Wanted' = <<Head(StillQueued)>> \o Tail(StillQueued)
  BY WantedIs DEF Wanted, NowSpoken, StillQueued
<1>3. <<Head(StillQueued)>> = Append(<<>>, Head(StillQueued)) /\ <<>> \in Seq(Utterance)
  OBVIOUS
<1>4. Append(<<>>, Head(StillQueued)) \o Tail(StillQueued) = <<>> \o StillQueued
  BY <1>3, Joined
<1>5. Wanted' = Wanted
  BY <1>1, <1>2, <1>3, <1>4, ConcatEmptySeq
<1> QED BY <1>5 DEF Promise!vars

\* What the worker is about to hand over of a wanted utterance is its next
\* item, and its last when it announces its end.
LEMMA HandIsNext ==
  ASSUME BaseInv, HeardInv, Place, InOrder, Progress, driverPc \in Handing, IsCurrent(current.gen),
         NEW u, u = current.utt
  PROVE  /\ u \in Utterance /\ Received(u) \in Nat /\ Received(u) < Len(Items(u))
         /\ hand = Items(u)[Received(u) + 1] /\ hand \in Item /\ hand.utt = u
         /\ Received(u) + 1 = Len(Items(u)) <=> driverPc = "announce"
<1> DEFINE n == Len(EventsOf[u])
           B == Begins(u)
           r == Received(u)
<1>0. /\ driverPc \in Rendering /\ u \in Utterance /\ Layout(u, B) /\ r \in Nat
      /\ pos \in 1..(n + 1) /\ n \in Nat /\ Chunks \in Nat /\ Chunks > 0
      /\ B[pos] \in Nat
  BY Places, ReceivedCounts, ChannelAssumption DEF Handing, Rendering, HeardInv, Event
<1>1. /\ B \in [1..(n + 1) -> Nat] /\ Len(Items(u)) = B[n + 1] + 1
      /\ Items(u)[B[n + 1] + 1] = DoneItem(u)
      /\ \A i \in 1..n :
           /\ B[i + 1] = B[i] + EventSize(u, i) /\ B[i + 1] <= B[n + 1]
           /\ EventsOf[u][i] = "index" => Items(u)[B[i] + 1] = IndexItem(u, i)
           /\ EventsOf[u][i] = "text" =>
                \A k \in 1..Chunks : Items(u)[B[i] + k] = AudioItem(<<0, u, i>>, k)
  BY <1>0 DEF Layout
<1>2. n + 1 \in 1..(n + 1) /\ B[n + 1] \in Nat
  <2> HIDE DEF n, B, r
  <2> QED BY <1>0, <1>1
<1>3. CASE driverPc = "announce"
  <2>1. pos = n + 1 /\ hand = DoneItem(u)
    BY <1>3 DEF Place, BaseInv, DriverTyped, Event
  <2>2. r = B[pos] + 0
    BY <1>3 DEF Progress, Rendering, Waiting
  <2> HIDE DEF n, B, r
  <2>3. r = B[n + 1] /\ hand.utt = u /\ hand \in Item
    BY <1>0, <2>1, <2>2 DEF DoneItem, Item
  <2>4. /\ r < Len(Items(u)) /\ hand = Items(u)[r + 1] /\ r + 1 = Len(Items(u))
    BY <1>1, <1>2, <2>1, <2>3
  <2> QED BY <1>0, <1>3, <2>3, <2>4 DEF r
<1>4. CASE driverPc = "notify"
  <2>1. pos <= n /\ EventsOf[u][pos] = "index" /\ hand = IndexItem(u, pos)
    BY <1>4 DEF Place, BaseInv, DriverTyped, Event, AtEvent
  <2>2. r = B[pos] + 0
    BY <1>4 DEF Progress, Rendering, Waiting
  <2> HIDE DEF n, B, r
  <2>3. pos \in 1..n /\ r = B[pos] /\ hand.utt = u /\ hand \in Item
    BY <1>0, <2>1, <2>2 DEF IndexItem, Item
  <2>4. /\ B[pos + 1] = B[pos] + 1 /\ B[pos + 1] <= B[n + 1]
        /\ Items(u)[B[pos] + 1] = IndexItem(u, pos)
    BY <1>1, <2>1, <2>3 DEF EventSize
  <2>5. r < Len(Items(u)) /\ hand = Items(u)[r + 1] /\ r + 1 # Len(Items(u))
    BY <1>0, <1>1, <1>2, <2>1, <2>3, <2>4
  <2> QED BY <1>0, <1>4, <2>3, <2>5 DEF r
<1>5. CASE driverPc = "feed"
  <2>1. PICK f : Counting(f, CurrentText) /\ TakenTo(f[0])
    BY <1>5 DEF InOrder, Waiting
  <2>2. PICK k : k = f[0]
    OBVIOUS
  <2>3. k \in 0..Chunks
    <3>1. Len(Stream) \in Nat /\ f \in [0..Len(Stream) -> 0..Chunks]
      BY <2>1, StreamTyped DEF Counting
    <3> QED BY <2>2, <3>1
  <2>4. r + 1 = B[pos] + k /\ hand = AudioItem(CurrentText, k) /\ k > 0
    BY <1>5, <2>1, <2>2 DEF TakenTo
  <2>5. EventsOf[u][pos] = "text" /\ pos <= n /\ hand \in Item
    BY <1>5 DEF Place, BaseInv, DriverTyped, Event, AtEvent, AudioRecord, Item
  <2>6. AudioItem(CurrentText, k) = AudioItem(<<0, u, pos>>, k) /\ AudioItem(CurrentText, k).utt = u
    BY DEF AudioItem, CurrentText
  <2> HIDE DEF n, B, r
  <2>7. pos \in 1..n /\ k \in 1..Chunks
    BY <1>0, <2>3, <2>4, <2>5
  <2>8. /\ B[pos + 1] = B[pos] + Chunks /\ B[pos + 1] <= B[n + 1]
        /\ Items(u)[B[pos] + k] = AudioItem(<<0, u, pos>>, k)
    BY <1>1, <2>5, <2>7 DEF EventSize
  <2>9. r < Len(Items(u)) /\ r + 1 # Len(Items(u))
    <3>1. Len(Items(u)) = B[n + 1] + 1 /\ B[pos] + Chunks <= B[n + 1]
      BY <1>1, <2>8
    <3>2. B[pos] \in Nat /\ Chunks \in Nat /\ r \in Nat /\ B[n + 1] \in Nat /\ k \in 1..Chunks
      BY <1>0, <1>2, <2>7
    <3> QED BY <2>4, <3>1, <3>2
  <2>10. hand = Items(u)[r + 1] /\ hand.utt = u
    BY <2>4, <2>6, <2>8
  <2> QED BY <1>0, <1>5, <2>5, <2>9, <2>10 DEF r
<1> QED BY <1>3, <1>4, <1>5 DEF Handing

\* How the worker's place changes, when it takes no job.
LEMMA PlaceMoves ==
  ASSUME BaseInv, DriverAction, ~NextJob
  PROVE  \/ driverPc \notin Rendering /\ driverPc' \notin Rendering /\ UNCHANGED out
         \/ UNCHANGED <<driverPc, current, hand, out>>
         \/ /\ driverPc \in Rendering \ Handing /\ driverPc' \in Rendering
            /\ driverPc' \in Handing => IsCurrent(current.gen)
            /\ UNCHANGED <<current, out>>
         \/ /\ driverPc \in Handing /\ driverPc' \notin Handing
            /\ driverPc' \in Rendering <=> driverPc # "announce"
            /\ UNCHANGED current /\ out' = Append(out, hand)
         \/ /\ driverPc = "feed" /\ driverPc' = "leave" /\ userPc = "closed"
            /\ UNCHANGED <<current, out>>
         \/ /\ driverPc \in Rendering \ Handing /\ driverPc' \notin Rendering
            /\ UNCHANGED <<current, out>>
<1> USE DEF channelVars, userVars, renderVars, playerVars, Rest, UserGoto, DriverGoto, Rendering,
    Handing
<1>1. CASE AwaitMessage
  <2>1. Head(messages) \in ToHostMessage
    BY <1>1, StreamTyped, TailElements DEF AwaitMessage
  <2>2. Head(messages).type \in {"audio", "done", "error", "cancelled", "eof"}
    BY <2>1 DEF ToHostMessage
  <2> QED BY <1>1, <2>2 DEF AwaitMessage
<1>2. CASE FeedPlayer \/ NotifyIndex \/ AnnounceDone
  BY <1>2 DEF FeedPlayer, NotifyIndex, AnnounceDone
<1>3. CASE NextEvent \/ Finish \/ Settle
  BY <1>3 DEF NextEvent, Finish, Settle, IfCurrent
<1>4. CASE CheckJob \/ EnterRender \/ AlreadyRunning \/ SendSpeak \/ IdlePlayer \/ LeaveRender
           \/ AwaitTimesOut \/ TestStopping
  BY <1>4 DEF CheckJob, EnterRender, AlreadyRunning, SendSpeak, IdlePlayer, LeaveRender,
     AwaitTimesOut, TestStopping, IfCurrent
<1>5. CASE UserCall \/ UserEnds \/ UserStep \/ ReadFrame \/ JoinTimesOut
  BY <1>5 DEF UserCall, UserEnds, UserStep, SpeakUtterance, Pause,
     BeginCancel, Terminate, DrainJobs, PutSentinel,
     StopPlayer, JoinDriver, JoinTimesOut, SendCancel, ReadFrame
<1> QED BY <1>1, <1>2, <1>3, <1>4, <1>5 DEF DriverAction, DriverStep

\* A wanted utterance is left halfway only after a mishap.
LEMMA LeftOnMishap ==
  ASSUME BaseInv, QueueInv, Frames, Mishaps, Only, DriverAction,
         AwaitTimesOut => mishaps' > 0, mishaps \in Nat, mishaps' \in Nat, mishaps <= mishaps',
         IsCurrent(current.gen), driverPc \in Rendering \ Handing, driverPc' \notin Rendering
  PROVE  mishaps' > 0
<1> USE DEF channelVars, userVars, renderVars, playerVars, Rest, UserGoto, DriverGoto, Rendering,
    Handing
<1>1. CASE AwaitMessage
  <2>1. /\ messages # <<>> /\ Stream # <<>> /\ Head(messages) = Head(Stream)
    BY <1>1, StreamSteps
  <2> DEFINE m == Stream[1]
  <2>2. m \in ToHostMessage /\ 1 \in 1..Len(Stream) /\ Head(messages) = m
    BY <2>1, StreamTyped, TailElements
  <2>3. Sound(m)
    BY <2>2 DEF Frames
  <2>4. m.gen = current.gen => m.type \in {"audio", "done", "error", "eof"}
    BY <1>1, <2>1, FirstIsAwaited
  <2>5. m.type \in {"audio", "done", "error", "cancelled", "eof"}
    BY <2>2 DEF ToHostMessage
  <2> HIDE DEF m
  <2>6. m.type \in {"error", "eof"}
    BY <1>1, <2>2, <2>4, <2>5 DEF AwaitMessage
  <2> QED BY <2>3, <2>6 DEF Sound
<1>2. CASE SendSpeak
  <2>1. ~running
    BY <1>2 DEF SendSpeak
  <2> QED BY <1>2, <2>1 DEF Mishaps, SendSpeak
<1>3. CASE AwaitTimesOut
  BY <1>3
<1>4. CASE IdlePlayer
  <2>1. userPc = "closed"
    BY <1>4 DEF IdlePlayer
  <2> QED BY <2>1 DEF QueueInv, IsCurrent
<1>5. CASE CheckJob \/ EnterRender \/ AlreadyRunning \/ NextEvent \/ Finish \/ Settle \/ FeedPlayer
           \/ NotifyIndex \/ AnnounceDone \/ LeaveRender \/ TestStopping \/ NextJob
  BY <1>5 DEF CheckJob, EnterRender, AlreadyRunning, NextEvent, Finish, Settle, FeedPlayer,
     NotifyIndex, AnnounceDone, LeaveRender, TestStopping, NextJob, IfCurrent, IsCurrent
<1>6. CASE UserCall \/ UserEnds \/ UserStep \/ ReadFrame \/ JoinTimesOut
  BY <1>6 DEF UserCall, UserEnds, UserStep, SpeakUtterance, Pause,
     BeginCancel, Terminate, DrainJobs, PutSentinel,
     StopPlayer, JoinDriver, JoinTimesOut, SendCancel, ReadFrame
<1> QED BY <1>1, <1>2, <1>3, <1>4, <1>5, <1>6 DEF DriverAction, DriverStep

\* All that the correspondence rests on.
AnnounceInv ==
  /\ HeardInv /\ QueueInv /\ Place /\ OutBegun
  /\ Frames /\ Mishaps /\ Only /\ Single /\ InOrder /\ Progress

\* What is being rendered, and what is in hand, by the worker's place.
LEMMA HereIs ==
  ASSUME BaseInv
  PROVE  /\ driverPc \in Rendering => current.utt \in Utterance
         /\ driverPc \in Rendering /\ IsCurrent(current.gen) => NowSpoken = <<current.utt>>
         /\ ~(driverPc \in Rendering /\ IsCurrent(current.gen)) => NowSpoken = <<>>
         /\ driverPc \in Handing /\ ~IsCurrent(current.gen) => InHand = {hand}
         /\ ~(driverPc \in Handing /\ ~IsCurrent(current.gen)) => InHand = {}
         /\ driverPc' \in Rendering /\ IsCurrent(current.gen)' => NowSpoken' = <<current'.utt>>
         /\ ~(driverPc' \in Rendering /\ IsCurrent(current.gen)') => NowSpoken' = <<>>
         /\ driverPc' \in Handing /\ ~IsCurrent(current.gen)' => InHand' = {hand'}
         /\ ~(driverPc' \in Handing /\ ~IsCurrent(current.gen)') => InHand' = {}
         /\ Handing \subseteq Rendering
<1>1. driverPc \in Rendering => current.utt \in Utterance
  BY Places
<1>2. Handing \subseteq Rendering
  BY DEF Handing, Rendering
<1> QED BY <1>1, <1>2 DEF NowSpoken, InHand

\* The queue holds utterances.
LEMMA QueueTyped == BaseInv /\ QueueInv => StillQueued \in Seq(Utterance)
<1> SUFFICES ASSUME BaseInv, QueueInv PROVE StillQueued \in Seq(Utterance)
  OBVIOUS
<1>1. jobs \in Seq(JobRecord \cup {None})
  BY DEF BaseInv, DriverTyped
<1>2. PICK n : SplitAt(n)
  BY DEF QueueInv
<1> QED BY <1>1, <1>2, StillQueuedIs

\* The worker's own moves.
LEMMA WorkerMapped ==
  ASSUME BaseInv, AnnounceInv, DriverAction, ~NextJob,
         UNCHANGED <<StillQueued, stopping, currentGeneration>>,
         AwaitTimesOut => mishaps' > 0, mishaps \in Nat, mishaps' \in Nat, mishaps <= mishaps'
  PROVE  [Promise!Next]_Promise!vars
<1> USE DEF AnnounceInv
<1>0. /\ StillQueued \in Seq(Utterance) /\ Handing \subseteq Rendering
      /\ UNCHANGED current => IsCurrent(current.gen)' = IsCurrent(current.gen)
  BY QueueTyped, HereIs DEF IsCurrent
<1>1. CASE driverPc \notin Rendering /\ driverPc' \notin Rendering /\ UNCHANGED out
  <2>1. NowSpoken = <<>> /\ NowSpoken' = <<>> /\ InHand = {} /\ InHand' = {}
    BY <1>0, <1>1, HereIs
  <2> QED BY <1>1, <2>1, Stutters
<1>2. CASE UNCHANGED <<driverPc, current, hand, out>>
  <2>1. UNCHANGED <<NowSpoken, InHand>>
    BY <1>0, <1>2, HereIs
  <2> QED BY <1>2, <2>1, Stutters
<1>3. CASE /\ driverPc \in Rendering \ Handing /\ driverPc' \in Rendering
           /\ driverPc' \in Handing => IsCurrent(current.gen)
           /\ UNCHANGED <<current, out>>
  <2>1. UNCHANGED NowSpoken /\ InHand = {} /\ InHand' = {}
    BY <1>0, <1>3, HereIs
  <2> QED BY <1>3, <2>1, Stutters
<1>4. CASE /\ driverPc \in Handing /\ driverPc' \notin Handing
           /\ driverPc' \in Rendering <=> driverPc # "announce"
           /\ UNCHANGED current /\ out' = Append(out, hand)
  <2>1. CASE IsCurrent(current.gen)
    <3>1. PICK u : u = current.utt
      OBVIOUS
    <3>2. /\ u \in Utterance /\ Received(u) \in Nat /\ Received(u) < Len(Items(u))
          /\ hand = Items(u)[Received(u) + 1]
          /\ Received(u) + 1 = Len(Items(u)) <=> driverPc = "announce"
      BY <1>4, <2>1, <3>1, HandIsNext
    <3>3. /\ NowSpoken = <<u>> /\ InHand = {} /\ InHand' = {}
          /\ NowSpoken' = IF driverPc = "announce" THEN <<>> ELSE <<u>>
      BY <1>0, <1>4, <2>1, <3>1, HereIs
    <3>4. NowSpoken' = IF Received(u) + 1 = Len(Items(u)) THEN <<>> ELSE <<u>>
      BY <3>2, <3>3
    <3> QED BY <1>0, <1>4, <3>2, <3>3, <3>4, Delivers
  <2>2. CASE ~IsCurrent(current.gen)
    <3>1. PICK item : item = hand
      OBVIOUS
    <3>2. NowSpoken = <<>> /\ NowSpoken' = <<>> /\ InHand = {item} /\ InHand' = {}
      BY <1>0, <1>4, <2>2, <3>1, HereIs
    <3> QED BY <1>4, <3>1, <3>2, ComesLate
  <2> QED BY <2>1, <2>2
<1>5. CASE /\ driverPc = "feed" /\ driverPc' = "leave" /\ userPc = "closed"
           /\ UNCHANGED <<current, out>>
  <2>1. ~IsCurrent(current.gen)
    BY <1>5 DEF QueueInv, IsCurrent
  <2>2. driverPc \in Handing /\ driverPc' \notin Handing
    BY <1>5 DEF Handing
  <2>3. PICK item : item = hand
    OBVIOUS
  <2>4. NowSpoken = <<>> /\ NowSpoken' = <<>> /\ InHand = {item} /\ InHand' = {}
    BY <1>0, <1>5, <2>1, <2>2, <2>3, HereIs
  <2> QED BY <1>5, <2>4, ComesLate
<1>6. CASE /\ driverPc \in Rendering \ Handing /\ driverPc' \notin Rendering
           /\ UNCHANGED <<current, out>>
  <2>1. InHand = {} /\ InHand' = {} /\ NowSpoken' = <<>>
    BY <1>0, <1>6, HereIs
  <2>2. CASE IsCurrent(current.gen)
    <3>1. PICK u : u = current.utt
      OBVIOUS
    <3>2. u \in Utterance /\ NowSpoken = <<u>>
      BY <1>6, <2>2, <3>1, HereIs
    <3>3. mishaps' > 0
      BY <1>6, <2>2, LeftOnMishap
    <3> QED BY <1>0, <1>6, <2>1, <3>2, <3>3, GivesUp
  <2>3. CASE ~IsCurrent(current.gen)
    <3>1. NowSpoken = <<>>
      BY <2>3, HereIs
    <3> QED BY <1>6, <2>1, <3>1, Stutters
  <2> QED BY <2>2, <2>3
<1> QED BY <1>1, <1>2, <1>3, <1>4, <1>5, <1>6, PlaceMoves

\* The calls of NVDA.
LEMMA CallsMapped ==
  ASSUME BaseInv, AnnounceInv
  PROVE  /\ \A u \in Utterance :
              SpeakUtterance(u) /\ StillQueued' = Append(StillQueued, u) => Promise!Next
         /\ (BeginCancel \/ Terminate) /\ StillQueued' = <<>> => Promise!Next
<1> USE DEF AnnounceInv, channelVars, userVars, renderVars, playerVars, UserGoto
<1>0. StillQueued \in Seq(Utterance) /\ Handing \subseteq Rendering
  BY QueueTyped, HereIs
<1>1. ASSUME NEW u \in Utterance, SpeakUtterance(u), StillQueued' = Append(StillQueued, u)
      PROVE  Promise!Next
  <2>1. UNCHANGED <<driverPc, current, hand, out, stopping, currentGeneration>>
    BY <1>1 DEF SpeakUtterance
  <2>2. UNCHANGED <<NowSpoken, InHand>>
    BY <2>1 DEF NowSpoken, InHand, IsCurrent
  <2>3. NowSpoken \in Seq(Utterance)
    <3>1. driverPc \in Rendering => current.utt \in Utterance
      BY HereIs
    <3> QED BY <3>1 DEF NowSpoken
  <2> QED BY <1>0, <1>1, <2>1, <2>2, <2>3, SpokenMore
<1>2. ASSUME BeginCancel \/ Terminate, StillQueued' = <<>> PROVE Promise!Next
  <2>1. UNCHANGED <<driverPc, current, hand, out>>
    BY <1>2 DEF BeginCancel, Terminate
  <2>2. driverPc \in Rendering => ~IsCurrent(current.gen)'
    <3>1. CASE Terminate
      BY <3>1 DEF Terminate, IsCurrent
    <3>2. CASE BeginCancel
      <4>1. currentGeneration \in 1..MaxGen /\ MaxGen \in Nat /\ Spare \in 0..1
        BY DriverAssumption DEF BaseInv, TypeOK, DriverTypeOK
      <4>2. userPc = "read" => currentGeneration < MaxGen
        BY DEF BaseInv, CancelsOlder
      <4>3. currentGeneration < MaxGen
        BY <3>2, <4>1, <4>2 DEF BeginCancel
      <4>4. currentGeneration' = currentGeneration + 1
        BY <3>2, <4>1, <4>3, NextGenerationIs DEF BeginCancel
      <4>5. driverPc \in Rendering => current.gen <= currentGeneration /\ current.gen \in Nat
        BY DriverAssumption DEF BaseInv, GenerationsSound, DriverTyped, JobRecord, HasJob, Busy,
           Rendering
      <4> QED BY <2>1, <4>1, <4>4, <4>5 DEF IsCurrent
    <3> QED BY <1>2, <3>1, <3>2
  <2>3. NowSpoken' = <<>>
    BY <2>1, <2>2, HereIs
  <2>4. CASE driverPc \in Handing /\ IsCurrent(current.gen)
    <3>1. PICK u : u = current.utt
      OBVIOUS
    <3>2. u \in Utterance /\ Received(u) < Len(Items(u)) /\ hand = Items(u)[Received(u) + 1]
      BY <2>4, <3>1, HandIsNext
    <3>3. NowSpoken = <<u>> /\ InHand = {} /\ InHand' = {Items(u)[Received(u) + 1]}
      BY <1>0, <2>1, <2>2, <2>4, <3>1, <3>2, HereIs
    <3> QED BY <1>0, <1>2, <2>1, <2>3, <3>2, <3>3, CancelsAll
  <2>5. CASE ~(driverPc \in Handing /\ IsCurrent(current.gen))
    <3>1. UNCHANGED InHand
      BY <1>0, <2>1, <2>2, <2>5, HereIs
    <3> QED BY <1>0, <1>2, <2>1, <2>3, <3>1, CancelsAll
  <2> QED BY <2>4, <2>5
<1> QED BY <1>1, <1>2

\* A step of the driver is a step of Announcer, or none of its business.
LEMMA DriverMapped ==
  ASSUME BaseInv, AnnounceInv, DriverAction,
         AwaitTimesOut => mishaps' > 0, mishaps \in Nat, mishaps' \in Nat, mishaps <= mishaps'
  PROVE  [Promise!Next]_Promise!vars
<1> USE DEF AnnounceInv
<1>0. StillQueued \in Seq(Utterance) /\ Handing \subseteq Rendering
  BY QueueTyped, HereIs
<1>1. CASE UNCHANGED <<StillQueued, stopping, currentGeneration, spokenAs>> /\ ~NextJob
  BY <1>1, WorkerMapped
<1>2. CASE \E u \in Utterance : SpeakUtterance(u) /\ StillQueued' = Append(StillQueued, u)
  BY <1>2, CallsMapped
<1>3. CASE (BeginCancel \/ Terminate) /\ StillQueued' = <<>>
  BY <1>3, CallsMapped
<1>4. CASE NextJob
  <2>1. /\ driverPc = "get" /\ driverPc' \in {"exited", "check"} /\ current' = Head(jobs)
        /\ driverPc' = "exited" <=> Head(jobs) = None
        /\ UNCHANGED <<out, hand, stopping, currentGeneration>>
    BY <1>4 DEF NextJob, DriverGoto, Rest, userVars, playerVars
  <2>2. NowSpoken = <<>> /\ InHand = {} /\ InHand' = {}
    BY <2>1, HereIs DEF Rendering, Handing
  <2>3. CASE /\ Wants(Head(jobs)) /\ StillQueued # <<>>
             /\ Head(StillQueued) = Head(jobs).utt /\ StillQueued' = Tail(StillQueued)
    <3>1. driverPc' = "check" /\ IsCurrent(current.gen)'
      BY <2>1, <2>3 DEF Wants, IsCurrent
    <3>2. NowSpoken' = <<Head(StillQueued)>>
      BY <2>1, <2>3, <3>1, HereIs DEF Rendering
    <3> QED BY <1>0, <2>1, <2>2, <2>3, <3>2, TakesFirst
  <2>4. CASE ~Wants(Head(jobs)) /\ UNCHANGED StillQueued
    <3>1. ~(driverPc' \in Rendering /\ IsCurrent(current.gen)')
      BY <2>1, <2>4 DEF Wants, IsCurrent, Rendering
    <3>2. NowSpoken' = <<>>
      BY <3>1, HereIs
    <3> QED BY <2>1, <2>2, <2>4, <3>2, Stutters
  <2>5. ~(UNCHANGED <<StillQueued, stopping, currentGeneration, spokenAs>> /\ ~NextJob)
    BY <1>4
  <2>6. userPc' = userPc /\ UNCHANGED <<spokenAs, currentGeneration>>
    BY <1>4 DEF NextJob, Rest, userVars
  <2>7. ~BeginCancel /\ ~Terminate
    BY <2>6 DEF BeginCancel, Terminate, UserGoto
  <2>8. \A u : ~SpeakUtterance(u)
    <3>1. driverPc' # driverPc
      BY <2>1
    <3> QED BY <3>1 DEF SpeakUtterance, renderVars
  <2> QED BY <2>3, <2>4, <2>5, <2>7, <2>8, QueueSteps
<1> QED BY <1>1, <1>2, <1>3, <1>4, QueueSteps

\* So is every step of the whole.
LEMMA StepMapped == BaseInv /\ AnnounceInv /\ [Next]_vars => [Promise!Next]_Promise!vars
<1> SUFFICES ASSUME BaseInv, AnnounceInv, [Next]_vars PROVE [Promise!Next]_Promise!vars
  OBVIOUS
<1> USE DEF AnnounceInv
<1>0. mishaps \in Nat /\ mishaps' \in Nat /\ mishaps <= mishaps'
  BY CountsGrow
<1>1. ASSUME UNCHANGED <<userVars, currentGeneration, jobs, current, hand, out>>
      PROVE  /\ StillQueued' = StillQueued
             /\ UNCHANGED current => IsCurrent(current.gen)' = IsCurrent(current.gen)
  BY <1>1, QueueSame DEF userVars, IsCurrent
<1>2. CASE UNCHANGED <<userVars, currentGeneration, jobs, current, hand, out, driverPc>>
  <2>1. UNCHANGED <<NowSpoken, InHand>>
    BY <1>2 DEF NowSpoken, InHand, IsCurrent, userVars
  <2> QED BY <1>1, <1>2, <2>1, Stutters
<1>3. UNCHANGED driverVars \/ UNCHANGED vars \/ HelperDies =>
        UNCHANGED <<userVars, currentGeneration, jobs, current, hand, out, driverPc>>
  BY DEF driverVars, vars, HelperDies, renderVars, playerVars
<1>4. CASE StartHelper \/ StopHelper
  <2>1. /\ UNCHANGED <<userVars, currentGeneration, jobs, current, hand, out>>
        /\ driverPc \in Rendering <=> driverPc' \in Rendering
        /\ driverPc \notin Handing /\ driverPc' \notin Handing
    BY <1>4 DEF StartHelper, StopHelper, DriverGoto, Rendering, Handing, playerVars
  <2>2. UNCHANGED <<NowSpoken, InHand>>
    BY <1>1, <2>1, HereIs
  <2> QED BY <1>1, <2>1, <2>2, Stutters
<1>5. CASE StartFails
  <2>1. /\ UNCHANGED <<userVars, currentGeneration, jobs, current, hand, out>>
        /\ driverPc \notin Handing /\ driverPc' \notin Rendering /\ driverPc' \notin Handing
        /\ mishaps' > 0
    BY <1>0, <1>5 DEF StartFails, DriverGoto, Rendering, Handing, playerVars, Mishap
  <2>2. InHand = {} /\ InHand' = {} /\ NowSpoken' = <<>>
    BY <2>1, HereIs
  <2>3. StillQueued' = StillQueued /\ StillQueued \in Seq(Utterance)
    BY <1>1, <2>1, QueueTyped
  <2>4. CASE NowSpoken = <<>>
    BY <2>1, <2>2, <2>3, <2>4, Stutters
  <2>5. CASE NowSpoken # <<>>
    <3>1. PICK u : u = current.utt
      OBVIOUS
    <3>2. u \in Utterance /\ NowSpoken = <<u>>
      BY <2>5, <3>1, HereIs
    <3> QED BY <2>1, <2>2, <2>3, <3>2, GivesUp
  <2> QED BY <2>4, <2>5
<1>6. CASE Next /\ DriverAction
  <2>1. AwaitTimesOut => mishaps' > 0
    <3>1. ASSUME AwaitTimesOut PROVE mishaps' > 0
      <4>1. driverPc = "await" /\ driverPc' = "restart"
        BY <3>1 DEF AwaitTimesOut, DriverGoto
      <4>2. ~UNCHANGED driverVars /\ ~StartHelper /\ ~StopHelper /\ ~HelperDies
        BY <4>1 DEF driverVars, renderVars, StartHelper, StopHelper, HelperDies, DriverGoto
      <4>3. ~UserCall /\ ~UserEnds /\ ~UserStep /\ ~ReadFrame
        BY <4>1 DEF UserCall, UserEnds, UserStep, SpeakUtterance, Pause,
           BeginCancel, Terminate, DrainJobs, PutSentinel, StopPlayer, JoinDriver, SendCancel,
           ReadFrame, renderVars
      <4>4. ~DriverStep
        <5>1. messages = <<>>
          BY <3>1 DEF AwaitTimesOut
        <5> QED BY <4>1, <5>1 DEF DriverStep, DriverGoto, TestStopping, NextJob, CheckJob,
           EnterRender, NextEvent, NotifyIndex, AlreadyRunning, SendSpeak, AwaitMessage, FeedPlayer,
           Settle, IdlePlayer, Finish, AnnounceDone, LeaveRender
      <4> QED BY <1>6, <4>2, <4>3, <4>4, NextKinds
    <3> QED BY <3>1
  <2> QED BY <1>0, <1>6, <2>1, DriverMapped
<1> QED BY <1>2, <1>3, <1>4, <1>5, <1>6, NextCases

\* At the start nothing is queued, under way or received.
LEMMA AnnounceInitial == Init => AnnounceInv /\ Promise!Init
<1> SUFFICES ASSUME Init PROVE AnnounceInv /\ Promise!Init
  OBVIOUS
<1>1. /\ toGuest = <<>> /\ toHost = <<>> /\ messages = <<>> /\ jobs = <<>> /\ out = <<>>
      /\ pendingJob = NoText /\ job = NoText /\ driverPc = "coldstart" /\ workerPc = "check"
      /\ userPc = "idle" /\ ~stopping /\ succeeded /\ mishaps = 0
  BY Zenon DEF Init, ChannelInit, GuestInit, DriverInit
<1>2. SplitAt(0)
  BY <1>1 DEF SplitAt
<1>3. HeardInv /\ BaseInv
  BY HeardInitial, BaseInitial
<1>4. Stream = <<>> /\ Len(Stream) = 0
  BY <1>1 DEF Stream
<1>5. QueueInv
  BY <1>1, <1>2 DEF QueueInv
<1>6. driverPc \notin Rendering /\ ~Waiting
  BY <1>1 DEF Rendering, Waiting
<1>7. Place /\ OutBegun /\ Frames /\ Mishaps
  BY <1>1, <1>4 DEF Place, OutBegun, Frames, Mishaps
<1>8. Only
  <2>1. workerPc \notin Working
    BY <1>1 DEF Working, Engaged
  <2>2. \A x \in Text : ~InFlight(x)
    BY <1>1, <1>4, <2>1, ChannelAssumption DEF InFlight, Asking, Worked, Carried
  <2> QED BY <2>2 DEF Only
<1>9. Single /\ InOrder /\ Progress
  BY <1>6 DEF Single, InOrder, Progress
<1>10. Promise!Init
  <2>1. NowSpoken = <<>> /\ InHand = {}
    BY <1>3, <1>6, HereIs
  <2>2. StillQueued = <<>>
    <3>1. Unwanted = 0
      BY <1>1, <1>2, <1>3, UnwantedIs DEF BaseInv, DriverTyped
    <3> QED BY <1>1, <3>1 DEF StillQueued
  <2>3. Wanted = <<>>
    BY <2>1, <2>2, WantedIs
  <2> QED BY <1>1, <2>1, <2>3 DEF Promise!Init
<1> QED BY <1>3, <1>5, <1>7, <1>8, <1>9, <1>10 DEF AnnounceInv

\* Every step keeps what the correspondence rests on.
LEMMA AnnounceInductive == BaseInv /\ AnnounceInv /\ [Next]_vars => AnnounceInv'
BY HeardInductive, QueueKept, PlaceKept, OutBegunKept, FramesKept, OnlyKept, SingleKept,
   InOrderKept, ProgressKept DEF AnnounceInv

\* The driver with its threads, its channel and its helper implements Announcer:
\* every index, sample and completion of an utterance reaches NVDA in order and
\* once, whatever is cancelled, timed out, restarted or dead on the way; of a
\* cancelled utterance only the item already in the worker's hand may follow;
\* and none is lost unless a mishap happens.
THEOREM SpeechAnnounces == Spec => Announces
<1>1. Init => BaseInv /\ AnnounceInv /\ Promise!Init
  BY BaseInitial, AnnounceInitial
<1>2. BaseInv /\ AnnounceInv /\ [Next]_vars => (BaseInv /\ AnnounceInv)'
  BY BaseInductive, AnnounceInductive
<1>3. BaseInv /\ AnnounceInv /\ [Next]_vars => [Promise!Next]_Promise!vars
  BY StepMapped
<1> QED BY <1>1, <1>2, <1>3, PTL DEF Spec, Announces, Promise!Spec
==============================================================================
