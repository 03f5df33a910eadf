------------------------- MODULE OutputPipelineProofs -------------------------
(***************************************************************************)
(* Theorems about OutputPipeline, for any length of a line, a chunk and    *)
(* the markers, any capacity of the channel and any amount of output: what *)
(* the scanner finds, what may get lost, what the log says, that every     *)
(* buffer keeps its limit, and what the failure preview shows.             *)
(*                                                                         *)
(* What the model folds over sequences is followed here by functions that  *)
(* pass through the elements one after the other (FoldsUpTo, Passes).      *)
(* Inductions are over sets of numbers: SetInduction takes the set of the  *)
(* numbers for which the claim holds.                                      *)
(***************************************************************************)
EXTENDS OutputPipeline, FiniteSetTheorems, WellFoundedInduction, SequenceTheorems, TLAPS

\* Induction over the natural numbers, for a set instead of a formula.
LEMMA SetInduction ==
    ASSUME NEW S, 0 \in S, \A n \in Nat : n \in S => n + 1 \in S
    PROVE  Nat \subseteq S
<1> SUFFICES ASSUME NEW m \in Nat, m \notin S
             PROVE  FALSE
  OBVIOUS
<1> DEFINE T == Nat \ S
           R == OpToRel(<, Nat)
<1>1. PICK x \in T : \A y \in T : ~ (<<y, x>> \in R)
  <2>1. IsWellFoundedOn(R, Nat) /\ T \subseteq Nat /\ T # {}
    BY NatLessThanWellFounded
  <2> QED
    BY <2>1, WFMin
<1>2. \A y \in T : ~(y < x)
  <2>1. R = {ss \in Nat \X Nat : ss[1] < ss[2]}
    BY DEF OpToRel
  <2> HIDE DEF R
  <2> QED
    BY <1>1, <2>1
<1>3. x # 0 /\ x \in Nat /\ x \notin S
  BY <1>1
<1>4. x - 1 \in Nat /\ x - 1 < x /\ x - 1 + 1 = x
  BY <1>3
<1>5. x - 1 \in S
  BY <1>2, <1>4
<1> QED
  BY <1>3, <1>4, <1>5

\* A fold over the elements of a sequence, one function for each, is well defined.  FoldLeft
\* recurs over sets of indices, of which it takes the largest first.
FoldsSets(g, n, base, step) ==
    g = [S \in SUBSET (1 .. n) |->
           IF S = {} THEN base ELSE step[Max(S)][g[S \ {Max(S)}]]]

LEMMA FoldExists ==
    ASSUME NEW n \in Nat, NEW Y, NEW base \in Y, NEW step \in [1 .. n -> [Y -> Y]]
    PROVE  \E g \in [SUBSET (1 .. n) -> Y] : FoldsSets(g, n, base, step)
<1> DEFINE Folds(k, g) == FoldsSets(g, k, base, step)
           Good == {k \in Nat : k <= n => \E g \in [SUBSET (1 .. k) -> Y] : Folds(k, g)}
<1>0. \A k \in Nat : k \in Good <=> (k <= n => \E g \in [SUBSET (1 .. k) -> Y] : Folds(k, g))
  BY Zenon
<1> HIDE DEF Good, Folds
<1>1. 0 \in Good
  <2> DEFINE g == [S \in SUBSET (1 .. 0) |-> base]
  <2>1. g \in [SUBSET (1 .. 0) -> Y]
    OBVIOUS
  <2>2. \A S \in SUBSET (1 .. 0) : S = {}
    OBVIOUS
  <2>3. Folds(0, g)
    BY <2>2 DEF Folds, FoldsSets
  <2> HIDE DEF g
  <2> QED
    BY <1>0, <2>1, <2>3
<1>2. ASSUME NEW k \in Nat, k \in Good
      PROVE  k + 1 \in Good
  <2> SUFFICES ASSUME k + 1 <= n
               PROVE  \E g \in [SUBSET (1 .. (k + 1)) -> Y] : Folds(k + 1, g)
    <3>1. k + 1 \in Nat
      OBVIOUS
    <3> QED
      BY <1>0, <3>1, Zenon
  <2>1. PICK f \in [SUBSET (1 .. k) -> Y] : Folds(k, f)
    <3>1. k <= n
      OBVIOUS
    <3> QED
      BY <1>0, <1>2, <3>1, Zenon
  <2> DEFINE g == [S \in SUBSET (1 .. (k + 1)) |->
                     IF k + 1 \in S THEN step[k + 1][f[S \ {k + 1}]] ELSE f[S]]
  <2>2. ASSUME NEW S \in SUBSET (1 .. (k + 1))
        PROVE  /\ k + 1 \in S => S \ {k + 1} \in SUBSET (1 .. k) /\ Max(S) = k + 1
               /\ k + 1 \notin S => S \in SUBSET (1 .. k)
    <3>1. ASSUME k + 1 \in S
          PROVE  Max(S) = k + 1
      <4>1. k + 1 \in S /\ \A y \in S : k + 1 >= y
        BY <3>1
      <4>2. Max(S) \in S /\ \A y \in S : Max(S) >= y
        BY <4>1, Zenon DEF Max
      <4>3. Max(S) >= k + 1 /\ k + 1 >= Max(S) /\ Max(S) \in 1 .. (k + 1)
        BY <4>1, <4>2
      <4> QED
        BY <4>3
    <3> QED
      BY <3>1
  <2>3. g \in [SUBSET (1 .. (k + 1)) -> Y]
    <3> SUFFICES ASSUME NEW S \in SUBSET (1 .. (k + 1))
                 PROVE  g[S] \in Y
      OBVIOUS
    <3>1. k + 1 \in 1 .. n
      OBVIOUS
    <3> QED
      BY <2>2, <3>1
  <2>4. Folds(k + 1, g)
    <3> SUFFICES ASSUME NEW S \in SUBSET (1 .. (k + 1))
                 PROVE  g[S] = IF S = {} THEN base ELSE step[Max(S)][g[S \ {Max(S)}]]
      BY Zenon DEF Folds, FoldsSets
    <3>1. CASE k + 1 \in S
      <4>1. g[S] = step[k + 1][f[S \ {k + 1}]]
        BY <3>1
      <4>2. S \ {k + 1} \in SUBSET (1 .. (k + 1)) /\ S # {} /\ k + 1 \notin S \ {k + 1}
        BY <3>1
      <4>3. g[S \ {k + 1}] = f[S \ {k + 1}]
        BY <4>2
      <4> QED
        BY <2>2, <3>1, <4>1, <4>2, <4>3
    <3>2. CASE k + 1 \notin S
      <4>1. g[S] = f[S] /\ S \in SUBSET (1 .. k)
        BY <2>2, <3>2
      <4>2. S \ {Max(S)} \in SUBSET (1 .. (k + 1)) /\ k + 1 \notin S \ {Max(S)}
        BY <3>2
      <4>3. g[S \ {Max(S)}] = f[S \ {Max(S)}]
        BY <4>2
      <4>4. f[S] = IF S = {} THEN base ELSE step[Max(S)][f[S \ {Max(S)}]]
        BY <2>1, <4>1, Zenon DEF Folds, FoldsSets
      <4> QED
        BY <4>1, <4>3, <4>4
    <3> QED
      BY <3>1, <3>2
  <2> HIDE DEF g
  <2> QED
    BY <2>3, <2>4
<1>3. n \in Good
  BY <1>1, <1>2, SetInduction
<1> QED
  <2>1. \E g \in [SUBSET (1 .. n) -> Y] : Folds(n, g)
    <3>1. n <= n
      OBVIOUS
    <3> QED
      BY <1>0, <1>3, <3>1, Zenon
  <2> QED
    BY <2>1 DEF Folds

\* A fold passes through the elements of the sequence one after the other, and no value it
\* passes through leaves the set that the steps preserve.
FoldsUpTo(h, n, Y, base, step) ==
    /\ DOMAIN h = 0 .. n /\ h = [k \in 0 .. n |-> h[k]] /\ h[0] = base
    /\ \A k \in 1 .. n : h[k - 1] \in Y => h[k] = step[k][h[k - 1]]

LEMMA FoldSteps ==
    ASSUME NEW n \in Nat, NEW Y, NEW base \in Y, NEW step \in [1 .. n -> [Y -> Y]],
           NEW h, FoldsUpTo(h, n, Y, base, step)
    PROVE  h \in [0 .. n -> Y]
<1> USE DEF FoldsUpTo
<1> DEFINE Good == {k \in Nat : k <= n => h[k] \in Y}
<1>1. 0 \in Good
  OBVIOUS
<1>2. ASSUME NEW k \in Nat, k \in Good
      PROVE  k + 1 \in Good
  <2> SUFFICES ASSUME k + 1 <= n
               PROVE  h[k + 1] \in Y
    OBVIOUS
  <2>1. k + 1 \in 1 .. n /\ (k + 1) - 1 = k /\ h[k] \in Y
    BY <1>2
  <2>2. h[k + 1] = step[k + 1][h[k]]
    BY <2>1
  <2>3. step[k + 1] \in [Y -> Y]
    BY <2>1
  <2> QED
    BY <2>1, <2>2, <2>3
<1> HIDE DEF Good
<1>3. Nat \subseteq Good
  BY <1>1, <1>2, SetInduction
<1>4. \A k \in 0 .. n : h[k] \in Y
  BY <1>3 DEF Good
<1> QED
  BY <1>4

\* The largest index of an initial stretch is the last, and without it the stretch is one
\* shorter.
LEMMA MaxOfStretch ==
    ASSUME NEW k \in Nat \ {0}
    PROVE  1 .. k # {} /\ Max(1 .. k) = k /\ (1 .. k) \ {k} = 1 .. (k - 1)
<1>1. k \in 1 .. k /\ \A y \in 1 .. k : k >= y
  OBVIOUS
<1>2. Max(1 .. k) \in 1 .. k /\ \A y \in 1 .. k : Max(1 .. k) >= y
  BY <1>1, Zenon DEF Max
<1>3. Max(1 .. k) = k
  BY <1>1, <1>2
<1> QED
  BY <1>1, <1>3

\* So has every set of indices one.
LEMMA MaxOfSubset ==
    ASSUME NEW n \in Nat, NEW S \in SUBSET (1 .. n), S # {}
    PROVE  Max(S) \in S /\ \A y \in S : Max(S) >= y
<1> DEFINE Upper == {k \in Nat : \A T \in SUBSET (1 .. k) : T # {} => \E x \in T : \A y \in T : x >= y}
<1>1. 0 \in Upper
  <2>1. 1 .. 0 = {}
    OBVIOUS
  <2> QED
    BY <2>1
<1>2. ASSUME NEW k \in Nat, k \in Upper
      PROVE  k + 1 \in Upper
  <2> SUFFICES ASSUME NEW T \in SUBSET (1 .. (k + 1)), T # {}
               PROVE  \E x \in T : \A y \in T : x >= y
    OBVIOUS
  <2>1. CASE k + 1 \in T
    BY <2>1
  <2>2. CASE k + 1 \notin T
    <3>1. T \in SUBSET (1 .. k)
      BY <2>2
    <3> QED
      BY <1>2, <3>1
  <2> QED
    BY <2>1, <2>2
<1> HIDE DEF Upper
<1>3. n \in Upper
  BY <1>1, <1>2, SetInduction
<1>4. \E x \in S : \A y \in S : x >= y
  BY <1>3 DEF Upper
<1> QED
  BY <1>4, Zenon DEF Max

-----------------------------------------------------------------------------
Event == [kind: {"chunk", "done", "error"}, source: StreamSource, bytes: Seq(Byte)]

QueuedStep(events, s, i, bytes) ==
    IF events[i].source = s THEN bytes \o events[i].bytes ELSE bytes

\* What is queued of a stream, event by event.
QueueFold(events, s, h) ==
    /\ h \in [0 .. Len(events) -> Seq(Byte)] /\ h[0] = <<>>
    /\ \A k \in 1 .. Len(events) : h[k] = QueuedStep(events, s, k, h[k - 1])

\* Queued, for any state of the channel.
QueuedIn(events, s) ==
    FoldLeft(LAMBDA bytes, event : IF event.source = s THEN bytes \o event.bytes ELSE bytes,
             <<>>, events)

LEMMA QueuedIsFold ==
    ASSUME NEW events \in Seq(Event), NEW s
    PROVE  \E h : QueueFold(events, s, h) /\ QueuedIn(events, s) = h[Len(events)]
<1> DEFINE n == Len(events)
           step == [i \in 1 .. n |-> [bytes \in Seq(Byte) |-> QueuedStep(events, s, i, bytes)]]
           Raw(c) == c = [S \in SUBSET (1 .. n) |->
                            IF S = {} THEN <<>>
                            ELSE QueuedStep(events, s, Max(S), c[S \ {Max(S)}])]
<1>1. n \in Nat /\ DOMAIN events = 1 .. n /\ <<>> \in Seq(Byte)
  OBVIOUS
<1>2. \A i \in 1 .. n, bytes \in Seq(Byte) : QueuedStep(events, s, i, bytes) \in Seq(Byte)
  <2> SUFFICES ASSUME NEW i \in 1 .. n, NEW bytes \in Seq(Byte)
               PROVE  QueuedStep(events, s, i, bytes) \in Seq(Byte)
    OBVIOUS
  <2>1. events[i] \in Event
    OBVIOUS
  <2>2. events[i].bytes \in Seq(Byte)
    BY <2>1 DEF Event
  <2> QED
    BY <2>2 DEF QueuedStep
<1>3. step \in [1 .. n -> [Seq(Byte) -> Seq(Byte)]]
  BY <1>2
<1>4. \E c : Raw(c)
  <2>1. PICK c \in [SUBSET (1 .. n) -> Seq(Byte)] : FoldsSets(c, n, <<>>, step)
    <3> HIDE DEF step, n
    <3> QED
      BY <1>1, <1>3, FoldExists
  <2>2. ASSUME NEW S \in SUBSET (1 .. n), S # {}
        PROVE  step[Max(S)][c[S \ {Max(S)}]] = QueuedStep(events, s, Max(S), c[S \ {Max(S)}])
    <3>1. Max(S) \in 1 .. n
      <4> HIDE DEF n
      <4> QED
        BY <1>1, <2>2, MaxOfSubset
    <3>2. c[S \ {Max(S)}] \in Seq(Byte)
      OBVIOUS
    <3> QED
      BY <3>1, <3>2
  <2>3. Raw(c)
    <3> HIDE DEF step, n
    <3> QED
      BY <2>1, <2>2 DEF FoldsSets
  <2> QED
    BY <2>3
<1>5. PICK c : Raw(c) /\ QueuedIn(events, s) = c[1 .. n]
  <2>1. Raw(CHOOSE c : Raw(c))
    BY <1>4
  <2>2. QueuedIn(events, s) = (CHOOSE c : Raw(c))[1 .. n]
    BY <1>1 DEF QueuedIn, FoldLeft, MapThenFoldSet, QueuedStep
  <2> QED
    BY <2>1, <2>2
<1> DEFINE h == [k \in 0 .. n |-> c[1 .. k]]
<1>6. DOMAIN h = 0 .. n /\ h = [k \in 0 .. n |-> h[k]] /\ h[0] = <<>> /\ h[n] = c[1 .. n]
  <2>1. 1 .. 0 = {}
    OBVIOUS
  <2> QED
    BY <1>5, <2>1
<1>7. \A k \in 1 .. n : h[k] = QueuedStep(events, s, k, h[k - 1])
  <2> SUFFICES ASSUME NEW k \in 1 .. n
               PROVE  h[k] = QueuedStep(events, s, k, h[k - 1])
    OBVIOUS
  <2>1. 1 .. k \in SUBSET (1 .. n) /\ 1 .. k # {} /\ Max(1 .. k) = k
        /\ (1 .. k) \ {k} = 1 .. (k - 1)
    BY SMTT(40), MaxOfStretch
  <2>2. c[1 .. k] = QueuedStep(events, s, k, c[1 .. (k - 1)])
    BY <1>5, <2>1
  <2> QED
    BY <2>2
<1> HIDE DEF h
<1>8. h \in [0 .. n -> Seq(Byte)]
  <2>1. \A k \in 1 .. n : h[k - 1] \in Seq(Byte) => h[k] = step[k][h[k - 1]]
    BY <1>7
  <2> HIDE DEF step, n
  <2>2. FoldsUpTo(h, n, Seq(Byte), <<>>, step)
    BY <1>6, <2>1 DEF FoldsUpTo
  <2> QED
    BY <1>1, <1>3, <2>2, FoldSteps
<1> QED
  BY <1>5, <1>6, <1>7, <1>8 DEF QueueFold

\* A function that passes through the events is the only one.
LEMMA QueueFoldUnique ==
    ASSUME NEW events \in Seq(Event), NEW s, NEW h, QueueFold(events, s, h)
    PROVE  QueuedIn(events, s) = h[Len(events)] /\ QueuedIn(events, s) \in Seq(Byte)
<1> DEFINE n == Len(events)
<1>1. PICK g : QueueFold(events, s, g) /\ QueuedIn(events, s) = g[n]
  BY QueuedIsFold
<1> DEFINE Same == {k \in Nat : k <= n => h[k] = g[k]}
<1>2. 0 \in Same
  BY <1>1 DEF QueueFold
<1>3. ASSUME NEW k \in Nat, k \in Same
      PROVE  k + 1 \in Same
  <2> SUFFICES ASSUME k + 1 <= n
               PROVE  h[k + 1] = g[k + 1]
    OBVIOUS
  <2>1. k + 1 \in 1 .. n /\ (k + 1) - 1 = k /\ h[k] = g[k]
    BY <1>3
  <2> QED
    BY <1>1, <2>1 DEF QueueFold
<1> HIDE DEF Same
<1>4. Nat \subseteq Same
  BY <1>2, <1>3, SetInduction
<1>5. n \in Nat /\ n \in 0 .. n
  OBVIOUS
<1>6. h[n] = g[n]
  BY <1>4, <1>5 DEF Same
<1>7. g[n] \in Seq(Byte)
  BY <1>1, <1>5 DEF QueueFold
<1> QED
  BY <1>1, <1>6, <1>7

LEMMA QueuedInEmpty ==
    ASSUME NEW s
    PROVE  QueuedIn(<<>>, s) = <<>>
<1>1. <<>> \in Seq(Event) /\ Len(<<>>) = 0
  OBVIOUS
<1>2. QueueFold(<<>>, s, [k \in 0 .. 0 |-> <<>>])
  BY DEF QueueFold
<1> QED
  BY <1>1, <1>2, QueueFoldUnique

Share(event, s) == IF event.source = s THEN event.bytes ELSE <<>>

\* What joins the channel comes last of its stream.
LEMMA QueuedInAppend ==
    ASSUME NEW events \in Seq(Event), NEW event \in Event, NEW s
    PROVE  /\ QueuedIn(Append(events, event), s) = QueuedIn(events, s) \o Share(event, s)
           /\ QueuedIn(events, s) \in Seq(Byte)
<1> DEFINE n == Len(events)
           longer == Append(events, event)
<1>1. PICK h : QueueFold(events, s, h) /\ QueuedIn(events, s) = h[n]
  BY QueuedIsFold
<1> DEFINE g == [k \in 0 .. (n + 1) |-> IF k <= n THEN h[k] ELSE h[n] \o Share(event, s)]
<1>2. n \in Nat /\ longer \in Seq(Event) /\ Len(longer) = n + 1 /\ longer[n + 1] = event
      /\ \A k \in 1 .. n : longer[k] = events[k]
  OBVIOUS
<1>3. h \in [0 .. n -> Seq(Byte)] /\ h[n] \in Seq(Byte)
  BY <1>1, <1>2 DEF QueueFold
<1>4. event.bytes \in Seq(Byte) /\ Share(event, s) \in Seq(Byte)
      /\ h[n] \o <<>> = h[n]
  BY <1>3 DEF Event, Share
<1>5. QueueFold(longer, s, g)
  <2>1. g \in [0 .. (n + 1) -> Seq(Byte)]
    BY <1>3, <1>4
  <2>2. g[0] = <<>>
    BY <1>1, <1>2 DEF QueueFold
  <2>3. ASSUME NEW k \in 1 .. (n + 1)
        PROVE  g[k] = QueuedStep(longer, s, k, g[k - 1])
    <3>1. CASE k <= n
      <4>1. k \in 1 .. n /\ k - 1 <= n /\ g[k] = h[k] /\ g[k - 1] = h[k - 1]
        BY <1>2, <3>1
      <4> QED
        BY <1>1, <1>2, <4>1 DEF QueueFold, QueuedStep
    <3>2. CASE k = n + 1
      <4>1. g[k - 1] = h[n] /\ g[k] = h[n] \o Share(event, s)
        BY <1>2, <3>2
      <4> QED
        BY <1>2, <1>4, <3>2, <4>1 DEF QueuedStep, Share
    <3> QED
      BY <1>2, <3>1, <3>2
  <2> HIDE DEF g, longer
  <2> QED
    BY <1>2, <2>1, <2>2, <2>3 DEF QueueFold
<1>6. g[n + 1] = h[n] \o Share(event, s)
  BY <1>2
<1> HIDE DEF g, longer
<1> QED
  BY <1>1, <1>2, <1>3, <1>5, <1>6, QueueFoldUnique DEF longer

\* What leaves the channel came first of its stream.
LEMMA QueuedInTail ==
    ASSUME NEW events \in Seq(Event), events # <<>>, NEW s
    PROVE  /\ QueuedIn(events, s) = Share(Head(events), s) \o QueuedIn(Tail(events), s)
           /\ QueuedIn(Tail(events), s) \in Seq(Byte)
<1> DEFINE n == Len(events)
           rest == Tail(events)
           share == Share(Head(events), s)
<1>1. /\ n \in Nat \ {0} /\ rest \in Seq(Event) /\ Len(rest) = n - 1
      /\ Head(events) = events[1] /\ Head(events) \in Event
      /\ \A k \in 1 .. (n - 1) : rest[k] = events[k + 1]
  OBVIOUS
<1>2. PICK h : QueueFold(events, s, h) /\ QueuedIn(events, s) = h[n]
  BY QueuedIsFold
<1>3. PICK g : QueueFold(rest, s, g) /\ QueuedIn(rest, s) = g[n - 1]
  <2> HIDE DEF rest
  <2> QED
    BY <1>1, QueuedIsFold
<1>4. share \in Seq(Byte)
  BY <1>1 DEF Share, Event
<1> HIDE DEF rest
<1>5. /\ h[0] = <<>> /\ \A k \in 1 .. n : h[k] = QueuedStep(events, s, k, h[k - 1])
      /\ g \in [0 .. (n - 1) -> Seq(Byte)]
      /\ g[0] = <<>> /\ \A k \in 1 .. (n - 1) : g[k] = QueuedStep(rest, s, k, g[k - 1])
  BY <1>1, <1>2, <1>3 DEF QueueFold
<1>a. \A k \in 1 .. n : events[k].bytes \in Seq(Byte)
  <2>1. \A k \in 1 .. n : events[k] \in Event
    OBVIOUS
  <2> QED
    BY <2>1 DEF Event
<1> HIDE DEF n
<1> DEFINE Good == {k \in Nat : k <= n - 1 => h[k + 1] = share \o g[k]}
<1>b. 0 \in Good
  <2>1. 1 \in 1 .. n /\ 1 - 1 = 0
    BY <1>1
  <2>2. h[1] = QueuedStep(events, s, 1, <<>>)
    BY <1>5, <2>1
  <2>3. share \o <<>> = share
    BY <1>4
  <2>4. h[1] = share
    <3>1. events[1].bytes \in Seq(Byte)
      BY <1>a, <2>1
    <3> QED
      BY <1>1, <2>2, <3>1 DEF QueuedStep, Share
  <2>5. h[0 + 1] = share \o g[0]
    <3> HIDE DEF share
    <3> QED
      BY <1>5, <2>3, <2>4
  <2> QED
    BY <2>5
<1>6. ASSUME NEW k \in Nat, k \in Good
      PROVE  k + 1 \in Good
  <2> SUFFICES ASSUME k + 1 <= n - 1
               PROVE  h[(k + 1) + 1] = share \o g[k + 1]
    <3> HIDE DEF share
    <3> QED
      OBVIOUS
  <2>1. /\ k + 1 \in 1 .. (n - 1) /\ k + 2 \in 1 .. n /\ (k + 2) - 1 = k + 1
        /\ (k + 1) + 1 = k + 2 /\ (k + 1) - 1 = k /\ k <= n - 1 /\ k \in 0 .. (n - 1)
    BY <1>1
  <2>a. h[k + 1] = share \o g[k]
    <3> HIDE DEF share
    <3> QED
      BY <1>6, <2>1
  <2>2. h[k + 2] = QueuedStep(events, s, k + 2, h[k + 1])
    BY <1>5, <2>1
  <2>3. g[k + 1] = QueuedStep(rest, s, k + 1, g[k]) /\ g[k] \in Seq(Byte)
    BY <1>5, <2>1
  <2>4. rest[k + 1] = events[k + 2] /\ events[k + 2].bytes \in Seq(Byte)
    BY <1>1, <1>a, <2>1
  <2>5. (share \o g[k]) \o events[k + 2].bytes = share \o (g[k] \o events[k + 2].bytes)
    <3>1. share \in Seq(Byte) /\ g[k] \in Seq(Byte) /\ events[k + 2].bytes \in Seq(Byte)
      BY <1>4, <1>a, <2>1, <2>3
    <3> DEFINE later == events[k + 2].bytes
               gk == g[k]
    <3> HIDE DEF share, later, gk
    <3>2. share \in Seq(Byte) /\ gk \in Seq(Byte) /\ later \in Seq(Byte)
      BY <3>1 DEF later, gk
    <3>3. (share \o gk) \o later = share \o (gk \o later)
      BY <3>2, ConcatAssociative, SMTT(30)
    <3> QED
      BY <3>3 DEF later, gk
  <2> HIDE DEF share
  <2> QED
    BY <2>1, <2>a, <2>2, <2>3, <2>4, <2>5 DEF QueuedStep
<1> HIDE DEF Good
<1>7. Nat \subseteq Good
  BY <1>b, <1>6, SetInduction
<1>8. n - 1 \in Nat /\ n - 1 <= n - 1 /\ (n - 1) + 1 = n
  BY <1>1
<1>9. h[n] = share \o g[n - 1]
  BY <1>7, <1>8 DEF Good
<1>10. g[n - 1] \in Seq(Byte)
  BY <1>5, <1>8
<1> QED
  BY <1>2, <1>3, <1>9, <1>10 DEF rest, n

\* A stream without an event in the channel has nothing queued.
LEMMA QueuedInNone ==
    ASSUME NEW events \in Seq(Event), NEW s, \A i \in DOMAIN events : events[i].source # s
    PROVE  QueuedIn(events, s) = <<>>
<1> DEFINE h == [k \in 0 .. Len(events) |-> <<>>]
<1>1. QueueFold(events, s, h)
  BY DEF QueueFold, QueuedStep
<1>2. h[Len(events)] = <<>>
  OBVIOUS
<1> HIDE DEF h
<1> QED
  BY <1>1, <1>2, QueueFoldUnique

-----------------------------------------------------------------------------
(* The marker scanner *)

LEMMA MarkersAreWords ==
    ASSUME NEW m \in Markers
    PROVE  m \in Seq(Byte) /\ Len(m) \in Nat \ {0}
<1>1. m \in Seq(Byte) /\ m # <<>>
  BY OutputConstants
<1> QED
  BY <1>1, EmptySeq

\* There is a longest marker.
LEMMA LongestMarker ==
    \E m \in Markers : \A w \in Markers : Len(m) >= Len(w)
<1> DEFINE HasLongest(M) == \E m \in M : \A w \in M : Len(m) >= Len(w)
           Good == {k \in Nat : \A M \in SUBSET Markers :
                      IsFiniteSet(M) /\ Cardinality(M) = k /\ M # {} => HasLongest(M)}
<1>1. 0 \in Good
  BY FS_EmptySet
<1>2. ASSUME NEW k \in Nat, k \in Good
      PROVE  k + 1 \in Good
  <2> SUFFICES ASSUME NEW M \in SUBSET Markers, IsFiniteSet(M), Cardinality(M) = k + 1,
                      M # {}
               PROVE  HasLongest(M)
    OBVIOUS
  <2>1. PICK x \in M : TRUE
    OBVIOUS
  <2>2. IsFiniteSet(M \ {x}) /\ Cardinality(M \ {x}) = k /\ M \ {x} \in SUBSET Markers
    BY FS_RemoveElement
  <2>3. CASE M \ {x} = {}
    <3>1. M = {x}
      BY <2>3
    <3>2. Len(x) \in Nat
      BY MarkersAreWords
    <3> QED
      BY <3>1, <3>2
  <2>4. CASE M \ {x} # {}
    <3>1. PICK m \in M \ {x} : \A w \in M \ {x} : Len(m) >= Len(w)
      BY <1>2, <2>2, <2>4
    <3>2. Len(x) \in Nat /\ \A w \in M : Len(w) \in Nat
      BY MarkersAreWords
    <3>3. CASE Len(m) >= Len(x)
      BY <3>1, <3>3
    <3>4. CASE ~(Len(m) >= Len(x))
      <4>1. \A w \in M : Len(x) >= Len(w)
        BY <3>1, <3>2, <3>4
      <4> QED
        BY <4>1
    <3> QED
      BY <3>3, <3>4
  <2> QED
    BY <2>3, <2>4
<1> HIDE DEF Good
<1>3. Cardinality(Markers) \in Nat
  BY OutputConstants, FS_CardinalityType
<1>4. Cardinality(Markers) \in Good
  BY <1>1, <1>2, <1>3, SetInduction
<1>5. HasLongest(Markers)
  BY <1>4, OutputConstants DEF Good
<1> QED
  BY <1>5

\* What is kept of a stream is one byte less than the longest marker.
LEMMA OverlapBounds ==
    Overlap \in Nat /\ \A m \in Markers : Len(m) <= Overlap + 1
<1> DEFINE Lengths == {Len(m) : m \in Markers}
<1>1. \E l \in Lengths : \A y \in Lengths : l >= y
  BY LongestMarker
<1>2. Max(Lengths) \in Lengths /\ \A y \in Lengths : Max(Lengths) >= y
  BY <1>1, Zenon DEF Max
<1>3. \A m \in Markers : Len(m) \in Nat \ {0}
  BY MarkersAreWords
<1>4. Max(Lengths) \in Nat \ {0}
  BY <1>2, <1>3
<1>5. \A m \in Markers : Max(Lengths) >= Len(m)
  BY <1>2
<1>6. Overlap = Max(Lengths) - 1
  BY DEF Overlap
<1> HIDE DEF Lengths
<1> QED
  BY <1>3, <1>4, <1>5, <1>6

LEMMA OccursAt ==
    ASSUME NEW m \in Seq(Byte), NEW t \in Seq(Byte)
    PROVE  Occurs(m, t) <=>
             \E i \in 0 .. Len(t) - Len(m) : \A j \in 1 .. Len(m) : t[i + j] = m[j]
<1>1. ASSUME NEW i \in 0 .. Len(t) - Len(m)
      PROVE  SubSeq(t, i + 1, i + Len(m)) = m <=> \A j \in 1 .. Len(m) : t[i + j] = m[j]
  <2> DEFINE part == SubSeq(t, i + 1, i + Len(m))
  <2>1. part \in Seq(Byte) /\ Len(part) = Len(m)
        /\ \A j \in 1 .. Len(m) : part[j] = t[i + j]
    <3>1. i + 1 \in Int /\ i + Len(m) \in Int /\ \A k \in i + 1 .. i + Len(m) : t[k] \in Byte
      OBVIOUS
    <3>2. /\ part \in Seq(Byte)
          /\ Len(part) = IF i + 1 <= i + Len(m) THEN i + Len(m) - (i + 1) + 1 ELSE 0
          /\ \A j \in 1 .. (i + Len(m)) - (i + 1) + 1 : part[j] = t[(i + 1) + j - 1]
      BY <3>1, SubSeqProperties
    <3>3. Len(part) = Len(m)
      BY <3>2
    <3>4. (i + Len(m)) - (i + 1) + 1 = Len(m) /\ \A j \in 1 .. Len(m) : (i + 1) + j - 1 = i + j
      OBVIOUS
    <3> HIDE DEF part
    <3> QED
      BY <3>2, <3>3, <3>4
  <2> HIDE DEF part
  <2>2. ASSUME \A j \in 1 .. Len(m) : t[i + j] = m[j]
        PROVE  part = m
    BY <2>1, <2>2, SeqEqual
  <2>3. part = m => \A j \in 1 .. Len(m) : t[i + j] = m[j]
    BY <2>1
  <2> QED
    BY <2>2, <2>3 DEF part
<1> QED
  BY <1>1 DEF Occurs

\* The kept suffix and what follows are the end of the stream.
LEMMA SuffixShape ==
    ASSUME NEW t \in Seq(Byte)
    PROVE  /\ Suffix(t) \in Seq(Byte) /\ Len(Suffix(t)) <= Len(t)
           /\ Len(Suffix(t)) = IF Len(t) > Overlap THEN Overlap ELSE Len(t)
           /\ \A j \in 1 .. Len(Suffix(t)) : Suffix(t)[j] = t[(Len(t) - Len(Suffix(t))) + j]
<1>1. CASE Len(t) > Overlap
  <2> DEFINE first == Len(t) - Overlap + 1
  <2>1. Suffix(t) = SubSeq(t, first, Len(t))
    BY <1>1 DEF Suffix
  <2>2. first \in Int /\ Len(t) \in Int /\ \A k \in first .. Len(t) : t[k] \in Byte
    BY <1>1, OverlapBounds
  <2>3. /\ Suffix(t) \in Seq(Byte)
        /\ Len(Suffix(t)) = IF first <= Len(t) THEN Len(t) - first + 1 ELSE 0
        /\ \A j \in 1 .. Len(t) - first + 1 : Suffix(t)[j] = t[first + j - 1]
    BY <2>1, <2>2, SubSeqProperties
  <2>4. Len(Suffix(t)) = Overlap
    BY <1>1, <2>3, OverlapBounds
  <2>5. \A j \in 1 .. Overlap : j \in 1 .. Len(t) - first + 1 /\ first + j - 1 = (Len(t) - Overlap) + j
    BY <1>1, OverlapBounds
  <2>6. \A j \in 1 .. Overlap : Suffix(t)[j] = t[(Len(t) - Overlap) + j]
    <3> HIDE DEF first
    <3> QED
      BY <2>3, <2>5
  <2>7. Suffix(t) \in Seq(Byte) /\ Overlap \in Nat /\ Len(t) \in Nat /\ Overlap <= Len(t)
    BY <1>1, <2>3, OverlapBounds
  <2> QED
    BY <1>1, <2>4, <2>6, <2>7
<1>2. CASE ~(Len(t) > Overlap)
  <2>1. Suffix(t) = t
    BY <1>2, SubSeqFull DEF Suffix
  <2> QED
    BY <1>2, <2>1
<1> QED
  BY <1>1, <1>2

LEMMA WindowShape ==
    ASSUME NEW t \in Seq(Byte), NEW b \in Seq(Byte)
    PROVE  /\ t \o b \in Seq(Byte) /\ Suffix(t) \o b \in Seq(Byte)
           /\ Len(t \o b) = Len(t) + Len(b)
           /\ Len(Suffix(t) \o b) = Len(Suffix(t)) + Len(b)
           /\ \A j \in 1 .. Len(Suffix(t)) + Len(b) :
                (Suffix(t) \o b)[j] = (t \o b)[(Len(t) - Len(Suffix(t))) + j]
<1> DEFINE u == Suffix(t)
           d == Len(t) - Len(u)
<1>1. /\ u \in Seq(Byte) /\ Len(u) <= Len(t) /\ Len(u) \in Nat /\ Len(t) \in Nat /\ Len(b) \in Nat
      /\ \A j \in 1 .. Len(u) : u[j] = t[d + j]
  <2>1. u \in Seq(Byte) /\ Len(u) <= Len(t)
    BY SuffixShape, Zenon
  <2>2. \A j \in 1 .. Len(u) : u[j] = t[d + j]
    BY SuffixShape, Zenon
  <2> HIDE DEF u
  <2>3. Len(u) \in Nat /\ Len(t) \in Nat /\ Len(b) \in Nat
    BY <2>1
  <2> QED
    BY <2>1, <2>2, <2>3
<1> HIDE DEF u
<1>2. /\ t \o b \in Seq(Byte) /\ Len(t \o b) = Len(t) + Len(b)
      /\ \A i \in 1 .. Len(t) + Len(b) :
           (t \o b)[i] = IF i <= Len(t) THEN t[i] ELSE b[i - Len(t)]
  BY ConcatProperties
<1>3. /\ u \o b \in Seq(Byte) /\ Len(u \o b) = Len(u) + Len(b)
      /\ \A i \in 1 .. Len(u) + Len(b) :
           (u \o b)[i] = IF i <= Len(u) THEN u[i] ELSE b[i - Len(u)]
  BY <1>1, ConcatProperties
<1>4. ASSUME NEW j \in 1 .. Len(u) + Len(b)
      PROVE  (u \o b)[j] = (t \o b)[d + j]
  <2>1. d + j \in 1 .. Len(t) + Len(b)
    BY <1>1
  <2>2. CASE j <= Len(u)
    <3>1. d + j <= Len(t) /\ j \in 1 .. Len(u)
      BY <1>1, <2>2
    <3> QED
      BY <1>1, <1>2, <1>3, <2>1, <2>2, <3>1
  <2>3. CASE ~(j <= Len(u))
    <3>1. ~(d + j <= Len(t)) /\ (d + j) - Len(t) = j - Len(u)
      BY <1>1, <2>3
    <3> QED
      BY <1>2, <1>3, <2>1, <2>3, <3>1
  <2> QED
    BY <2>2, <2>3
<1> QED
  BY <1>2, <1>3, <1>4 DEF u

LEMMA MarkerStays ==
    ASSUME NEW t \in Seq(Byte), NEW b \in Seq(Byte), HasMarker(t)
    PROVE  HasMarker(t \o b)
<1>1. PICK m \in Markers : Occurs(m, t)
  BY DEF HasMarker
<1>2. m \in Seq(Byte) /\ Len(m) \in Nat \ {0}
  BY MarkersAreWords
<1>3. PICK i \in 0 .. Len(t) - Len(m) : \A j \in 1 .. Len(m) : t[i + j] = m[j]
  BY <1>1, <1>2, OccursAt
<1>4. /\ t \o b \in Seq(Byte) /\ Len(t \o b) = Len(t) + Len(b) /\ Len(t) \in Nat /\ Len(b) \in Nat
      /\ \A k \in 1 .. Len(t) : (t \o b)[k] = t[k]
  BY ConcatProperties
<1>5. i \in 0 .. Len(t \o b) - Len(m) /\ \A j \in 1 .. Len(m) : i + j \in 1 .. Len(t)
  BY <1>2, <1>3, <1>4
<1>6. \A j \in 1 .. Len(m) : (t \o b)[i + j] = m[j]
  BY <1>3, <1>4, <1>5
<1>7. Occurs(m, t \o b)
  BY <1>2, <1>4, <1>5, <1>6, OccursAt
<1> QED
  BY <1>7 DEF HasMarker

\* To look at the kept suffix and the new bytes is to look at the whole stream, as long as it
\* had no marker before.
LEMMA WindowSeesAll ==
    ASSUME NEW t \in Seq(Byte), NEW b \in Seq(Byte), ~HasMarker(t)
    PROVE  HasMarker(Suffix(t) \o b) <=> HasMarker(t \o b)
<1> DEFINE u == Suffix(t)
           w == Suffix(t) \o b
           whole == t \o b
           d == Len(t) - Len(u)
<1>1. /\ Len(u) \in Nat /\ Len(t) \in Nat /\ Len(b) \in Nat /\ d \in Nat
      /\ Len(u) = IF Len(t) > Overlap THEN Overlap ELSE Len(t)
  <2>1. u \in Seq(Byte) /\ Len(u) <= Len(t)
        /\ Len(u) = IF Len(t) > Overlap THEN Overlap ELSE Len(t)
    BY SuffixShape, Zenon
  <2> HIDE DEF u
  <2> QED
    BY <2>1
<1>2. /\ whole \in Seq(Byte) /\ w \in Seq(Byte)
      /\ Len(whole) = Len(t) + Len(b) /\ Len(w) = Len(u) + Len(b)
      /\ \A j \in 1 .. Len(u) + Len(b) : w[j] = whole[d + j]
  BY WindowShape
<1>3. \A k \in 1 .. Len(t) : whole[k] = t[k]
  BY ConcatProperties
<1>4. Overlap \in Nat /\ d = Len(t) - Len(u)
  BY OverlapBounds
<1>a. Len(whole) = Len(t) + Len(b) /\ Len(w) = Len(u) + Len(b)
  BY <1>2
<1> HIDE DEF u, w, whole, d
<1>5. ASSUME NEW m \in Markers, Occurs(m, w)
      PROVE  Occurs(m, whole)
  <2>1. m \in Seq(Byte) /\ Len(m) \in Nat \ {0}
    BY MarkersAreWords
  <2>2. PICK i \in 0 .. Len(w) - Len(m) : \A j \in 1 .. Len(m) : w[i + j] = m[j]
    BY <1>2, <1>5, <2>1, OccursAt
  <2>3. i + d \in 0 .. Len(whole) - Len(m)
    <3>1. Len(w) \in Nat /\ Len(whole) \in Nat
      BY <1>1, <1>a
    <3>a. Len(t) \in Nat /\ Len(u) \in Nat /\ Len(b) \in Nat
      BY <1>1
    <3>b. d = Len(t) - Len(u)
      BY <1>4
    <3>c. Len(w) = Len(u) + Len(b)
      BY <1>a
    <3>d. Len(whole) = Len(t) + Len(b)
      BY <1>a
    <3>2. d + Len(w) = Len(whole)
      BY <3>a, <3>b, <3>c, <3>d
    <3> QED
      BY <1>1, <2>1, <3>1, <3>2
  <2>4. \A j \in 1 .. Len(m) : i + j \in 1 .. Len(u) + Len(b) /\ d + (i + j) = (i + d) + j
    BY <1>1, <1>2, <2>1, <2>2, SMTT(30)
  <2>5. \A j \in 1 .. Len(m) : whole[(i + d) + j] = m[j]
    BY <1>2, <2>2, <2>4
  <2> QED
    BY <1>2, <2>1, <2>3, <2>5, OccursAt
<1>6. ASSUME NEW m \in Markers, Occurs(m, whole)
      PROVE  Occurs(m, w)
  <2>1. m \in Seq(Byte) /\ Len(m) \in Nat \ {0} /\ Len(m) <= Overlap + 1
    BY MarkersAreWords, OverlapBounds
  <2>2. PICK i \in 0 .. Len(whole) - Len(m) : \A j \in 1 .. Len(m) : whole[i + j] = m[j]
    BY <1>2, <1>6, <2>1, OccursAt
  <2>3. i + Len(m) > Len(t)
    <3> SUFFICES ASSUME i + Len(m) <= Len(t)
                 PROVE  FALSE
      BY <1>1, <2>1
    <3>1. i \in 0 .. Len(t) - Len(m) /\ \A j \in 1 .. Len(m) : i + j \in 1 .. Len(t)
      BY <1>1, <2>1
    <3>2. \A j \in 1 .. Len(m) : t[i + j] = m[j]
      BY <1>3, <2>2, <3>1
    <3>3. Occurs(m, t)
      BY <2>1, <3>1, <3>2, OccursAt
    <3> QED
      BY <3>3 DEF HasMarker
  <2>4. i - d \in 0 .. Len(w) - Len(m)
    BY <1>1, <1>2, <1>4, <2>1, <2>2, <2>3
  <2>5. \A j \in 1 .. Len(m) : (i - d) + j \in 1 .. Len(u) + Len(b) /\ d + ((i - d) + j) = i + j
    BY SMTT(40), <1>1, <1>2, <2>1, <2>2, <2>4
  <2>6. \A j \in 1 .. Len(m) : w[(i - d) + j] = m[j]
    BY <1>2, <2>2, <2>5
  <2> QED
    BY <1>2, <2>1, <2>4, <2>6, OccursAt
<1> QED
  BY <1>5, <1>6 DEF HasMarker, w, whole

\* What is kept of the window is what would be kept of the stream.
LEMMA WindowSuffix ==
    ASSUME NEW t \in Seq(Byte), NEW b \in Seq(Byte)
    PROVE  Suffix(Suffix(t) \o b) = Suffix(t \o b)
<1> DEFINE u == Suffix(t)
           w == Suffix(t) \o b
           whole == t \o b
           d == Len(t) - Len(u)
           sw == Suffix(w)
           sx == Suffix(whole)
<1>1. /\ Len(u) \in Nat /\ Len(t) \in Nat /\ Len(b) \in Nat /\ d \in Nat
      /\ Len(u) = IF Len(t) > Overlap THEN Overlap ELSE Len(t)
  <2>1. u \in Seq(Byte) /\ Len(u) <= Len(t)
        /\ Len(u) = IF Len(t) > Overlap THEN Overlap ELSE Len(t)
    BY SuffixShape, Zenon
  <2> HIDE DEF u
  <2> QED
    BY <2>1
<1>2. /\ whole \in Seq(Byte) /\ w \in Seq(Byte)
      /\ Len(whole) = Len(t) + Len(b) /\ Len(w) = Len(u) + Len(b)
      /\ \A j \in 1 .. Len(u) + Len(b) : w[j] = whole[d + j]
  BY WindowShape
<1>4. Overlap \in Nat /\ d = Len(t) - Len(u)
  BY OverlapBounds
<1>a. Len(whole) = Len(t) + Len(b) /\ Len(w) = Len(u) + Len(b)
  BY <1>2
<1> HIDE DEF u, w, whole, d
<1>5. /\ sw \in Seq(Byte) /\ sx \in Seq(Byte) /\ Len(sw) <= Len(w) /\ Len(sx) <= Len(whole)
      /\ Len(sw) = IF Len(w) > Overlap THEN Overlap ELSE Len(w)
      /\ Len(sx) = IF Len(whole) > Overlap THEN Overlap ELSE Len(whole)
      /\ \A j \in 1 .. Len(sw) : sw[j] = w[(Len(w) - Len(sw)) + j]
      /\ \A j \in 1 .. Len(sx) : sx[j] = whole[(Len(whole) - Len(sx)) + j]
  BY <1>2, SuffixShape
<1> HIDE DEF sw, sx
<1>6. Len(sw) = Len(sx)
  BY SMTT(40), <1>1, <1>2, <1>4, <1>5
<1>7. ASSUME NEW j \in 1 .. Len(sw)
      PROVE  sw[j] = sx[j]
  <2>1. (Len(w) - Len(sw)) + j \in 1 .. Len(u) + Len(b)
        /\ d + ((Len(w) - Len(sw)) + j) = (Len(whole) - Len(sx)) + j
    <3>1. Len(sw) \in Nat /\ Len(sw) <= Len(w) /\ j \in 1 .. Len(sw)
      BY <1>5
    <3>2. Len(w) \in Nat /\ Len(whole) \in Nat /\ Len(sx) \in Nat
      BY <1>1, <1>a, <1>6, <3>1
    <3>3. (Len(w) - Len(sw)) + j \in 1 .. Len(w)
      BY <3>1, <3>2
    <3>a. Len(t) \in Nat /\ Len(u) \in Nat /\ Len(b) \in Nat
      BY <1>1
    <3>b. d = Len(t) - Len(u)
      BY <1>4
    <3>c. Len(w) = Len(u) + Len(b)
      BY <1>a
    <3>d. Len(whole) = Len(t) + Len(b)
      BY <1>a
    <3>4. d + Len(w) = Len(whole)
      BY <3>a, <3>b, <3>c, <3>d
    <3>5. d + ((Len(w) - Len(sw)) + j) = (Len(whole) - Len(sx)) + j
      BY <1>1, <1>6, <3>1, <3>2, <3>4, SMTT(30)
    <3> QED
      BY <1>a, <3>3, <3>5
  <2> QED
    BY <1>2, <1>5, <1>6, <2>1
<1>8. sw = sx
  BY <1>5, <1>6, <1>7, SeqEqual
<1> QED
  BY <1>8 DEF sw, sx, w, whole

LEMMA NothingIsNoMarker == ~HasMarker(<<>>) /\ Suffix(<<>>) = <<>>
<1>1. ASSUME NEW m \in Markers
      PROVE  ~Occurs(m, <<>>)
  <2>1. Len(m) \in Nat \ {0} /\ m \in Seq(Byte) /\ <<>> \in Seq(Byte) /\ Len(<<>>) = 0
    BY MarkersAreWords
  <2>2. 0 .. Len(<<>>) - Len(m) = {}
    BY <2>1
  <2> QED
    BY <2>2 DEF Occurs
<1>2. <<>> \in Seq(Byte) /\ Len(<<>>) = 0
  OBVIOUS
<1>3. Len(Suffix(<<>>)) = 0 /\ Suffix(<<>>) \in Seq(Byte)
  <2>1. /\ Suffix(<<>>) \in Seq(Byte)
        /\ Len(Suffix(<<>>)) = IF Len(<<>>) > Overlap THEN Overlap ELSE Len(<<>>)
    BY <1>2, SuffixShape
  <2>2. ~(Len(<<>>) > Overlap)
    BY <1>2, OverlapBounds
  <2> QED
    BY <1>2, <2>1, <2>2
<1>4. Suffix(<<>>) = <<>>
  BY <1>3, EmptySeq
<1> QED
  BY <1>1, <1>4 DEF HasMarker

LEMMA AppendAfter ==
    \A t, u \in Seq(Byte), b \in Byte : Append(t \o u, b) = t \o Append(u, b)
<1> SUFFICES ASSUME NEW t \in Seq(Byte), NEW u \in Seq(Byte), NEW b \in Byte
             PROVE  Append(t \o u, b) = t \o Append(u, b)
  OBVIOUS
<1>1. t \o u \in Seq(Byte) /\ <<b>> \in Seq(Byte)
  OBVIOUS
<1>2. Append(t \o u, b) = (t \o u) \o <<b>> /\ Append(u, b) = u \o <<b>>
  BY <1>1, AppendIsConcat
<1> QED
  BY <1>1, <1>2, ConcatAssociative

\* A read takes at least a byte, and no more than the buffer holds.
LEMMA ChunkSize ==
    ASSUME NEW t \in Seq(Byte), t # <<>>
    PROVE  Min({Len(t), ChunkBytes}) \in 1 .. Len(t) /\ Min({Len(t), ChunkBytes}) <= ChunkBytes
<1> DEFINE S == {Len(t), ChunkBytes}
<1>1. Len(t) \in Nat \ {0} /\ ChunkBytes \in Nat \ {0}
  BY EmptySeq, OutputConstants
<1>2. \E x \in S : \A y \in S : x <= y
  <2>1. Len(t) <= ChunkBytes \/ ChunkBytes <= Len(t)
    BY <1>1
  <2>2. Len(t) <= Len(t) /\ ChunkBytes <= ChunkBytes
    BY <1>1
  <2> QED
    BY <2>1, <2>2
<1>3. Min(S) \in S /\ \A y \in S : Min(S) <= y
  BY <1>2, Zenon DEF Min
<1> QED
  BY <1>1, <1>3

LEMMA Associative ==
    \A a, b, c \in Seq(Byte) : (a \o b) \o c = a \o (b \o c)
<1> SUFFICES ASSUME NEW a \in Seq(Byte), NEW b \in Seq(Byte), NEW c \in Seq(Byte)
             PROVE  (a \o b) \o c = a \o (b \o c)
  OBVIOUS
<1> QED
  BY ConcatAssociative

\* The bytes of a stream, in their order: those taken, those in the channel, those in the pipe.
Between(all, first, second, third) ==
    /\ first \in Seq(Byte) /\ second \in Seq(Byte) /\ third \in Seq(Byte)
    /\ all = (first \o second) \o third

LEMMA MoveIn ==
    ASSUME NEW w, NEW t, NEW q, NEW u \in Seq(Byte), NEW p \in Seq(Byte), NEW whole,
           Between(w, t, q, whole), whole = u \o p
    PROVE  Between(w, t, q \o u, p)
<1>1. t \in Seq(Byte) /\ q \in Seq(Byte) /\ w = (t \o q) \o (u \o p)
  BY DEF Between
<1>2. (t \o q) \o (u \o p) = (t \o (q \o u)) \o p
  <2>1. t \o q \in Seq(Byte)
    BY <1>1
  <2>2. ((t \o q) \o u) \o p = (t \o q) \o (u \o p)
    BY <2>1, Associative, Zenon
  <2>3. (t \o q) \o u = t \o (q \o u)
    BY <1>1, Associative, Zenon
  <2> QED
    BY <2>2, <2>3, Zenon
<1>3. q \o u \in Seq(Byte)
  BY <1>1
<1> QED
  BY <1>1, <1>2, <1>3 DEF Between

LEMMA MoveOut ==
    ASSUME NEW w, NEW t, NEW q \in Seq(Byte), NEW u \in Seq(Byte), NEW p, NEW whole,
           Between(w, t, whole, p), whole = u \o q
    PROVE  Between(w, t \o u, q, p)
<1>1. t \in Seq(Byte) /\ p \in Seq(Byte) /\ w = (t \o (u \o q)) \o p
  BY DEF Between
<1>2. t \o (u \o q) = (t \o u) \o q
  BY <1>1, Associative
<1>3. t \o u \in Seq(Byte)
  BY <1>1
<1> QED
  BY <1>1, <1>2, <1>3 DEF Between

-----------------------------------------------------------------------------
(* What every state satisfies: between the pipes and run_child *)

Typed ==
    /\ at \in {"loop", "waiting", "ok", "stopped", "failed"}
    /\ exited \in BOOLEAN /\ observed \in BOOLEAN /\ cut \in BOOLEAN
    /\ open \subseteq StreamSource /\ pumping \subseteq StreamSource /\ done \subseteq StreamSource
    /\ channel \in Seq(Event)
    /\ pipe \in [StreamSource -> Seq(Byte)]
    /\ written \in [StreamSource -> Seq(Byte)]
    /\ taken \in [StreamSource -> Seq(Byte)]
    /\ scanner \in [StreamSource -> [suffix: Seq(Byte), found: BOOLEAN]]

\* A scanner knows what a look at all that was taken would find, and keeps its end.
Scanned ==
    \A s \in StreamSource :
        /\ scanner[s].found <=> HasMarker(taken[s])
        /\ scanner[s].found \/ scanner[s].suffix = Suffix(taken[s])

Ended(s) == s \notin open /\ s \notin pumping /\ pipe[s] = <<>>

\* While the loop runs, every byte is taken, in the channel or in the pipe, in this order.
Conserved ==
    at = "loop" =>
      \A s \in StreamSource : Between(written[s], taken[s], QueuedIn(channel, s), pipe[s])

\* The end of a stream is its last event, and a proper end comes from an empty, closed pipe.
EndsLast ==
    \A i \in DOMAIN channel : channel[i].kind # "chunk" =>
        /\ channel[i].bytes = <<>> /\ channel[i].source \notin pumping
        /\ \A j \in DOMAIN channel : j > i => channel[j].source # channel[i].source
        /\ channel[i].kind = "done" => Ended(channel[i].source)

\* Nothing comes after the end of a stream.
DoneIsOver ==
    at = "loop" =>
      \A s \in done : Ended(s) /\ \A i \in DOMAIN channel : channel[i].source # s

TakenAll == at = "waiting" \/ (at = "ok" /\ ~cut) => taken = written

Passing == Typed /\ Scanned /\ Conserved /\ EndsLast /\ DoneIsOver /\ TakenAll

LEMMA StartPasses ==
    ASSUME at = "loop", exited = FALSE, observed = FALSE, cut = FALSE,
           open = StreamSource, pumping = StreamSource, done = {},
           pipe = Fresh, channel = <<>>, scanner = Unscanned, written = Fresh, taken = Fresh
    PROVE  Passing
<1>1. <<>> \in Seq(Byte) /\ <<>> \in Seq(Event) /\ DOMAIN <<>> = {}
  OBVIOUS
<1>2. Typed
  BY <1>1 DEF Typed, Fresh, Unscanned
<1>3. Scanned
  BY NothingIsNoMarker DEF Scanned, Unscanned, Fresh
<1>4. Conserved
  <2>1. (<<>> \o <<>>) \o <<>> = <<>>
    OBVIOUS
  <2>2. \A s \in StreamSource : QueuedIn(<<>>, s) = <<>>
    BY QueuedInEmpty
  <2> QED
    BY <1>1, <2>1, <2>2 DEF Conserved, Fresh, Between
<1>5. EndsLast /\ DoneIsOver /\ TakenAll
  BY <1>1 DEF EndsLast, DoneIsOver, TakenAll
<1> QED
  BY <1>2, <1>3, <1>4, <1>5 DEF Passing

LEMMA ReturnPasses ==
    ASSUME NEW outcome \in {"ok", "stopped", "failed"}, Return(outcome),
           outcome = "ok" => cut', Passing
    PROVE  /\ Conserved' /\ EndsLast' /\ DoneIsOver' /\ TakenAll'
           /\ at' \in {"loop", "waiting", "ok", "stopped", "failed"}
           /\ exited' \in BOOLEAN /\ open' \subseteq StreamSource /\ pumping' \subseteq StreamSource
           /\ channel' \in Seq(Event)
           /\ pipe' \in [StreamSource -> Seq(Byte)] /\ written' \in [StreamSource -> Seq(Byte)]
<1>1. at' = outcome /\ channel' = <<>> /\ pipe' = Fresh /\ pumping' = {}
      /\ exited' = exited /\ open' = open /\ written' = written
  BY DEF Return
<1>2. <<>> \in Seq(Byte) /\ <<>> \in Seq(Event) /\ DOMAIN <<>> = {}
  OBVIOUS
<1>3. Conserved' /\ EndsLast' /\ DoneIsOver' /\ TakenAll'
  BY <1>1, <1>2 DEF Conserved, EndsLast, DoneIsOver, TakenAll
<1>4. pipe' \in [StreamSource -> Seq(Byte)]
  BY <1>1, <1>2 DEF Fresh
<1> QED
  BY <1>1, <1>2, <1>3, <1>4 DEF Passing, Typed

\* A step that leaves the streams alone.
LEMMA SamePasses ==
    ASSUME Passing, at' = at, exited' \in BOOLEAN, observed' \in BOOLEAN, cut' = cut,
           open' \subseteq open,
           UNCHANGED <<pipe, pumping, written, channel, done, scanner, taken>>
    PROVE  Passing'
<1>1. Typed'
  BY DEF Passing, Typed
<1>2. Scanned'
  BY DEF Passing, Scanned
<1>3. Conserved' /\ TakenAll'
  BY DEF Passing, Conserved, TakenAll
<1>4. EndsLast' /\ DoneIsOver'
  BY DEF Passing, EndsLast, DoneIsOver, Ended
<1> QED
  BY <1>1, <1>2, <1>3, <1>4 DEF Passing

LEMMA ChildWritesPasses ==
    ASSUME Passing, NEW s \in StreamSource, NEW b \in Byte, ChildWrites(s, b)
    PROVE  Passing'
<1>1. /\ at = "loop" /\ s \in open
      /\ pipe' = [pipe EXCEPT ![s] = Append(@, b)]
      /\ written' = [written EXCEPT ![s] = Append(@, b)]
      /\ UNCHANGED <<exited, open, pumping, channel, loop>>
  BY DEF ChildWrites
<1> USE DEF loop
<1>2. Typed'
  BY <1>1 DEF Passing, Typed
<1>3. Scanned'
  BY <1>1 DEF Passing, Scanned
<1>4. Conserved'
  <2> SUFFICES ASSUME NEW z \in StreamSource
               PROVE  Between(written'[z], taken[z], QueuedIn(channel, z), pipe'[z])
    BY <1>1 DEF Conserved
  <2>1. Between(written[z], taken[z], QueuedIn(channel, z), pipe[z])
    BY <1>1 DEF Passing, Conserved
  <2>2. pipe[z] \in Seq(Byte) /\ taken[z] \o QueuedIn(channel, z) \in Seq(Byte)
    BY <2>1 DEF Between
  <2> DEFINE before == taken[z] \o QueuedIn(channel, z)
  <2>3. Append(before \o pipe[z], b) = before \o Append(pipe[z], b)
    <3> HIDE DEF before
    <3>2. before \in Seq(Byte)
      BY <2>2 DEF before
    <3> QED
      BY <2>2, <3>2, AppendAfter, Zenon
  <2>4. CASE z = s
    <3>1. written'[z] = Append(written[z], b) /\ pipe'[z] = Append(pipe[z], b)
      BY <1>1, <2>4 DEF Passing, Typed
    <3>2. Append(pipe[z], b) \in Seq(Byte) /\ taken[z] \in Seq(Byte)
          /\ QueuedIn(channel, z) \in Seq(Byte) /\ written[z] = before \o pipe[z]
      BY <2>1, <2>2 DEF Between
    <3> QED
      BY <2>3, <3>1, <3>2 DEF Between
  <2>5. CASE z # s
    BY <1>1, <2>1, <2>5 DEF Passing, Typed
  <2> QED
    BY <2>4, <2>5
<1>5. EndsLast' /\ DoneIsOver'
  BY <1>1, SMTT(30) DEF Passing, EndsLast, DoneIsOver, Ended, Typed
<1>6. TakenAll'
  BY <1>1 DEF TakenAll
<1> QED
  BY <1>2, <1>3, <1>4, <1>5, <1>6 DEF Passing

\* What a pump sends: its bytes leave the pipe as they enter the channel, and after an end it
\* pumps no more.
LEMMA SendPasses ==
    ASSUME Passing, at = "loop", NEW s \in pumping, NEW kind \in {"chunk", "done", "error"},
           NEW bytes \in Seq(Byte), Send(kind, s, bytes),
           pipe' \in [StreamSource -> Seq(Byte)],
           \A z \in StreamSource \ {s} : pipe'[z] = pipe[z],
           pipe[s] = bytes \o pipe'[s],
           kind = "chunk" => pumping' = pumping,
           kind # "chunk" => pumping' = pumping \ {s} /\ bytes = <<>>,
           kind = "done" => s \notin open /\ pipe[s] = <<>>,
           UNCHANGED <<exited, open, written, loop>>
    PROVE  Passing'
<1> DEFINE event == [kind |-> kind, source |-> s, bytes |-> bytes]
           n == Len(channel)
<1>1. channel \in Seq(Event) /\ s \in StreamSource /\ n \in Nat
  BY DEF Passing, Typed
<1>2. event \in Event
  BY <1>1 DEF Event
<1>3. channel' = Append(channel, event)
  BY DEF Send
<1>4. /\ channel' \in Seq(Event) /\ DOMAIN channel' = 1 .. (n + 1) /\ DOMAIN channel = 1 .. n
      /\ channel'[n + 1] = event /\ \A i \in 1 .. n : channel'[i] = channel[i]
  BY <1>1, <1>2, <1>3
<1>5. Typed'
  BY <1>4 DEF Passing, Typed, loop
<1>6. Scanned'
  BY DEF Passing, Scanned, loop
<1>7. Conserved'
  <2> SUFFICES ASSUME NEW z \in StreamSource
               PROVE  Between(written[z], taken[z], QueuedIn(channel', z), pipe'[z])
    BY DEF Conserved, loop
  <2>1. Between(written[z], taken[z], QueuedIn(channel, z), pipe[z])
    BY DEF Passing, Conserved
  <2>2. QueuedIn(channel', z) = QueuedIn(channel, z) \o Share(event, z)
    <3> HIDE DEF event
    <3> QED
      BY <1>1, <1>2, <1>3, QueuedInAppend
  <2>3. Share(event, z) \in Seq(Byte) /\ pipe'[z] \in Seq(Byte)
    BY DEF Share
  <2>4. pipe[z] = Share(event, z) \o pipe'[z]
    <3>1. CASE z = s
      BY <3>1 DEF Share
    <3>2. CASE z # s
      <4>1. Share(event, z) = <<>> /\ pipe[z] = pipe'[z]
        BY <3>2 DEF Share
      <4> QED
        BY <2>3, <4>1, ConcatEmptySeq
    <3> QED
      BY <3>1, <3>2
  <2> HIDE DEF event
  <2>5. Between(written[z], taken[z], QueuedIn(channel, z) \o Share(event, z), pipe'[z])
    BY <2>1, <2>3, <2>4, MoveIn
  <2> QED
    BY <2>2, <2>5
<1> DEFINE OverNow(z) == z \notin open' /\ z \notin pumping' /\ pipe'[z] = <<>>
<1>8. EndsLast'
  <2> SUFFICES ASSUME NEW i \in 1 .. (n + 1), channel'[i].kind # "chunk"
               PROVE  /\ channel'[i].bytes = <<>> /\ channel'[i].source \notin pumping'
                      /\ \A j \in 1 .. (n + 1) : j > i => channel'[j].source # channel'[i].source
                      /\ channel'[i].kind = "done" => OverNow(channel'[i].source)
    BY <1>4 DEF EndsLast, Ended
  <2>1. CASE i = n + 1
    <3>1. channel'[i].kind = kind /\ channel'[i].source = s /\ channel'[i].bytes = bytes
      BY <1>4, <2>1
    <3>2. kind = "done" => OverNow(s)
      <4> SUFFICES ASSUME kind = "done"
                   PROVE  pipe'[s] = <<>>
        OBVIOUS
      <4>1. bytes = <<>> /\ pipe'[s] \in Seq(Byte)
        BY <1>1
      <4> QED
        BY <4>1, ConcatEmptySeq
    <3>3. \A j \in 1 .. (n + 1) : ~(j > i)
      BY <1>1, <2>1
    <3>4. kind # "chunk" => s \notin pumping' /\ bytes = <<>>
      OBVIOUS
    <3> HIDE DEF OverNow
    <3> QED
      BY <3>1, <3>2, <3>3, <3>4
  <2>2. CASE i # n + 1
    <3>1. i \in 1 .. n /\ channel'[i] = channel[i]
      BY <1>1, <1>4, <2>2
    <3>2. /\ channel[i].bytes = <<>> /\ channel[i].source \notin pumping
          /\ \A j \in 1 .. n : j > i => channel[j].source # channel[i].source
          /\ channel[i].kind = "done" => Ended(channel[i].source)
      BY <1>4, <3>1 DEF Passing, EndsLast
    <3>3. pumping' \subseteq pumping /\ channel[i].source # s /\ channel[i].source \in StreamSource
      <4>1. channel[i] \in Event
        BY <1>1, <3>1
      <4> QED
        BY <3>2, <4>1 DEF Event
    <3>4. ASSUME NEW j \in 1 .. (n + 1), j > i
          PROVE  channel'[j].source # channel'[i].source
      <4>1. CASE j = n + 1
        <5>1. channel'[j].source = s
          BY <1>4, <4>1
        <5> QED
          BY <3>1, <3>3, <5>1
      <4>2. CASE j # n + 1
        <5>1. j \in 1 .. n /\ channel'[j] = channel[j]
          BY <1>1, <1>4, <4>2
        <5> QED
          BY <3>1, <3>2, <3>4, <5>1
      <4> QED
        BY <4>1, <4>2
    <3>5. channel[i].kind = "done" => OverNow(channel[i].source)
      BY <3>2, <3>3 DEF Ended
    <3> HIDE DEF OverNow
    <3> QED
      BY <3>1, <3>2, <3>3, <3>4, <3>5
  <2> QED
    BY <2>1, <2>2
<1>9. DoneIsOver'
  <2> SUFFICES ASSUME NEW z \in done
               PROVE  /\ z \notin open /\ z \notin pumping' /\ pipe'[z] = <<>>
                      /\ \A i \in 1 .. (n + 1) : channel'[i].source # z
    BY <1>4 DEF DoneIsOver, Ended, loop
  <2>1. z \in StreamSource /\ z \notin open /\ z \notin pumping /\ pipe[z] = <<>>
        /\ \A i \in 1 .. n : channel[i].source # z
    BY <1>4 DEF Passing, Typed, DoneIsOver, Ended
  <2>2. z # s
    BY <2>1
  <2>3. channel'[n + 1].source # z
    BY <1>4, <2>2
  <2>4. ASSUME NEW i \in 1 .. (n + 1)
        PROVE  channel'[i].source # z
    <3>1. CASE i = n + 1
      BY <2>3, <3>1
    <3>2. CASE i # n + 1
      <4>1. i \in 1 .. n /\ channel'[i] = channel[i]
        BY <1>1, <1>4, <3>2
      <4> QED
        BY <2>1, <4>1
    <3> QED
      BY <3>1, <3>2
  <2>5. pumping' \subseteq pumping
    OBVIOUS
  <2> QED
    BY <2>1, <2>2, <2>4, <2>5
<1>10. TakenAll'
  BY DEF TakenAll, loop
<1> QED
  BY <1>5, <1>6, <1>7, <1>8, <1>9, <1>10 DEF Passing

LEMMA PumpChunkPasses ==
    ASSUME Passing, NEW s \in StreamSource, PumpChunk(s)
    PROVE  Passing'
<1> DEFINE n == Min({Len(pipe[s]), ChunkBytes})
           bytes == SubSeq(pipe[s], 1, n)
           rest == SubSeq(pipe[s], n + 1, Len(pipe[s]))
<1>1. /\ at = "loop" /\ s \in pumping /\ pipe[s] # <<>> /\ Send("chunk", s, bytes)
      /\ pipe' = [pipe EXCEPT ![s] = rest]
      /\ UNCHANGED <<exited, open, pumping, written, loop>>
  BY DEF PumpChunk
<1>2. pipe[s] \in Seq(Byte) /\ pipe \in [StreamSource -> Seq(Byte)]
  BY DEF Passing, Typed
<1>3. n \in 1 .. Len(pipe[s]) /\ n <= ChunkBytes
  BY <1>1, <1>2, ChunkSize
<1> HIDE DEF n
<1>4. bytes \in Seq(Byte) /\ rest \in Seq(Byte) /\ bytes \o rest = pipe[s]
  <2>1. \A k \in 1 .. Len(pipe[s]) : pipe[s][k] \in Byte
    BY <1>2
  <2>2. bytes \in Seq(Byte)
    <3>1. 1 \in Int /\ n \in Int /\ \A k \in 1 .. n : pipe[s][k] \in Byte
      BY <1>2, <1>3, <2>1
    <3> QED
      BY <3>1, SubSeqProperties
  <2>3. rest \in Seq(Byte)
    <3>1. n + 1 \in Int /\ Len(pipe[s]) \in Int
          /\ \A k \in n + 1 .. Len(pipe[s]) : pipe[s][k] \in Byte
      BY <1>2, <1>3, <2>1
    <3> QED
      BY <3>1, SubSeqProperties
  <2>4. bytes \o rest = SubSeq(pipe[s], 1, Len(pipe[s]))
    <3>1. 1 \in 1 .. Len(pipe[s]) + 1 /\ n \in 0 .. Len(pipe[s]) /\ 1 - 1 = 0
          /\ Len(pipe[s]) \in n .. Len(pipe[s])
      BY <1>2, <1>3
    <3> QED
      BY <1>2, <3>1, ConcatAdjacentSubSeq
  <2> QED
    BY <1>2, <2>2, <2>3, <2>4, SubSeqFull
<1> HIDE DEF bytes, rest
<1>5. pipe' \in [StreamSource -> Seq(Byte)] /\ pipe'[s] = rest
      /\ \A z \in StreamSource \ {s} : pipe'[z] = pipe[z]
  BY <1>1, <1>2, <1>4
<1> QED
  BY <1>1, <1>4, <1>5, SendPasses

LEMMA PumpStopsPasses ==
    ASSUME Passing, NEW s \in StreamSource, PumpEnds(s) \/ PumpFails(s)
    PROVE  Passing'
<1>1. <<>> \in Seq(Byte) /\ pipe[s] \in Seq(Byte) /\ pipe[s] = <<>> \o pipe[s]
      /\ pipe \in [StreamSource -> Seq(Byte)]
  BY ConcatEmptySeq DEF Passing, Typed
<1>2. CASE PumpEnds(s)
  <2>1. /\ at = "loop" /\ s \in pumping /\ s \notin open /\ pipe[s] = <<>>
        /\ Send("done", s, <<>>) /\ pumping' = pumping \ {s}
        /\ UNCHANGED <<exited, open, pipe, written, loop>>
    BY <1>2 DEF PumpEnds
  <2>2. pipe' = pipe
    BY <2>1
  <2> QED
    BY <1>1, <2>1, <2>2, SendPasses
<1>3. CASE PumpFails(s)
  <2>1. /\ at = "loop" /\ s \in pumping
        /\ Send("error", s, <<>>) /\ pumping' = pumping \ {s}
        /\ UNCHANGED <<exited, open, pipe, written, loop>>
    BY <1>3 DEF PumpFails
  <2>2. pipe' = pipe
    BY <2>1
  <2> QED
    BY <1>1, <2>1, <2>2, SendPasses
<1> QED
  BY <1>2, <1>3

\* The event at the head leaves; after the end of a stream nothing of it is left.
LEMMA TailPasses ==
    ASSUME Passing, channel # <<>>, channel' = Tail(channel), UNCHANGED child
    PROVE  /\ channel' \in Seq(Event) /\ Head(channel) \in Event /\ EndsLast'
           /\ \A i \in DOMAIN channel' : i + 1 \in DOMAIN channel /\ channel'[i] = channel[i + 1]
           /\ Head(channel).kind # "chunk" =>
                /\ Head(channel).bytes = <<>>
                /\ \A i \in DOMAIN channel' : channel'[i].source # Head(channel).source
           /\ Head(channel).kind = "done" => Ended(Head(channel).source)
<1> DEFINE n == Len(channel)
<1>1. channel \in Seq(Event) /\ exited' = exited /\ open' = open /\ pipe' = pipe
      /\ pumping' = pumping /\ written' = written
  BY DEF Passing, Typed, child
<1>2. /\ n \in Nat \ {0} /\ channel' \in Seq(Event) /\ DOMAIN channel' = 1 .. (n - 1)
      /\ DOMAIN channel = 1 .. n /\ Head(channel) = channel[1] /\ Head(channel) \in Event
      /\ \A i \in 1 .. (n - 1) : channel'[i] = channel[i + 1]
  BY <1>1
<1>3. \A i \in 1 .. n : channel[i].kind # "chunk" =>
        /\ channel[i].bytes = <<>> /\ channel[i].source \notin pumping
        /\ \A j \in 1 .. n : j > i => channel[j].source # channel[i].source
        /\ channel[i].kind = "done" => Ended(channel[i].source)
  BY <1>2 DEF Passing, EndsLast
<1>a. \A i \in 1 .. (n - 1) : i + 1 \in 1 .. n /\ i + 1 > 1
  BY <1>2
<1>4. EndsLast'
  <2> SUFFICES ASSUME NEW i \in 1 .. (n - 1), channel'[i].kind # "chunk"
               PROVE  /\ channel'[i].bytes = <<>> /\ channel'[i].source \notin pumping
                      /\ \A j \in 1 .. (n - 1) : j > i => channel'[j].source # channel'[i].source
                      /\ channel'[i].kind = "done" => Ended(channel'[i].source)
    BY <1>1, <1>2 DEF EndsLast, Ended
  <2>1. i + 1 \in 1 .. n /\ channel'[i] = channel[i + 1]
    BY <1>2, <1>a
  <2>2. /\ channel[i + 1].bytes = <<>> /\ channel[i + 1].source \notin pumping
        /\ \A j \in 1 .. n : j > i + 1 => channel[j].source # channel[i + 1].source
        /\ channel[i + 1].kind = "done" => Ended(channel[i + 1].source)
    BY <1>3, <2>1
  <2>3. ASSUME NEW j \in 1 .. (n - 1), j > i
        PROVE  channel'[j].source # channel'[i].source
    <3>1. j + 1 \in 1 .. n /\ j + 1 > i + 1 /\ channel'[j] = channel[j + 1]
      BY <1>2, <1>a, <2>3
    <3> QED
      BY <2>1, <2>2, <3>1
  <2> QED
    BY <2>1, <2>2, <2>3
<1>5. 1 \in 1 .. n
  BY <1>2
<1> HIDE DEF n
<1>6. ASSUME Head(channel).kind # "chunk", NEW i \in 1 .. (n - 1)
      PROVE  channel'[i].source # Head(channel).source
  BY <1>2, <1>3, <1>5, <1>6, <1>a
<1> QED
  BY <1>2, <1>3, <1>4, <1>5, <1>6, <1>a

LEMMA TakeChunkPasses ==
    ASSUME Passing, NEW s \in StreamSource, TakeChunk(s)
    PROVE  Passing'
<1> DEFINE bytes == Head(channel).bytes
<1>1. /\ at = "loop" /\ channel # <<>>
      /\ Head(channel).kind = "chunk" /\ Head(channel).source = s
      /\ taken' = [taken EXCEPT ![s] = @ \o bytes]
      /\ scanner' = [scanner EXCEPT ![s] = Scan(@, bytes)]
      /\ \/ channel' = Tail(channel) /\ UNCHANGED <<child, at>>
         \/ Return("failed")
      /\ UNCHANGED <<observed, done, cut>>
  BY DEF TakeChunk, Received
<1>2. channel \in Seq(Event) /\ Head(channel) \in Event /\ bytes \in Seq(Byte)
  <2>1. channel \in Seq(Event)
    BY DEF Passing, Typed
  <2>2. Head(channel) \in Event
    BY <1>1, <2>1
  <2> QED
    BY <2>1, <2>2 DEF Event
<1>t. taken \in [StreamSource -> Seq(Byte)] /\ taken[s] \in Seq(Byte)
      /\ scanner \in [StreamSource -> [suffix: Seq(Byte), found: BOOLEAN]]
  BY DEF Passing, Typed
<1> HIDE DEF bytes
<1>3. /\ taken' \in [StreamSource -> Seq(Byte)] /\ taken'[s] = taken[s] \o bytes
      /\ \A z \in StreamSource \ {s} : taken'[z] = taken[z]
      /\ scanner'[s] = Scan(scanner[s], bytes)
      /\ \A z \in StreamSource \ {s} : scanner'[z] = scanner[z]
  BY <1>1, <1>2, <1>t
<1>4. /\ Scan(scanner[s], bytes) \in [suffix: Seq(Byte), found: BOOLEAN]
      /\ Scan(scanner[s], bytes).found <=> HasMarker(taken[s] \o bytes)
      /\ \/ Scan(scanner[s], bytes).found
         \/ Scan(scanner[s], bytes).suffix = Suffix(taken[s] \o bytes)
  <2>1. /\ scanner[s].found <=> HasMarker(taken[s])
        /\ scanner[s].found \/ scanner[s].suffix = Suffix(taken[s])
    BY DEF Passing, Scanned
  <2>2. CASE scanner[s].found
    <3>1. Scan(scanner[s], bytes) = scanner[s]
      BY <2>2 DEF Scan
    <3>2. HasMarker(taken[s] \o bytes)
      BY <1>2, <1>t, <2>1, <2>2, MarkerStays
    <3> QED
      BY <1>t, <2>2, <3>1, <3>2
  <2>3. CASE ~scanner[s].found
    <3> DEFINE window == scanner[s].suffix \o bytes
    <3>1. Scan(scanner[s], bytes) = [suffix |-> Suffix(window), found |-> HasMarker(window)]
      BY <2>3 DEF Scan
    <3>2. window = Suffix(taken[s]) \o bytes
      BY <2>1, <2>3
    <3>3. ~HasMarker(taken[s])
      BY <2>1, <2>3
    <3>4. HasMarker(window) <=> HasMarker(taken[s] \o bytes)
      BY <1>2, <1>t, <3>2, <3>3, WindowSeesAll, Zenon
    <3>5. Suffix(window) = Suffix(taken[s] \o bytes)
      BY <1>2, <1>t, <3>2, WindowSuffix, Zenon
    <3>6. Suffix(window) \in Seq(Byte)
      <4>1. window \in Seq(Byte)
        BY <1>2, <1>t
      <4> QED
        BY <4>1, SuffixShape
    <3>7. HasMarker(window) \in BOOLEAN
      BY DEF HasMarker
    <3> HIDE DEF window
    <3> QED
      BY <3>1, <3>4, <3>5, <3>6, <3>7
  <2> QED
    BY <2>2, <2>3
<1>5. Scanned'
  BY <1>3, <1>4 DEF Passing, Scanned
<1>6. scanner' \in [StreamSource -> [suffix: Seq(Byte), found: BOOLEAN]]
  BY <1>1, <1>4, <1>t
<1>7. CASE channel' = Tail(channel) /\ UNCHANGED <<child, at>>
  <2>1. channel' \in Seq(Event) /\ EndsLast'
        /\ \A i \in DOMAIN channel' : i + 1 \in DOMAIN channel /\ channel'[i] = channel[i + 1]
    BY <1>1, <1>7, TailPasses
  <2>2. Typed'
    BY <1>1, <1>3, <1>6, <1>7, <2>1 DEF Passing, Typed, child
  <2>3. Conserved'
    <3> SUFFICES ASSUME NEW z \in StreamSource
                 PROVE  Between(written[z], taken'[z], QueuedIn(channel', z), pipe[z])
      BY <1>7 DEF Conserved, child
    <3>1. Between(written[z], taken[z], QueuedIn(channel, z), pipe[z])
      BY <1>1 DEF Passing, Conserved
    <3>2. QueuedIn(channel, z) = Share(Head(channel), z) \o QueuedIn(channel', z)
          /\ QueuedIn(channel', z) \in Seq(Byte)
      BY <1>1, <1>2, <1>7, QueuedInTail
    <3>3. CASE z = s
      <4>1. Share(Head(channel), z) = bytes /\ taken'[z] = taken[z] \o bytes
        BY <1>1, <1>3, <3>3 DEF Share, bytes
      <4> QED
        BY <1>2, <3>1, <3>2, <4>1, MoveOut
    <3>4. CASE z # s
      <4>1. Share(Head(channel), z) = <<>> /\ taken'[z] = taken[z]
        BY <1>1, <1>3, <3>4 DEF Share
      <4>2. QueuedIn(channel, z) = QueuedIn(channel', z)
        BY <3>2, <4>1, ConcatEmptySeq
      <4> QED
        BY <3>1, <4>1, <4>2
    <3> QED
      BY <3>3, <3>4
  <2>4. DoneIsOver'
    BY <1>1, <1>7, <2>1 DEF Passing, DoneIsOver, Ended, child
  <2>5. TakenAll'
    BY <1>1, <1>7 DEF TakenAll
  <2> QED
    BY <1>5, <2>1, <2>2, <2>3, <2>4, <2>5 DEF Passing
<1>8. CASE Return("failed")
  <2>1. /\ Conserved' /\ EndsLast' /\ DoneIsOver' /\ TakenAll'
        /\ at' \in {"loop", "waiting", "ok", "stopped", "failed"}
        /\ exited' \in BOOLEAN /\ open' \subseteq StreamSource /\ pumping' \subseteq StreamSource
        /\ channel' \in Seq(Event)
        /\ pipe' \in [StreamSource -> Seq(Byte)] /\ written' \in [StreamSource -> Seq(Byte)]
    BY <1>8, ReturnPasses
  <2>2. Typed'
    BY <1>1, <1>3, <1>6, <2>1 DEF Passing, Typed
  <2> QED
    BY <1>5, <2>1, <2>2 DEF Passing
<1> QED
  BY <1>1, <1>7, <1>8

\* run_child returns early, or the deadline ends the attempt.
LEMMA ReturnOfPasses ==
    ASSUME Passing, NEW outcome \in {"ok", "stopped", "failed"}, Return(outcome),
           outcome = "ok" => cut', cut' \in BOOLEAN,
           UNCHANGED <<observed, done, scanner, taken>>
    PROVE  Passing'
<1>1. /\ Conserved' /\ EndsLast' /\ DoneIsOver' /\ TakenAll'
      /\ at' \in {"loop", "waiting", "ok", "stopped", "failed"}
      /\ exited' \in BOOLEAN /\ open' \subseteq StreamSource /\ pumping' \subseteq StreamSource
      /\ channel' \in Seq(Event)
      /\ pipe' \in [StreamSource -> Seq(Byte)] /\ written' \in [StreamSource -> Seq(Byte)]
  BY ReturnPasses
<1>2. Typed'
  BY <1>1 DEF Passing, Typed
<1>3. Scanned'
  BY DEF Passing, Scanned
<1> QED
  BY <1>1, <1>2, <1>3 DEF Passing

LEMMA TakeDonePasses ==
    ASSUME Passing, NEW s \in StreamSource, TakeDone(s)
    PROVE  Passing'
<1>1. /\ at = "loop" /\ channel # <<>>
      /\ Head(channel).kind = "done" /\ Head(channel).source = s
      /\ \/ /\ channel' = Tail(channel) /\ done' = done \cup {s} /\ UNCHANGED child
            /\ at' = IF done' # StreamSource THEN "loop"
                     ELSE IF observed THEN "ok" ELSE "waiting"
         \/ Return("failed") /\ UNCHANGED done
      /\ UNCHANGED <<observed, scanner, taken, cut>>
  BY DEF TakeDone, Received
<1>2. CASE /\ channel' = Tail(channel) /\ done' = done \cup {s} /\ UNCHANGED child
           /\ at' = IF done' # StreamSource THEN "loop"
                    ELSE IF observed THEN "ok" ELSE "waiting"
  <2>1. /\ channel' \in Seq(Event) /\ Head(channel) \in Event /\ EndsLast'
        /\ \A i \in DOMAIN channel' : i + 1 \in DOMAIN channel /\ channel'[i] = channel[i + 1]
        /\ Head(channel).bytes = <<>>
        /\ \A i \in DOMAIN channel' : channel'[i].source # s
        /\ Ended(s)
    BY <1>1, <1>2, TailPasses
  <2>2. channel \in Seq(Event) /\ taken \in [StreamSource -> Seq(Byte)]
        /\ written \in [StreamSource -> Seq(Byte)] /\ pipe \in [StreamSource -> Seq(Byte)]
        /\ done \subseteq StreamSource
    BY DEF Passing, Typed
  <2>3. Typed'
    BY <1>1, <1>2, <2>1 DEF Passing, Typed, child
  <2>4. Scanned'
    BY <1>1 DEF Passing, Scanned
  <2>5. \A z \in StreamSource :
          Between(written[z], taken[z], QueuedIn(channel', z), pipe[z])
    <3> SUFFICES ASSUME NEW z \in StreamSource
                 PROVE  Between(written[z], taken[z], QueuedIn(channel', z), pipe[z])
      OBVIOUS
    <3>1. Between(written[z], taken[z], QueuedIn(channel, z), pipe[z])
      BY <1>1 DEF Passing, Conserved
    <3>2. QueuedIn(channel, z) = Share(Head(channel), z) \o QueuedIn(channel', z)
          /\ QueuedIn(channel', z) \in Seq(Byte)
      BY <1>1, <1>2, <2>2, QueuedInTail
    <3>3. Share(Head(channel), z) = <<>>
      BY <2>1 DEF Share
    <3>4. QueuedIn(channel, z) = QueuedIn(channel', z)
      BY <3>2, <3>3, ConcatEmptySeq
    <3> QED
      BY <3>1, <3>4
  <2>6. \A z \in done' : Ended(z) /\ \A i \in DOMAIN channel' : channel'[i].source # z
    <3> SUFFICES ASSUME NEW z \in done'
                 PROVE  Ended(z) /\ \A i \in DOMAIN channel' : channel'[i].source # z
      OBVIOUS
    <3>1. CASE z = s
      BY <2>1, <3>1
    <3>2. CASE z # s
      <4>1. z \in done
        BY <1>2, <3>2
      <4> QED
        BY <1>1, <2>1, <4>1 DEF Passing, DoneIsOver
    <3> QED
      BY <3>1, <3>2
  <2>7. Conserved'
    BY <1>1, <1>2, <2>5 DEF Conserved, child
  <2>8. DoneIsOver'
    BY <1>2, <2>6 DEF DoneIsOver, Ended, child
  <2>9. TakenAll'
    <3> SUFFICES ASSUME at' # "loop"
                 PROVE  taken = written
      BY <1>1, <1>2 DEF TakenAll, child
    <3>1. done' = StreamSource
      BY <1>2
    <3>2. \A z \in StreamSource : taken[z] = written[z]
      <4> SUFFICES ASSUME NEW z \in StreamSource
                   PROVE  taken[z] = written[z]
        OBVIOUS
      <4>1. pipe[z] = <<>> /\ QueuedIn(channel', z) = <<>>
        BY <2>1, <2>6, <3>1, QueuedInNone DEF Ended
      <4>2. written[z] = (taken[z] \o <<>>) \o <<>> /\ taken[z] \in Seq(Byte)
        BY <2>5, <4>1 DEF Between
      <4> QED
        BY <4>2, ConcatEmptySeq
    <3> QED
      BY <2>2, <3>2
  <2> QED
    BY <2>1, <2>3, <2>4, <2>7, <2>8, <2>9 DEF Passing
<1>3. CASE Return("failed") /\ UNCHANGED done
  <2>1. cut' \in BOOLEAN
    BY <1>1 DEF Passing, Typed
  <2> QED
    BY <1>1, <1>3, <2>1, ReturnOfPasses
<1> QED
  BY <1>1, <1>2, <1>3

LEMMA ReturningPasses ==
    ASSUME Passing,
           \/ \E s \in StreamSource : TakeError(s)
           \/ DrainDeadline \/ Stop \/ WaitFails
    PROVE  Passing'
<1>1. cut \in BOOLEAN
  BY DEF Passing, Typed
<1>2. CASE \E s \in StreamSource : TakeError(s)
  <2>1. Return("failed") /\ UNCHANGED <<observed, done, scanner, taken, cut>>
    BY <1>2 DEF TakeError
  <2> QED
    BY <1>1, <2>1, ReturnOfPasses
<1>3. CASE DrainDeadline
  <2>1. /\ \/ Return("ok") /\ cut' = TRUE
           \/ Return("failed") /\ cut' = cut
        /\ UNCHANGED <<observed, done, scanner, taken>>
    BY <1>3 DEF DrainDeadline
  <2> QED
    BY <1>1, <2>1, ReturnOfPasses
<1>4. CASE Stop
  <2>1. Return("stopped") /\ UNCHANGED <<observed, done, scanner, taken, cut>>
    BY <1>4 DEF Stop
  <2> QED
    BY <1>1, <2>1, ReturnOfPasses
<1>5. CASE WaitFails
  <2>1. Return("failed") /\ UNCHANGED <<observed, done, scanner, taken, cut>>
    BY <1>5 DEF WaitFails
  <2> QED
    BY <1>1, <2>1, ReturnOfPasses
<1> QED
  BY <1>2, <1>3, <1>4, <1>5

LEMMA WaitedPasses ==
    ASSUME Passing, Waited
    PROVE  Passing'
<1>1. /\ at = "waiting" /\ exited /\ at' = "ok" /\ observed' = TRUE
      /\ UNCHANGED <<child, channel, done, scanner, taken, cut>>
  BY DEF Waited
<1> USE DEF child
<1>2. Typed'
  BY <1>1 DEF Passing, Typed
<1>3. Scanned'
  BY <1>1 DEF Passing, Scanned
<1>4. Conserved' /\ DoneIsOver' /\ TakenAll'
  BY <1>1 DEF Passing, Conserved, DoneIsOver, TakenAll
<1>5. EndsLast'
  BY <1>1 DEF Passing, EndsLast, Ended
<1> QED
  BY <1>2, <1>3, <1>4, <1>5 DEF Passing

LEMMA NextAttemptPasses ==
    ASSUME NextAttempt
    PROVE  Passing'
<1>1. /\ at' = "loop" /\ exited' = FALSE /\ observed' = FALSE /\ cut' = FALSE
      /\ open' = StreamSource /\ pumping' = StreamSource /\ done' = {}
      /\ pipe' = Fresh /\ channel' = <<>> /\ scanner' = Unscanned
      /\ written' = Fresh /\ taken' = Fresh
  BY DEF NextAttempt
<1>2. <<>> \in Seq(Byte) /\ <<>> \in Seq(Event) /\ DOMAIN <<>> = {}
  OBVIOUS
<1>3. Typed'
  BY <1>1, <1>2 DEF Typed, Fresh, Unscanned
<1>4. Scanned'
  BY <1>1, NothingIsNoMarker DEF Scanned, Unscanned, Fresh
<1>5. Conserved'
  <2>1. (<<>> \o <<>>) \o <<>> = <<>>
    OBVIOUS
  <2>2. \A s \in StreamSource : QueuedIn(<<>>, s) = <<>>
    BY QueuedInEmpty
  <2> QED
    BY <1>1, <1>2, <2>1, <2>2 DEF Conserved, Fresh, Between
<1>6. EndsLast' /\ DoneIsOver' /\ TakenAll'
  BY <1>1, <1>2 DEF EndsLast, DoneIsOver, TakenAll
<1> QED
  BY <1>3, <1>4, <1>5, <1>6 DEF Passing

\* Every step keeps it.
LEMMA PassingInductive ==
    ASSUME Passing, [Next]_vars
    PROVE  Passing'
<1>1. exited \in BOOLEAN /\ observed \in BOOLEAN
  BY DEF Passing, Typed
<1>2. ASSUME NEW s \in StreamSource, NEW b \in Byte, ChildWrites(s, b)
      PROVE  Passing'
  BY <1>2, ChildWritesPasses
<1>3. ASSUME NEW s \in StreamSource, PipeCloses(s)
      PROVE  Passing'
  BY <1>1, <1>3, SamePasses DEF PipeCloses, loop
<1>4. ASSUME NEW s \in StreamSource, PumpChunk(s)
      PROVE  Passing'
  BY <1>4, PumpChunkPasses
<1>5. ASSUME NEW s \in StreamSource, PumpEnds(s) \/ PumpFails(s)
      PROVE  Passing'
  BY <1>5, PumpStopsPasses
<1>6. ASSUME NEW s \in StreamSource, TakeChunk(s)
      PROVE  Passing'
  BY <1>6, TakeChunkPasses
<1>7. ASSUME NEW s \in StreamSource, TakeDone(s)
      PROVE  Passing'
  BY <1>7, TakeDonePasses
<1>8. CASE (\E s \in StreamSource : TakeError(s)) \/ DrainDeadline \/ Stop \/ WaitFails
  BY <1>8, ReturningPasses
<1>9. CASE ChildExits
  BY <1>1, <1>9, SamePasses DEF ChildExits, loop
<1>10. CASE ObserveExit
  BY <1>1, <1>10, SamePasses DEF ObserveExit, child
<1>11. CASE Waited
  BY <1>11, WaitedPasses
<1>12. CASE NextAttempt
  BY <1>12, NextAttemptPasses
<1>13. CASE UNCHANGED vars
  BY <1>1, <1>13, SamePasses DEF vars, child, loop
<1> QED
  BY <1>2, <1>3, <1>4, <1>5, <1>6, <1>7, <1>8, <1>9, <1>10, <1>11, <1>12, <1>13
  DEF Next, Over

LEMMA PassingAlways == Spec => []Passing
<1>1. Init => Passing
  BY StartPasses DEF Init
<1>2. Passing /\ [Next]_vars => Passing'
  BY PassingInductive
<1> QED
  BY <1>1, <1>2, PTL DEF Spec

\* MarkerFoundExactly, for every set of markers and every cut of the streams into chunks: an
\* attempt counts as high demand exactly if one of its two streams contains a marker.
THEOREM MarkerIsFoundExactly == Spec => []MarkerFoundExactly
<1>1. Passing => MarkerFoundExactly
  BY DEF Passing, Scanned, MarkerFoundExactly, HighDemand
<1> QED
  BY <1>1, PassingAlways, PTL

\* NothingLostUnlessCut: what was written is what was taken, what is in the channel and what is
\* in the pipe, in this order, and an attempt that ended by itself has taken all of it.
THEOREM NothingIsLostUnlessCut == Spec => []NothingLostUnlessCut
<1>1. \A s \in StreamSource : Queued(s) = QueuedIn(channel, s)
  BY DEF Queued, QueuedIn
<1>2. Passing => NothingLostUnlessCut
  <2> SUFFICES ASSUME Passing
               PROVE  NothingLostUnlessCut
    OBVIOUS
  <2>1. at = "loop" => \A s \in StreamSource : written[s] = (taken[s] \o Queued(s)) \o pipe[s]
    BY <1>1 DEF Passing, Conserved, Between
  <2>2. at = "ok" /\ ~cut => taken = written
    BY DEF Passing, TakenAll
  <2> QED
    BY <2>1, <2>2, Zenon DEF NothingLostUnlessCut
<1> QED
  BY <1>2, PassingAlways, PTL

-----------------------------------------------------------------------------
(* Folds that pass from one value to the next *)

Passes(h, n, Y, base, step) ==
    h \in [0 .. n -> Y] /\ h[0] = base /\ \A k \in 1 .. n : h[k] = step[k][h[k - 1]]

\* The values that a fold over sets of indices takes on the initial stretches.
LEMMA StretchesPass ==
    ASSUME NEW n \in Nat, NEW Y, NEW base \in Y, NEW step \in [1 .. n -> [Y -> Y]], NEW c,
           c[1 .. 0] = base,
           \A k \in 1 .. n : c[1 .. (k - 1)] \in Y => c[1 .. k] = step[k][c[1 .. (k - 1)]]
    PROVE  Passes([k \in 0 .. n |-> c[1 .. k]], n, Y, base, step)
<1> DEFINE h == [k \in 0 .. n |-> c[1 .. k]]
<1>1. DOMAIN h = 0 .. n /\ h = [k \in 0 .. n |-> h[k]] /\ h[0] = base
  OBVIOUS
<1>2. ASSUME NEW k \in 1 .. n
      PROVE  h[k - 1] \in Y => h[k] = step[k][h[k - 1]]
  OBVIOUS
<1> HIDE DEF h
<1>3. FoldsUpTo(h, n, Y, base, step)
  BY <1>1, <1>2 DEF FoldsUpTo
<1>4. h \in [0 .. n -> Y]
  BY <1>3, FoldSteps
<1>5. \A k \in 1 .. n : h[k] = step[k][h[k - 1]]
  <2> SUFFICES ASSUME NEW k \in 1 .. n
               PROVE  h[k] = step[k][h[k - 1]]
    OBVIOUS
  <2>1. k - 1 \in 0 .. n
    OBVIOUS
  <2> QED
    BY <1>2, <1>4, <2>1
<1> QED
  BY <1>1, <1>4, <1>5 DEF Passes, h

\* Two folds that begin alike pass through the same values as long as their steps agree.
LEMMA PassesAgree ==
    ASSUME NEW n1 \in Nat, NEW n2 \in Nat, NEW Y, NEW base, NEW step1, NEW step2, NEW h1, NEW h2,
           Passes(h1, n1, Y, base, step1), Passes(h2, n2, Y, base, step2),
           NEW m \in Nat, m <= n1, m <= n2, \A k \in 1 .. m : step1[k] = step2[k]
    PROVE  h1[m] = h2[m]
<1> DEFINE Same == {k \in Nat : k <= m => h1[k] = h2[k]}
<1>1. 0 \in Same
  BY DEF Passes
<1>2. ASSUME NEW k \in Nat, k \in Same
      PROVE  k + 1 \in Same
  <2> SUFFICES ASSUME k + 1 <= m
               PROVE  h1[k + 1] = h2[k + 1]
    OBVIOUS
  <2>1. k + 1 \in 1 .. n1 /\ k + 1 \in 1 .. n2 /\ k + 1 \in 1 .. m /\ (k + 1) - 1 = k
        /\ h1[k] = h2[k]
    BY <1>2
  <2> QED
    BY <2>1 DEF Passes
<1> HIDE DEF Same
<1>3. m \in Same
  BY <1>1, <1>2, SetInduction
<1>4. m <= m
  OBVIOUS
<1> QED
  BY <1>3, <1>4 DEF Same

-----------------------------------------------------------------------------
(* What the log says *)

\* A line as the framer makes it: no longer than a logical line, and as long if it goes on.
Line ==
    {l \in [bytes: Seq(Byte), continuation: BOOLEAN] :
       Len(l.bytes) <= MaxLine /\ (l.continuation => Len(l.bytes) = MaxLine)}

LineText(l) == l.bytes \o (IF l.continuation THEN <<>> ELSE <<LF>>)

LogStep(ls, i, text) ==
    text \o ls[i].bytes \o (IF ls[i].continuation THEN <<>> ELSE <<LF>>)

LogSteps(ls) == [i \in 1 .. Len(ls) |-> [text \in Seq(Byte) |-> LogStep(ls, i, text)]]

LEMMA LogIsFold ==
    ASSUME NEW ls \in Seq(Line)
    PROVE  \E h : Passes(h, Len(ls), Seq(Byte), <<>>, LogSteps(ls)) /\ LogText(ls) = h[Len(ls)]
<1> DEFINE n == Len(ls)
           step == LogSteps(ls)
           Raw(c) == c = [S \in SUBSET (1 .. n) |->
                            IF S = {} THEN <<>> ELSE LogStep(ls, Max(S), c[S \ {Max(S)}])]
<1>1. n \in Nat /\ DOMAIN ls = 1 .. n /\ <<>> \in Seq(Byte)
  OBVIOUS
<1>2. step \in [1 .. n -> [Seq(Byte) -> Seq(Byte)]]
  <2> SUFFICES ASSUME NEW i \in 1 .. n, NEW text \in Seq(Byte)
               PROVE  LogStep(ls, i, text) \in Seq(Byte)
    BY DEF LogSteps
  <2>1. ls[i] \in Line
    OBVIOUS
  <2>2. ls[i].bytes \in Seq(Byte) /\ <<LF>> \in Seq(Byte)
    BY <2>1 DEF Line, Byte
  <2> QED
    BY <1>1, <2>2 DEF LogStep
<1>3. \A k \in 1 .. n, text \in Seq(Byte) : step[k][text] = LogStep(ls, k, text)
  BY DEF LogSteps
<1> HIDE DEF step
<1>4. \E c : Raw(c)
  <2>1. PICK c \in [SUBSET (1 .. n) -> Seq(Byte)] : FoldsSets(c, n, <<>>, step)
    <3> HIDE DEF n
    <3> QED
      BY <1>1, <1>2, FoldExists
  <2>2. ASSUME NEW S \in SUBSET (1 .. n), S # {}
        PROVE  step[Max(S)][c[S \ {Max(S)}]] = LogStep(ls, Max(S), c[S \ {Max(S)}])
    <3>1. Max(S) \in 1 .. n
      <4> HIDE DEF n
      <4> QED
        BY <1>1, <2>2, MaxOfSubset
    <3>2. c[S \ {Max(S)}] \in Seq(Byte)
      OBVIOUS
    <3> QED
      BY <1>3, <3>1, <3>2
  <2>3. Raw(c)
    <3> HIDE DEF n
    <3> QED
      BY <2>1, <2>2 DEF FoldsSets
  <2> QED
    BY <2>3
<1>5. PICK c : Raw(c) /\ LogText(ls) = c[1 .. n]
  <2>1. Raw(CHOOSE c : Raw(c))
    BY <1>4
  <2>2. LogText(ls) = (CHOOSE c : Raw(c))[1 .. n]
    BY <1>1 DEF LogText, FoldLeft, MapThenFoldSet, LogStep
  <2> QED
    BY <2>1, <2>2
<1>6. c[1 .. 0] = <<>>
  <2>1. 1 .. 0 = {}
    OBVIOUS
  <2> QED
    BY <1>5, <2>1
<1>7. \A k \in 1 .. n : c[1 .. (k - 1)] \in Seq(Byte) => c[1 .. k] = step[k][c[1 .. (k - 1)]]
  <2> SUFFICES ASSUME NEW k \in 1 .. n, c[1 .. (k - 1)] \in Seq(Byte)
               PROVE  c[1 .. k] = step[k][c[1 .. (k - 1)]]
    OBVIOUS
  <2>1. 1 .. k \in SUBSET (1 .. n) /\ 1 .. k # {} /\ Max(1 .. k) = k
        /\ (1 .. k) \ {k} = 1 .. (k - 1)
    BY MaxOfStretch, SMTT(30)
  <2>2. c[1 .. k] = LogStep(ls, k, c[1 .. (k - 1)])
    BY <1>5, <2>1
  <2> QED
    BY <1>3, <2>2
<1> DEFINE h == [k \in 0 .. n |-> c[1 .. k]]
<1>8. h[n] = c[1 .. n]
  BY <1>1
<1>9. Passes(h, n, Seq(Byte), <<>>, step)
  <2> HIDE DEF n
  <2> QED
    BY <1>1, <1>2, <1>6, <1>7, StretchesPass
<1> HIDE DEF h
<1> QED
  BY <1>5, <1>8, <1>9 DEF step

LEMMA LogTextEmpty == LogText(<<>>) = <<>>
<1>1. <<>> \in Seq(Line) /\ Len(<<>>) = 0
  OBVIOUS
<1>2. PICK h : Passes(h, 0, Seq(Byte), <<>>, LogSteps(<<>>)) /\ LogText(<<>>) = h[0]
  BY <1>1, LogIsFold
<1> QED
  BY <1>2 DEF Passes

LEMMA LogTextAppend ==
    ASSUME NEW ls \in Seq(Line), NEW l \in Line
    PROVE  /\ LogText(ls) \in Seq(Byte) /\ LineText(l) \in Seq(Byte)
           /\ LogText(Append(ls, l)) = LogText(ls) \o LineText(l)
<1> DEFINE n == Len(ls)
           longer == Append(ls, l)
<1>1. n \in Nat /\ longer \in Seq(Line) /\ Len(longer) = n + 1 /\ longer[n + 1] = l
      /\ \A k \in 1 .. n : longer[k] = ls[k]
  OBVIOUS
<1>2. PICK h : Passes(h, n, Seq(Byte), <<>>, LogSteps(ls)) /\ LogText(ls) = h[n]
  BY LogIsFold
<1> HIDE DEF longer
<1>3. PICK g : Passes(g, n + 1, Seq(Byte), <<>>, LogSteps(longer)) /\ LogText(longer) = g[n + 1]
  BY <1>1, LogIsFold
<1>4. \A k \in 1 .. n : LogSteps(ls)[k] = LogSteps(longer)[k]
  <2> SUFFICES ASSUME NEW k \in 1 .. n
               PROVE  LogSteps(ls)[k] = LogSteps(longer)[k]
    OBVIOUS
  <2>1. k \in 1 .. (n + 1) /\ longer[k] = ls[k]
    BY <1>1
  <2>2. LogSteps(ls)[k] = [text \in Seq(Byte) |-> LogStep(ls, k, text)]
        /\ LogSteps(longer)[k] = [text \in Seq(Byte) |-> LogStep(longer, k, text)]
    BY <1>1, <2>1 DEF LogSteps
  <2>3. \A text : LogStep(ls, k, text) = LogStep(longer, k, text)
    BY <2>1 DEF LogStep
  <2> QED
    BY <2>2, <2>3
<1>5. g[n] = h[n]
  <2>1. n + 1 \in Nat /\ n <= n /\ n <= n + 1
    BY <1>1
  <2> HIDE DEF n
  <2> QED
    BY <1>1, <1>2, <1>3, <1>4, <2>1, PassesAgree
<1>6. h[n] \in Seq(Byte)
  BY <1>1, <1>2 DEF Passes
<1>7. l.bytes \in Seq(Byte) /\ (IF l.continuation THEN <<>> ELSE <<LF>>) \in Seq(Byte)
  <2>1. <<>> \in Seq(Byte) /\ <<LF>> \in Seq(Byte)
    BY DEF Byte
  <2>2. l.bytes \in Seq(Byte)
    BY DEF Line
  <2> QED
    BY <2>1, <2>2
<1>8. g[n + 1] = LogStep(longer, n + 1, g[n])
  <2>1. n + 1 \in 1 .. (n + 1) /\ (n + 1) - 1 = n
    BY <1>1
  <2>2. g[n + 1] = LogSteps(longer)[n + 1][g[n]]
    BY <1>3, <2>1 DEF Passes
  <2> QED
    BY <1>1, <1>5, <1>6, <2>1, <2>2 DEF LogSteps
<1>9. g[n + 1] = (h[n] \o l.bytes) \o (IF l.continuation THEN <<>> ELSE <<LF>>)
  BY <1>1, <1>5, <1>8 DEF LogStep
<1>10. g[n + 1] = h[n] \o LineText(l)
  BY <1>6, <1>7, <1>9, Associative, Zenon DEF LineText
<1>11. LineText(l) \in Seq(Byte)
  BY <1>7 DEF LineText
<1> QED
  BY <1>2, <1>3, <1>6, <1>10, <1>11 DEF longer

LEMMA LogTextIsText ==
    ASSUME NEW ls \in Seq(Line)
    PROVE  LogText(ls) \in Seq(Byte)
<1>1. FramedLine(<<>>, FALSE) \in Line
  BY OutputConstants DEF FramedLine, Line
<1> QED
  BY <1>1, LogTextAppend

LEMMA Multiples ==
    ASSUME NEW k \in Nat
    PROVE  /\ k * MaxLine \in Nat /\ (k + 1) * MaxLine = k * MaxLine + MaxLine
           /\ MaxLine \in Nat \ {0} /\ (k + 1) - 1 = k
BY OutputConstants

\* How many full pieces leave, so that something short enough stays.
LEMMA FullPieces ==
    ASSUME NEW n \in Nat \ {0}
    PROVE  /\ (n - 1) \div MaxLine \in Nat
           /\ ((n - 1) \div MaxLine) * MaxLine < n
           /\ n <= ((n - 1) \div MaxLine) * MaxLine + MaxLine
<1>1. MaxLine \in Nat \ {0}
  BY OutputConstants
<1> QED
  BY <1>1, SMTT(30)

PieceOf(whole, k) ==
    FramedLine(SubSeq(whole, (k - 1) * MaxLine + 1, k * MaxLine), TRUE)

PiecesOf(whole, n) == [k \in 1 .. n |-> PieceOf(whole, k)]

\* The stretch of a sequence between two positions, and two stretches side by side.
LEMMA Stretch ==
    ASSUME NEW t \in Seq(Byte), NEW a \in Nat, NEW b \in Nat, a <= b, b <= Len(t)
    PROVE  /\ SubSeq(t, a + 1, b) \in Seq(Byte) /\ Len(SubSeq(t, a + 1, b)) = b - a
           /\ SubSeq(t, 1, a) \in Seq(Byte) /\ Len(SubSeq(t, 1, a)) = a
           /\ SubSeq(t, 1, a) \o SubSeq(t, a + 1, b) = SubSeq(t, 1, b)
           /\ a < b => SubSeq(t, a + 1, b) # <<>> /\ Last(SubSeq(t, a + 1, b)) = t[b]
<1>1. Len(t) \in Nat /\ \A k \in 1 .. Len(t) : t[k] \in Byte
  OBVIOUS
<1>2. /\ SubSeq(t, a + 1, b) \in Seq(Byte)
      /\ Len(SubSeq(t, a + 1, b)) = IF a + 1 <= b THEN b - (a + 1) + 1 ELSE 0
      /\ \A i \in 1 .. b - (a + 1) + 1 : SubSeq(t, a + 1, b)[i] = t[(a + 1) + i - 1]
  <2>1. a + 1 \in Int /\ b \in Int /\ \A k \in a + 1 .. b : t[k] \in Byte
    BY <1>1
  <2> QED
    BY <2>1, SubSeqProperties
<1>3. /\ SubSeq(t, 1, a) \in Seq(Byte)
      /\ Len(SubSeq(t, 1, a)) = IF 1 <= a THEN a - 1 + 1 ELSE 0
  <2>1. 1 \in Int /\ a \in Int /\ \A k \in 1 .. a : t[k] \in Byte
    BY <1>1
  <2> QED
    BY <2>1, SubSeqProperties
<1>4. SubSeq(t, 1, a) \o SubSeq(t, a + 1, b) = SubSeq(t, 1, b)
  <2>1. 1 \in 1 .. Len(t) + 1 /\ a \in 1 - 1 .. Len(t) /\ b \in a .. Len(t)
    BY <1>1
  <2> QED
    BY <2>1, ConcatAdjacentSubSeq
<1>5. Len(SubSeq(t, a + 1, b)) = b - a
  BY <1>2
<1>6. ASSUME a < b
      PROVE  SubSeq(t, a + 1, b) # <<>> /\ Last(SubSeq(t, a + 1, b)) = t[b]
  <2> DEFINE part == SubSeq(t, a + 1, b)
  <2>1. part \in Seq(Byte) /\ Len(part) = b - a /\ part[b - a] = t[b]
    <3>1. b - a \in 1 .. b - (a + 1) + 1 /\ (a + 1) + (b - a) - 1 = b
      BY <1>6
    <3> QED
      BY <1>2, <1>5, <3>1
  <2> HIDE DEF part
  <2>2. part # <<>> /\ Last(part) = t[b]
    BY <1>6, <2>1 DEF Last
  <2> QED
    BY <2>2 DEF part
<1>7. Len(SubSeq(t, 1, a)) = a
  BY <1>3
<1> QED
  BY <1>2, <1>3, <1>4, <1>5, <1>6, <1>7, Zenon

LEMMA LineAfter ==
    \A t, u \in Seq(Line), l \in Line : Append(t \o u, l) = t \o Append(u, l)
<1> SUFFICES ASSUME NEW t \in Seq(Line), NEW u \in Seq(Line), NEW l \in Line
             PROVE  Append(t \o u, l) = t \o Append(u, l)
  OBVIOUS
<1>1. t \o u \in Seq(Line) /\ <<l>> \in Seq(Line)
  OBVIOUS
<1>2. Append(t \o u, l) = (t \o u) \o <<l>> /\ Append(u, l) = u \o <<l>>
  BY <1>1, AppendIsConcat
<1> QED
  BY <1>1, <1>2, ConcatAssociative

\* The pieces that leave are lines that go on, and say what the pieces say.
LEMMA PiecesSay ==
    ASSUME NEW ls \in Seq(Line), NEW whole \in Seq(Byte), NEW n \in Nat,
           n * MaxLine <= Len(whole)
    PROVE  /\ ls \o PiecesOf(whole, n) \in Seq(Line)
           /\ LogText(ls \o PiecesOf(whole, n)) = LogText(ls) \o SubSeq(whole, 1, n * MaxLine)
<1> DEFINE Good == {k \in Nat : k * MaxLine <= Len(whole) =>
                      /\ PiecesOf(whole, k) \in Seq(Line)
                      /\ LogText(ls \o PiecesOf(whole, k))
                           = LogText(ls) \o SubSeq(whole, 1, k * MaxLine)}
<1>0. \A k \in Nat : k \in Good <=> (k * MaxLine <= Len(whole) =>
                      /\ PiecesOf(whole, k) \in Seq(Line)
                      /\ LogText(ls \o PiecesOf(whole, k))
                           = LogText(ls) \o SubSeq(whole, 1, k * MaxLine))
  OBVIOUS
<1>t. LogText(ls) \in Seq(Byte)
  BY LogTextIsText
<1> HIDE DEF Good
<1>1. 0 \in Good
  <2>1. PiecesOf(whole, 0) = <<>>
    BY DEF PiecesOf
  <2>2. 0 * MaxLine = 0
    BY OutputConstants
  <2>3. SubSeq(whole, 1, 0) = <<>>
    BY SubSeqEmpty
  <2>4. ls \o <<>> = ls /\ LogText(ls) \o <<>> = LogText(ls)
    BY <1>t, ConcatEmptySeq
  <2>5. 0 \in Nat
    OBVIOUS
  <2>6. PiecesOf(whole, 0) \in Seq(Line)
    <3>1. <<>> \in Seq(Line)
      OBVIOUS
    <3> QED
      BY <2>1, <3>1
  <2>7. LogText(ls \o PiecesOf(whole, 0)) = LogText(ls) \o SubSeq(whole, 1, 0 * MaxLine)
    BY <2>1, <2>2, <2>3, <2>4
  <2> QED
    BY <1>0, <2>5, <2>6, <2>7, Zenon
<1>2. ASSUME NEW k \in Nat, k \in Good
      PROVE  k + 1 \in Good
  <2> DEFINE a == k * MaxLine
             b == (k + 1) * MaxLine
             l == PieceOf(whole, k + 1)
             before == ls \o PiecesOf(whole, k)
             part == SubSeq(whole, a + 1, b)
  <2> SUFFICES ASSUME b <= Len(whole)
               PROVE  /\ PiecesOf(whole, k + 1) \in Seq(Line)
                      /\ LogText(ls \o PiecesOf(whole, k + 1))
                           = LogText(ls) \o SubSeq(whole, 1, b)
    <3>1. k + 1 \in Nat
      OBVIOUS
    <3> QED
      BY <1>0, <3>1, Zenon
  <2>1. a \in Nat /\ b = a + MaxLine /\ MaxLine \in Nat \ {0} /\ (k + 1) - 1 = k /\ b \in Nat
    <3>1. a \in Nat /\ b = a + MaxLine /\ MaxLine \in Nat \ {0} /\ (k + 1) - 1 = k
      BY Multiples
    <3> HIDE DEF a, b
    <3> QED
      BY <3>1
  <2>2. a <= b /\ a <= Len(whole) /\ b - a = MaxLine /\ Len(whole) \in Nat
    <3> HIDE DEF a, b
    <3>1. Len(whole) \in Nat
      OBVIOUS
    <3> QED
      BY <2>1, <3>1
  <2>3. PiecesOf(whole, k) \in Seq(Line)
        /\ LogText(before) = LogText(ls) \o SubSeq(whole, 1, a)
    BY <1>0, <1>2, <2>2, Zenon
  <2>4. l = FramedLine(part, TRUE)
    BY <2>1 DEF PieceOf
  <2> HIDE DEF a, b
  <2>5. /\ part \in Seq(Byte) /\ Len(part) = MaxLine /\ SubSeq(whole, 1, a) \in Seq(Byte)
        /\ SubSeq(whole, 1, a) \o part = SubSeq(whole, 1, b)
    BY <2>1, <2>2, Stretch
  <2> HIDE DEF part, l
  <2>6. l.bytes = part /\ l.continuation = TRUE /\ l \in Line
    BY <2>1, <2>4, <2>5 DEF FramedLine, Line
  <2>7. PiecesOf(whole, k + 1) = Append(PiecesOf(whole, k), l)
        /\ PiecesOf(whole, k + 1) \in Seq(Line)
    <3> DEFINE pieces == PiecesOf(whole, k)
               longer == PiecesOf(whole, k + 1)
    <3>1. Len(pieces) = k /\ \A i \in 1 .. k : pieces[i] = PieceOf(whole, i)
      BY DEF PiecesOf
    <3>2. /\ longer = [i \in 1 .. (k + 1) |-> PieceOf(whole, i)]
          /\ \A i \in 1 .. (k + 1) : longer[i] = PieceOf(whole, i)
      BY DEF PiecesOf
    <3>3. \A i \in 1 .. k : pieces[i] \in Line
      BY <2>3, <3>1
    <3>4. PieceOf(whole, k + 1) = l
      BY DEF l
    <3> HIDE DEF pieces, longer
    <3>5. \A i \in 1 .. (k + 1) : PieceOf(whole, i) \in Line
      <4> SUFFICES ASSUME NEW i \in 1 .. (k + 1)
                   PROVE  PieceOf(whole, i) \in Line
        OBVIOUS
      <4>1. CASE i = k + 1
        BY <2>6, <3>4, <4>1
      <4>2. CASE i # k + 1
        <5>1. i \in 1 .. k
          BY <4>2
        <5> QED
          BY <3>1, <3>3, <5>1
      <4> QED
        BY <4>1, <4>2
    <3>6. longer \in Seq(Line) /\ Len(longer) = k + 1
      BY <3>2, <3>5
    <3>7. /\ Append(pieces, l) \in Seq(Line) /\ Len(Append(pieces, l)) = k + 1
          /\ Append(pieces, l)[k + 1] = l
          /\ \A i \in 1 .. k : Append(pieces, l)[i] = pieces[i]
      <4>1. pieces \in Seq(Line)
        BY <2>3 DEF pieces
      <4> QED
        BY <2>6, <3>1, <4>1
    <3>8. \A i \in 1 .. (k + 1) : longer[i] = Append(pieces, l)[i]
      <4> SUFFICES ASSUME NEW i \in 1 .. (k + 1)
                   PROVE  longer[i] = Append(pieces, l)[i]
        OBVIOUS
      <4>1. CASE i = k + 1
        BY <3>2, <3>4, <3>7, <4>1
      <4>2. CASE i # k + 1
        <5>1. i \in 1 .. k
          BY <4>2
        <5> QED
          BY <3>1, <3>2, <3>7, <5>1
      <4> QED
        BY <4>1, <4>2
    <3>9. longer = Append(pieces, l)
      BY <3>6, <3>7, <3>8, SeqEqual
    <3> QED
      BY <3>6, <3>9 DEF pieces, longer
  <2>a. before \in Seq(Line)
    BY <2>3
  <2>b. ls \o PiecesOf(whole, k + 1) = Append(before, l)
    <3>1. Append(ls \o PiecesOf(whole, k), l) = ls \o Append(PiecesOf(whole, k), l)
      BY <2>3, <2>6, LineAfter, Zenon
    <3> QED
      BY <2>7, <3>1
  <2>8. LogText(Append(before, l)) = LogText(before) \o LineText(l)
    BY <2>6, <2>a, LogTextAppend
  <2>9. LineText(l) = part
    BY <2>5, <2>6, ConcatEmptySeq DEF LineText
  <2>10. (LogText(ls) \o SubSeq(whole, 1, a)) \o part
           = LogText(ls) \o (SubSeq(whole, 1, a) \o part)
    BY <1>t, <2>5, Associative, Zenon
  <2>11. LogText(ls \o PiecesOf(whole, k + 1)) = LogText(ls) \o SubSeq(whole, 1, b)
    BY <2>3, <2>5, <2>8, <2>9, <2>10, <2>b, Zenon
  <2> QED
    BY <2>7, <2>11
<1>3. n \in Good
  BY <1>1, <1>2, SetInduction
<1>4. PiecesOf(whole, n) \in Seq(Line)
      /\ LogText(ls \o PiecesOf(whole, n)) = LogText(ls) \o SubSeq(whole, 1, n * MaxLine)
  BY <1>0, <1>3, Zenon
<1> QED
  BY <1>4

-----------------------------------------------------------------------------
(* The framer *)

\* What a frame holds between two bytes.
Frame ==
    {f \in [pending: Seq(Byte), segment: Seq(Byte), framed: Seq(Line)] :
       Len(f.pending) <= MaxLine}

Unframed(f) == f.pending \o f.segment

\* Nothing is lost when a segment joins what is pending, and something of it stays.
LEMMA ExtendShape ==
    ASSUME NEW f \in [pending: Seq(Byte), segment: Seq(Byte), framed: Seq(Line)]
    PROVE  /\ ExtendBounded(f) \in Frame /\ ExtendBounded(f).segment = <<>>
           /\ LogText(ExtendBounded(f).framed) \o ExtendBounded(f).pending
                = LogText(f.framed) \o Unframed(f)
           /\ ExtendBounded(f).pending = <<>> <=> Unframed(f) = <<>>
           /\ Unframed(f) # <<>> => Last(ExtendBounded(f).pending) = Last(Unframed(f))
<1> DEFINE whole == Unframed(f)
           n == Len(whole)
           full == IF whole = <<>> THEN 0 ELSE (n - 1) \div MaxLine
           first == full * MaxLine
           e == ExtendBounded(f)
<1>1. whole \in Seq(Byte) /\ n \in Nat
  BY DEF Unframed
<1>2. /\ e.pending = SubSeq(whole, first + 1, n) /\ e.segment = <<>>
      /\ e.framed = f.framed \o PiecesOf(whole, full)
      /\ e = [pending |-> e.pending, segment |-> e.segment, framed |-> e.framed]
  BY DEF ExtendBounded, Unframed, PiecesOf, PieceOf
<1> HIDE DEF whole, e
<1>3. /\ full \in Nat /\ first \in Nat /\ first <= n /\ n - first <= MaxLine
      /\ whole # <<>> => first < n
  <2>1. CASE whole = <<>>
    <3>1. n = 0 /\ full = 0
      BY <2>1, <1>1
    <3>2. 0 * MaxLine = 0 /\ MaxLine \in Nat
      BY OutputConstants
    <3> QED
      BY <2>1, <3>1, <3>2
  <2>2. CASE whole # <<>>
    <3>1. n \in Nat \ {0}
      BY <1>1, <2>2, EmptySeq
    <3>2. full = (n - 1) \div MaxLine
      BY <2>2
    <3>3. full \in Nat /\ first < n /\ n <= first + MaxLine
      BY <3>1, <3>2, FullPieces
    <3>4. first \in Nat /\ MaxLine \in Nat
      BY <3>3, Multiples
    <3> HIDE DEF first, full, n
    <3> QED
      BY <3>1, <3>3, <3>4
  <2> QED
    BY <2>1, <2>2
<1> HIDE DEF first, full
<1>4. /\ e.pending \in Seq(Byte) /\ Len(e.pending) = n - first
      /\ SubSeq(whole, 1, first) \in Seq(Byte)
      /\ SubSeq(whole, 1, first) \o e.pending = SubSeq(whole, 1, n)
      /\ first < n => e.pending # <<>> /\ Last(e.pending) = whole[n]
  <2>1. n <= Len(whole)
    BY <1>1
  <2> HIDE DEF n
  <2> QED
    <3>1. /\ SubSeq(whole, first + 1, n) \in Seq(Byte)
          /\ Len(SubSeq(whole, first + 1, n)) = n - first
          /\ SubSeq(whole, 1, first) \in Seq(Byte)
          /\ SubSeq(whole, 1, first) \o SubSeq(whole, first + 1, n) = SubSeq(whole, 1, n)
          /\ first < n =>
               SubSeq(whole, first + 1, n) # <<>> /\ Last(SubSeq(whole, first + 1, n)) = whole[n]
      <4>1. whole \in Seq(Byte) /\ first \in Nat /\ n \in Nat /\ first <= n
        BY <1>1, <1>3
      <4> QED
        BY <2>1, <4>1, Stretch, ZenonT(30)
    <3>2. e.pending = SubSeq(whole, first + 1, n)
      BY <1>2
    <3> QED
      BY <3>1, <3>2
<1>5. SubSeq(whole, 1, n) = whole
  BY <1>1, SubSeqFull
<1>6. f.framed \in Seq(Line)
  OBVIOUS
<1>7. /\ e.framed \in Seq(Line)
      /\ LogText(e.framed) = LogText(f.framed) \o SubSeq(whole, 1, first)
  <2>1. full * MaxLine <= Len(whole) /\ first = full * MaxLine
    BY <1>3 DEF first
  <2> HIDE DEF n
  <2> QED
    <3>1. /\ f.framed \o PiecesOf(whole, full) \in Seq(Line)
          /\ LogText(f.framed \o PiecesOf(whole, full))
               = LogText(f.framed) \o SubSeq(whole, 1, full * MaxLine)
      <4>1. full \in Nat
        BY <1>3
      <4> QED
        BY <1>1, <1>6, <2>1, <4>1, PiecesSay
    <3>2. e.framed = f.framed \o PiecesOf(whole, full)
      BY <1>2
    <3> QED
      BY <2>1, <3>1, <3>2
<1>8. LogText(f.framed) \in Seq(Byte)
  BY <1>6, LogTextIsText
<1>9. LogText(e.framed) \o e.pending = LogText(f.framed) \o whole
  <2>1. (LogText(f.framed) \o SubSeq(whole, 1, first)) \o e.pending
          = LogText(f.framed) \o (SubSeq(whole, 1, first) \o e.pending)
    BY <1>4, <1>8, Associative, Zenon
  <2> QED
    BY <1>4, <1>5, <1>7, <2>1
<1>10. e \in Frame
  <2>1. e.segment \in Seq(Byte) /\ Len(e.pending) <= MaxLine
    BY <1>2, <1>3, <1>4
  <2> HIDE DEF n
  <2>2. e \in [pending: Seq(Byte), segment: Seq(Byte), framed: Seq(Line)]
    BY <1>2, <1>4, <1>7, <2>1
  <2> QED
    BY <2>1, <2>2 DEF Frame
<1>11. whole = <<>> => e.pending = <<>>
  <2> SUFFICES ASSUME whole = <<>>
               PROVE  e.pending = <<>>
    OBVIOUS
  <2>1. n = 0
    OBVIOUS
  <2>2. Len(e.pending) = 0
    BY <1>3, <1>4, <2>1
  <2> QED
    BY <1>4, <2>2, EmptySeq
<1>12. whole # <<>> => e.pending # <<>> /\ Last(e.pending) = Last(whole)
  BY <1>3, <1>4 DEF Last
<1> QED
  BY <1>2, <1>9, <1>10, <1>11, <1>12 DEF e, whole

LEMMA FrontOfAppend ==
    ASSUME NEW u \in Seq(Byte), NEW c \in Byte
    PROVE  Append(u, c) # <<>> /\ Last(Append(u, c)) = c /\ Front(Append(u, c)) = u
<1>1. Len(Append(u, c)) = Len(u) + 1 /\ Append(u, c)[Len(u) + 1] = c /\ Append(u, c) # <<>>
      /\ Len(u) \in Nat
  BY AppendProperties
<1>2. Last(Append(u, c)) = c
  BY <1>1 DEF Last
<1>3. Front(Append(u, c)) = SubSeq(Append(u, c), 1, Len(u))
  <2>1. (Len(u) + 1) - 1 = Len(u)
    BY <1>1
  <2> QED
    BY <1>1, <2>1 DEF Front
<1>4. SubSeq(Append(u, c), 1, Len(u)) = u
  <2>1. Append(u, c) \in Seq(Byte) /\ Len(u) <= Len(Append(u, c))
        /\ \A i \in 1 .. Len(u) : Append(u, c)[i] = u[i]
    BY <1>1, AppendProperties
  <2> DEFINE a == Append(u, c)
             part == SubSeq(a, 1, Len(u))
  <2>2. /\ part \in Seq(Byte) /\ Len(part) = IF 1 <= Len(u) THEN Len(u) - 1 + 1 ELSE 0
        /\ \A i \in 1 .. Len(u) - 1 + 1 : part[i] = a[1 + i - 1]
    <3>1. 1 \in Int /\ Len(u) \in Int /\ \A k \in 1 .. Len(u) : a[k] \in Byte
      BY <2>1
    <3> HIDE DEF a
    <3> QED
      BY <3>1, SubSeqProperties
  <2> HIDE DEF part, a
  <2>3. Len(part) = Len(u)
    BY <1>1, <2>2
  <2>4. \A i \in 1 .. Len(part) : part[i] = u[i]
    <3> SUFFICES ASSUME NEW i \in 1 .. Len(u)
                 PROVE  part[i] = u[i]
      BY <2>3
    <3>1. i \in 1 .. Len(u) - 1 + 1 /\ 1 + i - 1 = i
      BY <1>1
    <3> QED
      BY <2>1, <2>2, <3>1 DEF a
  <2>5. part = u
    BY <2>2, <2>3, <2>4, SeqEqual
  <2> QED
    BY <2>5 DEF part, a
<1> QED
  BY <1>1, <1>2, <1>3, <1>4

\* The last byte and what is before it.
LEMMA FrontAndLast ==
    ASSUME NEW s \in Seq(Byte), s # <<>>
    PROVE  /\ Front(s) \in Seq(Byte) /\ Last(s) \in Byte /\ s = Append(Front(s), Last(s))
           /\ \A p \in Seq(Byte) :
                p \o s # <<>> /\ Last(p \o s) = Last(s) /\ Front(p \o s) = p \o Front(s)
<1>1. PICK t \in Seq(Byte), b \in Byte : s = Append(t, b)
  BY SequenceEmptyOrAppend
<1>2. \A u \in Seq(Byte), c \in Byte :
        Append(u, c) # <<>> /\ Last(Append(u, c)) = c /\ Front(Append(u, c)) = u
  BY FrontOfAppend
<1>3. Front(s) = t /\ Last(s) = b
  BY <1>1, <1>2
<1>4. ASSUME NEW p \in Seq(Byte)
      PROVE  p \o s # <<>> /\ Last(p \o s) = Last(s) /\ Front(p \o s) = p \o Front(s)
  <2>1. p \o s = Append(p \o t, b)
    BY <1>1, AppendAfter, Zenon
  <2>2. p \o t \in Seq(Byte)
    OBVIOUS
  <2> QED
    BY <1>2, <1>3, <2>1, <2>2, Zenon
<1> QED
  BY <1>1, <1>3, <1>4

LEMMA DropCRShape ==
    ASSUME NEW p \in Seq(Byte), NEW s \in Seq(Byte)
    PROVE  /\ DropCR(s) \in Seq(Byte)
           /\ DropCR(p \o s) = IF s = <<>> THEN DropCR(p) ELSE p \o DropCR(s)
<1>1. CASE s = <<>>
  BY <1>1, ConcatEmptySeq DEF DropCR, EndsWith
<1>2. CASE s # <<>>
  <2>1. /\ Front(s) \in Seq(Byte)
        /\ p \o s # <<>> /\ Last(p \o s) = Last(s) /\ Front(p \o s) = p \o Front(s)
    BY <1>2, FrontAndLast
  <2> QED
    BY <1>2, <2>1 DEF DropCR, EndsWith
<1> QED
  BY <1>1, <1>2

LEMMA EndLineShape ==
    ASSUME NEW f \in Frame
    PROVE  /\ EndLine(f) \in Frame /\ EndLine(f).pending = <<>> /\ EndLine(f).segment = <<>>
           /\ LogText(EndLine(f).framed) = (LogText(f.framed) \o DropCR(Unframed(f))) \o <<LF>>
<1> DEFINE stripped == IF f.segment = <<>>
                       THEN [f EXCEPT !.pending = DropCR(@)]
                       ELSE [f EXCEPT !.segment = DropCR(@)]
           e == ExtendBounded(stripped)
           l == FramedLine(e.pending, FALSE)
           ended == EndLine(f)
<1>1. f = [pending |-> f.pending, segment |-> f.segment, framed |-> f.framed]
      /\ f.pending \in Seq(Byte) /\ f.segment \in Seq(Byte) /\ f.framed \in Seq(Line)
  BY DEF Frame
<1>2. ended = [e EXCEPT !.pending = <<>>, !.framed = Append(@, l)]
  BY Zenon DEF EndLine
<1>3. /\ stripped \in [pending: Seq(Byte), segment: Seq(Byte), framed: Seq(Line)]
      /\ stripped.framed = f.framed /\ Unframed(stripped) = DropCR(Unframed(f))
  <2>1. CASE f.segment = <<>>
    <3>1. stripped = [pending |-> DropCR(f.pending), segment |-> f.segment, framed |-> f.framed]
      BY <1>1, <2>1
    <3>2. DropCR(f.pending) \in Seq(Byte)
          /\ DropCR(f.pending \o f.segment) = DropCR(f.pending)
      BY <1>1, <2>1, DropCRShape
    <3> HIDE DEF stripped
    <3>3. Unframed(stripped) = DropCR(f.pending)
      BY <2>1, <3>1, <3>2, ConcatEmptySeq DEF Unframed
    <3> QED
      BY <1>1, <3>1, <3>2, <3>3 DEF Unframed
  <2>2. CASE f.segment # <<>>
    <3>1. stripped = [pending |-> f.pending, segment |-> DropCR(f.segment), framed |-> f.framed]
      BY <1>1, <2>2
    <3>2. DropCR(f.segment) \in Seq(Byte)
          /\ DropCR(f.pending \o f.segment) = f.pending \o DropCR(f.segment)
      BY <1>1, <2>2, DropCRShape
    <3> HIDE DEF stripped
    <3>3. Unframed(stripped) = f.pending \o DropCR(f.segment)
      BY <3>1 DEF Unframed
    <3> QED
      BY <1>1, <3>1, <3>2, <3>3 DEF Unframed
  <2> QED
    BY <2>1, <2>2
<1> HIDE DEF stripped
<1>4. /\ e \in Frame /\ e.segment = <<>>
      /\ LogText(e.framed) \o e.pending = LogText(stripped.framed) \o Unframed(stripped)
  BY <1>3, ExtendShape
<1> HIDE DEF e
<1>5. /\ e = [pending |-> e.pending, segment |-> e.segment, framed |-> e.framed]
      /\ e.pending \in Seq(Byte) /\ e.framed \in Seq(Line) /\ Len(e.pending) <= MaxLine
  BY <1>4 DEF Frame
<1>6. l \in Line /\ LineText(l) = e.pending \o <<LF>>
  BY <1>5 DEF FramedLine, Line, LineText
<1> HIDE DEF l
<1>7. ended = [pending |-> <<>>, segment |-> <<>>, framed |-> Append(e.framed, l)]
  BY <1>2, <1>4, <1>5
<1>8. Append(e.framed, l) \in Seq(Line)
  BY <1>5, <1>6
<1>9. ended \in Frame
  <2>1. <<>> \in Seq(Byte) /\ Len(<<>>) = 0 /\ 0 <= MaxLine
    BY OutputConstants
  <2> HIDE DEF ended
  <2> QED
    BY <1>7, <1>8, <2>1 DEF Frame
<1>10. LogText(Append(e.framed, l)) = (LogText(f.framed) \o DropCR(Unframed(f))) \o <<LF>>
  <2>1. LogText(Append(e.framed, l)) = LogText(e.framed) \o (e.pending \o <<LF>>)
    BY <1>5, <1>6, LogTextAppend
  <2>2. LogText(e.framed) \in Seq(Byte) /\ <<LF>> \in Seq(Byte)
    BY <1>5, LogTextIsText DEF Byte
  <2>3. (LogText(e.framed) \o e.pending) \o <<LF>> = LogText(e.framed) \o (e.pending \o <<LF>>)
    BY <1>5, <2>2, Associative, Zenon
  <2> QED
    BY <1>3, <1>4, <2>1, <2>3
<1> QED
  BY <1>7, <1>9, <1>10

-----------------------------------------------------------------------------
(* The output without regard to chunks *)

NormalStep(t, i, text) ==
    IF ~(t[i] = CR /\ i < Len(t) /\ t[i + 1] = LF) THEN Append(text, t[i]) ELSE text

NormalSteps(t) == [i \in 1 .. Len(t) |-> [text \in Seq(Byte) |-> NormalStep(t, i, text)]]

LEMMA NormalIsFold ==
    ASSUME NEW t \in Seq(Byte)
    PROVE  \E h : Passes(h, Len(t), Seq(Byte), <<>>, NormalSteps(t)) /\ Normal(t) = h[Len(t)]
<1> DEFINE n == Len(t)
           step == NormalSteps(t)
           place == [i \in DOMAIN t |-> i]
           Raw(c) == c = [S \in SUBSET (DOMAIN place) |->
                            IF S = {} THEN <<>>
                            ELSE NormalStep(t, place[Max(S)], c[S \ {Max(S)}])]
<1>1. n \in Nat /\ DOMAIN t = 1 .. n /\ <<>> \in Seq(Byte)
  OBVIOUS
<1>p. DOMAIN place = 1 .. n /\ \A i \in 1 .. n : place[i] = i
  BY <1>1
<1>2. step \in [1 .. n -> [Seq(Byte) -> Seq(Byte)]]
  <2> SUFFICES ASSUME NEW i \in 1 .. n, NEW text \in Seq(Byte)
               PROVE  NormalStep(t, i, text) \in Seq(Byte)
    BY DEF NormalSteps
  <2>1. t[i] \in Byte
    OBVIOUS
  <2> QED
    BY <2>1 DEF NormalStep
<1>3. \A k \in 1 .. n, text \in Seq(Byte) : step[k][text] = NormalStep(t, k, text)
  BY DEF NormalSteps
<1> HIDE DEF step
<1>4. \E c : Raw(c)
  <2>1. PICK c \in [SUBSET (1 .. n) -> Seq(Byte)] : FoldsSets(c, n, <<>>, step)
    <3> HIDE DEF n
    <3> QED
      BY <1>1, <1>2, FoldExists
  <2>2. ASSUME NEW S \in SUBSET (1 .. n), S # {}
        PROVE  step[Max(S)][c[S \ {Max(S)}]] = NormalStep(t, place[Max(S)], c[S \ {Max(S)}])
    <3>1. Max(S) \in 1 .. n
      <4> HIDE DEF n
      <4> QED
        BY <1>1, <2>2, MaxOfSubset
    <3>2. c[S \ {Max(S)}] \in Seq(Byte)
      OBVIOUS
    <3> HIDE DEF place
    <3> QED
      BY <1>3, <1>p, <3>1, <3>2
  <2>3. Raw(c)
    <3> HIDE DEF n, place
    <3> QED
      BY <1>p, <2>1, <2>2 DEF FoldsSets
  <2> QED
    BY <2>3
<1>5. PICK c : Raw(c) /\ Normal(t) = c[1 .. n]
  <2>1. Raw(CHOOSE c : Raw(c))
    BY <1>4
  <2>2. Normal(t) = (CHOOSE c : Raw(c))[DOMAIN place]
    BY DEF Normal, FoldLeftDomain, FoldLeft, MapThenFoldSet, NormalStep
  <2> QED
    BY <1>p, <2>1, <2>2
<1>6. c[1 .. 0] = <<>>
  <2>1. 1 .. 0 = {}
    OBVIOUS
  <2> QED
    BY <1>5, <1>p, <2>1
<1>7. \A k \in 1 .. n : c[1 .. (k - 1)] \in Seq(Byte) => c[1 .. k] = step[k][c[1 .. (k - 1)]]
  <2> SUFFICES ASSUME NEW k \in 1 .. n, c[1 .. (k - 1)] \in Seq(Byte)
               PROVE  c[1 .. k] = step[k][c[1 .. (k - 1)]]
    OBVIOUS
  <2>1. 1 .. k \in SUBSET (1 .. n) /\ 1 .. k # {} /\ Max(1 .. k) = k
        /\ (1 .. k) \ {k} = 1 .. (k - 1)
    BY MaxOfStretch, SMTT(30)
  <2> HIDE DEF place
  <2>a. 1 .. k \in SUBSET (DOMAIN place) /\ place[k] = k
    BY <1>p, <2>1
  <2>b. c[1 .. k] = NormalStep(t, place[Max(1 .. k)], c[(1 .. k) \ {Max(1 .. k)}])
    BY <1>5, <2>1, <2>a
  <2>2. c[1 .. k] = NormalStep(t, k, c[1 .. (k - 1)])
    BY <2>1, <2>a, <2>b
  <2> QED
    BY <1>3, <2>2
<1> DEFINE h == [k \in 0 .. n |-> c[1 .. k]]
<1>8. h[n] = c[1 .. n]
  BY <1>1
<1>9. Passes(h, n, Seq(Byte), <<>>, step)
  <2> HIDE DEF n
  <2> QED
    BY <1>1, <1>2, <1>6, <1>7, StretchesPass
<1> HIDE DEF h
<1> QED
  BY <1>5, <1>8, <1>9 DEF step

LEMMA NormalEmpty == Normal(<<>>) = <<>>
<1>1. <<>> \in Seq(Byte) /\ Len(<<>>) = 0
  OBVIOUS
<1>2. PICK h : Passes(h, 0, Seq(Byte), <<>>, NormalSteps(<<>>)) /\ Normal(<<>>) = h[0]
  BY <1>1, NormalIsFold
<1> QED
  BY <1>2 DEF Passes

\* One more byte is one more byte, except that a line feed takes the place of the CR before it.
LEMMA NormalAppend ==
    ASSUME NEW t \in Seq(Byte), NEW b \in Byte
    PROVE  /\ Normal(t) \in Seq(Byte)
           /\ Normal(Append(t, b)) = IF b = LF /\ EndsWith(t, CR)
                                     THEN Append(Front(Normal(t)), LF)
                                     ELSE Append(Normal(t), b)
           /\ t # <<>> => Normal(t) # <<>> /\ Last(Normal(t)) = Last(t)
<1> DEFINE n == Len(t)
           longer == Append(t, b)
<1>1. n \in Nat /\ longer \in Seq(Byte) /\ Len(longer) = n + 1 /\ longer[n + 1] = b
      /\ \A k \in 1 .. n : longer[k] = t[k]
  OBVIOUS
<1>2. PICK h : Passes(h, n, Seq(Byte), <<>>, NormalSteps(t)) /\ Normal(t) = h[n]
  BY NormalIsFold
<1> HIDE DEF longer
<1>3. PICK g : /\ Passes(g, n + 1, Seq(Byte), <<>>, NormalSteps(longer))
               /\ Normal(longer) = g[n + 1]
  BY <1>1, NormalIsFold
<1>4. /\ h \in [0 .. n -> Seq(Byte)] /\ h[0] = <<>>
      /\ \A k \in 1 .. n : h[k] = NormalStep(t, k, h[k - 1])
  <2>1. /\ h \in [0 .. n -> Seq(Byte)] /\ h[0] = <<>>
        /\ \A k \in 1 .. n : h[k] = NormalSteps(t)[k][h[k - 1]]
    BY <1>2 DEF Passes
  <2>2. \A k \in 1 .. n : k - 1 \in 0 .. n
    BY <1>1
  <2> QED
    BY <2>1, <2>2 DEF NormalSteps
<1>5. /\ g \in [0 .. (n + 1) -> Seq(Byte)] /\ g[0] = <<>>
      /\ \A k \in 1 .. (n + 1) : g[k] = NormalStep(longer, k, g[k - 1])
  <2>1. /\ g \in [0 .. (n + 1) -> Seq(Byte)] /\ g[0] = <<>>
        /\ \A k \in 1 .. (n + 1) : g[k] = NormalSteps(longer)[k][g[k - 1]]
    BY <1>3 DEF Passes
  <2>2. \A k \in 1 .. (n + 1) : k - 1 \in 0 .. (n + 1)
    BY <1>1
  <2>3. Len(longer) = n + 1
    BY <1>1
  <2> HIDE DEF n
  <2> QED
    BY <2>1, <2>2, <2>3 DEF NormalSteps
<1>6. Normal(longer) = Append(g[n], b)
  <2>1. n + 1 \in 1 .. (n + 1) /\ (n + 1) - 1 = n /\ ~(n + 1 < n + 1)
    BY <1>1
  <2>2. g[n + 1] = NormalStep(longer, n + 1, g[n])
    BY <1>5, <2>1
  <2> QED
    BY <1>1, <1>3, <2>1, <2>2 DEF NormalStep
<1>7. Normal(t) \in Seq(Byte)
  <2>1. n \in 0 .. n
    BY <1>1
  <2> QED
    BY <1>2, <1>4, <2>1
<1>8. CASE t = <<>>
  <2>1. n = 0 /\ g[n] = <<>> /\ Normal(t) = <<>>
    BY <1>2, <1>4, <1>5, <1>8
  <2>2. ~EndsWith(t, CR)
    BY <1>8 DEF EndsWith
  <2> QED
    BY <1>6, <1>7, <1>8, <2>1, <2>2 DEF longer
<1>9. CASE t # <<>>
  <2>1. n \in Nat \ {0} /\ n - 1 \in Nat /\ n \in 1 .. n /\ n \in 1 .. (n + 1) /\ n < n + 1
        /\ n - 1 \in 0 .. n
    <3>1. n \in Nat \ {0}
      BY <1>9, EmptySeq
    <3> HIDE DEF n
    <3> QED
      BY <3>1
  <2>2. g[n - 1] = h[n - 1]
    <3>1. ASSUME NEW k \in 1 .. (n - 1)
          PROVE  NormalSteps(t)[k] = NormalSteps(longer)[k]
      <4>1. k \in 1 .. n /\ k \in 1 .. (n + 1) /\ k + 1 \in 1 .. n /\ k < n /\ k < n + 1
        BY <2>1
      <4>2. longer[k] = t[k] /\ longer[k + 1] = t[k + 1] /\ Len(longer) = n + 1
        BY <1>1, <4>1
      <4>3. NormalSteps(t)[k] = [text \in Seq(Byte) |-> NormalStep(t, k, text)]
            /\ NormalSteps(longer)[k] = [text \in Seq(Byte) |-> NormalStep(longer, k, text)]
        BY <4>1, <4>2 DEF NormalSteps
      <4>4. \A text : NormalStep(t, k, text) = NormalStep(longer, k, text)
        BY <4>1, <4>2 DEF NormalStep
      <4> QED
        BY <4>3, <4>4
    <3>2. n - 1 <= n /\ n - 1 <= n + 1 /\ n + 1 \in Nat
      BY <2>1
    <3> HIDE DEF n
    <3> QED
      BY <1>2, <1>3, <2>1, <3>1, <3>2, PassesAgree
  <2>3. h[n - 1] \in Seq(Byte) /\ t[n] \in Byte
    BY <1>4, <2>1
  <2>4. h[n] = Append(h[n - 1], t[n])
    <3>1. h[n] = NormalStep(t, n, h[n - 1])
      BY <1>4, <2>1
    <3>2. ~(n < Len(t))
      BY <2>1
    <3> QED
      BY <3>1, <3>2 DEF NormalStep
  <2>5. g[n] = IF ~(t[n] = CR /\ b = LF) THEN Append(h[n - 1], t[n]) ELSE h[n - 1]
    <3>1. g[n] = NormalStep(longer, n, g[n - 1])
      BY <1>5, <2>1
    <3>2. longer[n] = t[n] /\ longer[n + 1] = b /\ n < Len(longer)
      BY <1>1, <2>1
    <3> QED
      BY <2>2, <3>1, <3>2 DEF NormalStep
  <2>6. EndsWith(t, CR) <=> t[n] = CR
    BY <1>9 DEF EndsWith, Last
  <2>7. Normal(t) # <<>> /\ Last(Normal(t)) = t[n] /\ Front(Normal(t)) = h[n - 1]
    <3>1. Normal(t) = Append(h[n - 1], t[n])
      BY <1>2, <2>4
    <3> QED
      BY <2>3, <3>1, FrontOfAppend
  <2>8. Last(t) = t[n]
    BY DEF Last
  <2>9. Normal(longer) = IF b = LF /\ EndsWith(t, CR)
                         THEN Append(Front(Normal(t)), LF) ELSE Append(Normal(t), b)
    <3>1. CASE b = LF /\ EndsWith(t, CR)
      BY <1>6, <2>5, <2>6, <2>7, <3>1
    <3>2. CASE ~(b = LF /\ EndsWith(t, CR))
      BY <1>2, <1>6, <2>4, <2>5, <2>6, <3>2
    <3> QED
      BY <3>1, <3>2
  <2> QED
    BY <1>7, <2>7, <2>8, <2>9 DEF longer
<1> QED
  BY <1>8, <1>9

Begun(pending) == [pending |-> pending, segment |-> <<>>, framed |-> <<>>]

PushSteps(bytes) == [i \in 1 .. Len(bytes) |-> [f \in Frame |-> PushByte(f, bytes[i])]]

LEMMA BegunIsFrame ==
    ASSUME NEW pending \in Seq(Byte), Len(pending) <= MaxLine
    PROVE  Begun(pending) \in Frame
BY DEF Begun, Frame

LEMMA ByteJoins ==
    ASSUME NEW f \in Frame, NEW b \in Byte, b # LF
    PROVE  /\ PushByte(f, b) \in Frame /\ PushByte(f, b).framed = f.framed
           /\ Unframed(PushByte(f, b)) = Append(Unframed(f), b)
<1>1. /\ f = [pending |-> f.pending, segment |-> f.segment, framed |-> f.framed]
      /\ f.pending \in Seq(Byte) /\ f.segment \in Seq(Byte) /\ f.framed \in Seq(Line)
      /\ Len(f.pending) <= MaxLine
  BY DEF Frame
<1>2. PushByte(f, b) =
        [pending |-> f.pending, segment |-> Append(f.segment, b), framed |-> f.framed]
  BY <1>1 DEF PushByte
<1>3. PushByte(f, b) \in Frame
  BY <1>1, <1>2 DEF Frame
<1>4. Unframed(PushByte(f, b)) = Append(Unframed(f), b)
  BY <1>1, <1>2, AppendAfter DEF Unframed
<1>5. PushByte(f, b).framed = f.framed
  BY <1>2
<1> QED
  BY <1>3, <1>4, <1>5

LEMMA PushByteIsFrame ==
    ASSUME NEW f \in Frame, NEW b \in Byte
    PROVE  PushByte(f, b) \in Frame
<1>1. CASE b = LF
  BY <1>1, EndLineShape DEF PushByte
<1>2. CASE b # LF
  BY <1>2, ByteJoins
<1> QED
  BY <1>1, <1>2

\* A chunk is framed byte after byte.
LEMMA PushIsFold ==
    ASSUME NEW pending \in Seq(Byte), Len(pending) <= MaxLine, NEW bytes \in Seq(Byte)
    PROVE  \E h : /\ Passes(h, Len(bytes), Frame, Begun(pending), PushSteps(bytes))
                /\ Push(pending, bytes) = ExtendBounded(h[Len(bytes)])
<1> DEFINE n == Len(bytes)
           step == PushSteps(bytes)
           base == Begun(pending)
           Raw(c) == c = [S \in SUBSET (1 .. n) |->
                            IF S = {} THEN base
                            ELSE PushByte(c[S \ {Max(S)}], bytes[Max(S)])]
<1>1. n \in Nat /\ DOMAIN bytes = 1 .. n /\ base \in Frame
  BY BegunIsFrame
<1>2. step \in [1 .. n -> [Frame -> Frame]]
  <2>1. \A i \in 1 .. n, f \in Frame : PushByte(f, bytes[i]) \in Frame
    BY PushByteIsFrame
  <2> QED
    BY <2>1 DEF PushSteps
<1>3. \A k \in 1 .. n, f \in Frame : step[k][f] = PushByte(f, bytes[k])
  BY DEF PushSteps
<1> HIDE DEF step, base
<1>4. \E c : Raw(c)
  <2>1. PICK c \in [SUBSET (1 .. n) -> Frame] : FoldsSets(c, n, base, step)
    <3> HIDE DEF n
    <3> QED
      BY <1>1, <1>2, FoldExists
  <2>2. ASSUME NEW S \in SUBSET (1 .. n), S # {}
        PROVE  step[Max(S)][c[S \ {Max(S)}]] = PushByte(c[S \ {Max(S)}], bytes[Max(S)])
    <3>1. Max(S) \in 1 .. n
      <4> HIDE DEF n
      <4> QED
        BY <1>1, <2>2, MaxOfSubset
    <3>2. c[S \ {Max(S)}] \in Frame
      OBVIOUS
    <3> QED
      BY <1>3, <3>1, <3>2
  <2>3. Raw(c)
    <3> HIDE DEF n
    <3> QED
      BY <2>1, <2>2 DEF FoldsSets
  <2> QED
    BY <2>3
<1>5. PICK c : Raw(c) /\ Push(pending, bytes) = ExtendBounded(c[1 .. n])
  <2>1. Raw(CHOOSE c : Raw(c))
    BY <1>4
  <2>2. Push(pending, bytes) = ExtendBounded((CHOOSE c : Raw(c))[1 .. n])
    BY <1>1 DEF Push, FoldLeft, MapThenFoldSet, base, Begun
  <2> QED
    BY <2>1, <2>2
<1>6. c[1 .. 0] = base
  <2>1. 1 .. 0 = {}
    OBVIOUS
  <2> QED
    BY <1>5, <2>1
<1>7. \A k \in 1 .. n : c[1 .. (k - 1)] \in Frame => c[1 .. k] = step[k][c[1 .. (k - 1)]]
  <2> SUFFICES ASSUME NEW k \in 1 .. n, c[1 .. (k - 1)] \in Frame
               PROVE  c[1 .. k] = step[k][c[1 .. (k - 1)]]
    OBVIOUS
  <2>1. 1 .. k \in SUBSET (1 .. n) /\ 1 .. k # {} /\ Max(1 .. k) = k
        /\ (1 .. k) \ {k} = 1 .. (k - 1)
    BY MaxOfStretch, SMTT(30)
  <2>2. c[1 .. k] = PushByte(c[1 .. (k - 1)], bytes[k])
    BY <1>5, <2>1
  <2> QED
    BY <1>3, <2>2
<1> DEFINE h == [k \in 0 .. n |-> c[1 .. k]]
<1>8. h[n] = c[1 .. n]
  BY <1>1
<1>9. Passes(h, n, Frame, base, step)
  <2> HIDE DEF n
  <2> QED
    BY <1>1, <1>2, <1>6, <1>7, StretchesPass
<1> HIDE DEF h
<1> QED
  BY <1>5, <1>8, <1>9 DEF step, base

LEMMA PushIsFrame ==
    ASSUME NEW pending \in Seq(Byte), Len(pending) <= MaxLine, NEW bytes \in Seq(Byte)
    PROVE  Push(pending, bytes) \in Frame
<1> DEFINE n == Len(bytes)
<1>1. PICK h : /\ Passes(h, n, Frame, Begun(pending), PushSteps(bytes))
               /\ Push(pending, bytes) = ExtendBounded(h[n])
  BY PushIsFold
<1>2. n \in 0 .. n
  OBVIOUS
<1> HIDE DEF n
<1>3. h[n] \in Frame
  BY <1>1, <1>2 DEF Passes
<1>4. h[n] \in [pending: Seq(Byte), segment: Seq(Byte), framed: Seq(Line)]
  BY <1>3 DEF Frame
<1> QED
  BY <1>1, <1>4, ExtendShape

\* Two stretches of the log say what they say one after the other.
LEMMA LogTextConcat ==
    ASSUME NEW ls \in Seq(Line), NEW ms \in Seq(Line)
    PROVE  LogText(ls \o ms) = LogText(ls) \o LogText(ms)
<1> DEFINE Good == {n \in Nat : \A more \in Seq(Line) :
                      Len(more) = n => LogText(ls \o more) = LogText(ls) \o LogText(more)}
<1>t. LogText(ls) \in Seq(Byte)
  BY LogTextIsText
<1>1. 0 \in Good
  <2> SUFFICES ASSUME NEW more \in Seq(Line), Len(more) = 0
               PROVE  LogText(ls \o more) = LogText(ls) \o LogText(more)
    OBVIOUS
  <2>1. more = <<>> /\ ls \o more = ls
    BY EmptySeq, ConcatEmptySeq
  <2> QED
    BY <1>t, <2>1, LogTextEmpty, ConcatEmptySeq
<1>2. ASSUME NEW n \in Nat, n \in Good
      PROVE  n + 1 \in Good
  <2> SUFFICES ASSUME NEW more \in Seq(Line), Len(more) = n + 1
               PROVE  LogText(ls \o more) = LogText(ls) \o LogText(more)
    OBVIOUS
  <2>1. PICK front \in Seq(Line), l \in Line : more = Append(front, l)
    <3>1. more # <<>>
      BY EmptySeq
    <3> QED
      BY <3>1, SequenceEmptyOrAppend
  <2>2. Len(front) = n /\ Len(front) \in Nat
    <3>1. Len(more) = Len(front) + 1 /\ Len(front) \in Nat
      BY <2>1, AppendProperties
    <3> QED
      BY <3>1
  <2>3. LogText(ls \o front) = LogText(ls) \o LogText(front)
    BY <1>2, <2>2
  <2>4. ls \o more = Append(ls \o front, l)
    BY <2>1, LineAfter, Zenon
  <2>5. ls \o front \in Seq(Line)
    OBVIOUS
  <2>6. LogText(ls \o more) = LogText(ls \o front) \o LineText(l)
    BY <2>4, <2>5, LogTextAppend
  <2>7. LogText(more) = LogText(front) \o LineText(l) /\ LogText(front) \in Seq(Byte)
        /\ LineText(l) \in Seq(Byte)
    BY <2>1, LogTextAppend
  <2>8. (LogText(ls) \o LogText(front)) \o LineText(l)
          = LogText(ls) \o (LogText(front) \o LineText(l))
    BY <1>t, <2>7, Associative, Zenon
  <2> QED
    BY <2>3, <2>6, <2>7, <2>8
<1> HIDE DEF Good
<1>3. Len(ms) \in Nat
  OBVIOUS
<1>4. Len(ms) \in Good
  BY <1>1, <1>2, <1>3, SetInduction
<1> QED
  BY <1>4 DEF Good

\* What is pending of a text is empty exactly at its line ends, and ends as the text does.
Ends(u, t) ==
    /\ u = <<>> <=> (t = <<>> \/ Last(t) = LF)
    /\ u # <<>> => Last(u) = Last(t)

\* The log before a chunk, the lines of a frame and what it holds back say the output so far.
FramedSoFar(before, f, t) ==
    /\ f \in Frame
    /\ before \o (LogText(f.framed) \o Unframed(f)) = Normal(t)
    /\ Ends(Unframed(f), t)

LEMMA PushByteSays ==
    ASSUME NEW before \in Seq(Byte), NEW f, NEW t \in Seq(Byte), NEW b \in Byte,
           FramedSoFar(before, f, t)
    PROVE  FramedSoFar(before, PushByte(f, b), Append(t, b))
<1> DEFINE u == Unframed(f)
           lt == LogText(f.framed)
           said == before \o lt
<1>1. f \in Frame /\ before \o (lt \o u) = Normal(t) /\ Ends(u, t)
  BY DEF FramedSoFar
<1>2. f.framed \in Seq(Line) /\ u \in Seq(Byte)
  BY <1>1 DEF Frame, Unframed
<1>3. lt \in Seq(Byte)
  BY <1>2, LogTextIsText
<1> HIDE DEF lt, u
<1>4. said \in Seq(Byte) /\ said \o u = Normal(t)
  <2>1. (before \o lt) \o u = before \o (lt \o u)
    BY <1>2, <1>3, Associative, Zenon
  <2>2. before \o lt \in Seq(Byte)
    BY <1>3
  <2> QED
    BY <1>1, <2>1, <2>2
<1>5. /\ Normal(Append(t, b)) = IF b = LF /\ EndsWith(t, CR)
                                THEN Append(Front(Normal(t)), LF)
                                ELSE Append(Normal(t), b)
      /\ Normal(t) \in Seq(Byte)
  BY NormalAppend
<1>6. Append(t, b) # <<>> /\ Last(Append(t, b)) = b
  BY FrontOfAppend
<1>7. CASE b # LF
  <2>1. /\ PushByte(f, b) \in Frame /\ PushByte(f, b).framed = f.framed
        /\ Unframed(PushByte(f, b)) = Append(u, b)
    BY <1>1, <1>7, ByteJoins DEF u
  <2>2. Append(u, b) # <<>> /\ Last(Append(u, b)) = b
    BY <1>2, FrontOfAppend
  <2>3. Ends(Append(u, b), Append(t, b))
    BY <1>6, <1>7, <2>2 DEF Ends
  <2>4. before \o (lt \o Append(u, b)) = Normal(Append(t, b))
    <3>1. Append(u, b) \in Seq(Byte)
      BY <1>2
    <3>2. before \o (lt \o Append(u, b)) = (before \o lt) \o Append(u, b)
      BY <1>3, <3>1, Associative, ZenonT(30)
    <3>3. said \o Append(u, b) = Append(said \o u, b)
      BY <1>2, <1>4, AppendAfter, Zenon
    <3> QED
      BY <1>4, <1>5, <1>7, <3>2, <3>3
  <2> QED
    BY <2>1, <2>3, <2>4 DEF FramedSoFar, lt
<1>8. CASE b = LF
  <2> DEFINE e == EndLine(f)
  <2>1. /\ e \in Frame /\ e.pending = <<>> /\ e.segment = <<>>
        /\ LogText(e.framed) = (lt \o DropCR(u)) \o <<LF>>
    BY <1>1, EndLineShape DEF lt, u
  <2>2. PushByte(f, b) = e
    BY <1>8 DEF PushByte
  <2> HIDE DEF e
  <2>3. Unframed(e) = <<>>
    BY <2>1 DEF Unframed
  <2>4. Ends(Unframed(e), Append(t, b))
    BY <1>6, <1>8, <2>3 DEF Ends
  <2>5. DropCR(u) \in Seq(Byte) /\ <<LF>> \in Seq(Byte)
    BY <1>2, <1>3, DropCRShape DEF Byte
  <2>6. before \o LogText(e.framed) = Append(said \o DropCR(u), LF)
    <3> DEFINE d == DropCR(u)
    <3> HIDE DEF d
    <3>1. d \in Seq(Byte) /\ <<LF>> \in Seq(Byte) /\ lt \o d \in Seq(Byte)
      BY <1>3, <2>5 DEF d
    <3>2. before \o ((lt \o d) \o <<LF>>) = (before \o (lt \o d)) \o <<LF>>
      BY <3>1, Associative, ZenonT(30)
    <3>3. before \o (lt \o d) = (before \o lt) \o d
      BY <1>3, <3>1, Associative, ZenonT(30)
    <3>4. said \o d \in Seq(Byte) /\ LF \in Byte
      BY <1>4, <3>1 DEF Byte
    <3>5. Append(said \o d, LF) = (said \o d) \o <<LF>>
      BY <3>4, AppendIsConcat
    <3>6. LogText(e.framed) = (lt \o d) \o <<LF>>
      BY <2>1 DEF d
    <3>7. before \o LogText(e.framed) = Append(said \o d, LF)
      BY <3>2, <3>3, <3>5, <3>6
    <3> QED
      BY <3>7 DEF d
  <2>7. Append(said \o DropCR(u), LF) = Normal(Append(t, b))
    <3>1. CASE EndsWith(t, CR)
      <4>1. t # <<>> /\ Last(t) = CR /\ Last(t) # LF
        BY <3>1, OutputConstants DEF EndsWith
      <4>2. u # <<>> /\ Last(u) = CR
        BY <1>1, <4>1 DEF Ends
      <4>3. DropCR(u) = Front(u)
        BY <4>2 DEF DropCR, EndsWith
      <4>4. Front(said \o u) = said \o Front(u)
        BY <1>2, <1>4, <4>2, FrontAndLast
      <4> QED
        BY <1>4, <1>5, <1>8, <3>1, <4>3, <4>4
    <3>2. CASE ~EndsWith(t, CR)
      <4>1. ~EndsWith(u, CR)
        <5> SUFFICES ASSUME u # <<>>, Last(u) = CR
                     PROVE  FALSE
          BY DEF EndsWith
        <5>1. t # <<>> /\ Last(t) = CR
          BY <1>1 DEF Ends
        <5> QED
          BY <3>2, <5>1 DEF EndsWith
      <4>2. DropCR(u) = u
        BY <4>1 DEF DropCR
      <4> QED
        BY <1>4, <1>5, <1>8, <3>2, <4>2
    <3> QED
      BY <3>1, <3>2
  <2>8. before \o (LogText(e.framed) \o <<>>) = Normal(Append(t, b))
    <3>1. LogText(e.framed) \in Seq(Byte)
      BY <1>3, <2>1, <2>5
    <3>2. LogText(e.framed) \o <<>> = LogText(e.framed)
      BY <3>1, ConcatEmptySeq
    <3> QED
      BY <2>6, <2>7, <3>2
  <2> QED
    BY <2>1, <2>2, <2>3, <2>4, <2>8 DEF FramedSoFar
<1> QED
  BY <1>7, <1>8

\* However the output is cut into chunks, the framer says what it says.
LEMMA PushSays ==
    ASSUME NEW before \in Seq(Byte), NEW pending \in Seq(Byte), Len(pending) <= MaxLine,
           NEW t \in Seq(Byte), NEW bytes \in Seq(Byte),
           before \o pending = Normal(t), Ends(pending, t)
    PROVE  /\ before \o (LogText(Push(pending, bytes).framed) \o Push(pending, bytes).pending)
                = Normal(t \o bytes)
           /\ Ends(Push(pending, bytes).pending, t \o bytes)
<1> DEFINE n == Len(bytes)
           upTo(k) == t \o SubSeq(bytes, 1, k)
<1>1. PICK h : /\ Passes(h, n, Frame, Begun(pending), PushSteps(bytes))
               /\ Push(pending, bytes) = ExtendBounded(h[n])
  BY PushIsFold
<1>2. n \in Nat /\ \A k \in 1 .. n : bytes[k] \in Byte
  OBVIOUS
<1> DEFINE Good == {k \in Nat : k <= n => FramedSoFar(before, h[k], upTo(k))}
<1>3. 0 \in Good
  <2>1. h[0] = Begun(pending) /\ Begun(pending) \in Frame
    BY <1>1, BegunIsFrame DEF Passes
  <2>2. SubSeq(bytes, 1, 0) = <<>>
    BY SubSeqEmpty
  <2>3. upTo(0) = t
    BY <2>2, ConcatEmptySeq
  <2>4. Unframed(Begun(pending)) = pending /\ LogText(Begun(pending).framed) = <<>>
    BY LogTextEmpty, ConcatEmptySeq DEF Unframed, Begun
  <2>5. before \o (<<>> \o pending) = Normal(t)
    BY ConcatEmptySeq
  <2> QED
    BY <2>1, <2>3, <2>4, <2>5 DEF FramedSoFar
<1>4. ASSUME NEW k \in Nat, k \in Good
      PROVE  k + 1 \in Good
  <2> SUFFICES ASSUME k + 1 <= n
               PROVE  FramedSoFar(before, h[k + 1], upTo(k + 1))
    OBVIOUS
  <2>1. FramedSoFar(before, h[k], upTo(k))
    <3>1. k <= n
      BY <1>2
    <3> QED
      BY <1>4, <3>1
  <2>2. k + 1 \in 1 .. n /\ (k + 1) - 1 = k /\ bytes[k + 1] \in Byte
    BY <1>2
  <2>3. h[k + 1] = PushByte(h[k], bytes[k + 1])
    <3>1. h[k + 1] = PushSteps(bytes)[k + 1][h[k]]
      BY <1>1, <2>2 DEF Passes
    <3>2. h[k] \in Frame
      BY <2>1 DEF FramedSoFar
    <3> QED
      BY <2>2, <3>1, <3>2 DEF PushSteps
  <2>4. SubSeq(bytes, 1, k) \in Seq(Byte)
        /\ SubSeq(bytes, 1, k + 1) = Append(SubSeq(bytes, 1, k), bytes[k + 1])
    <3>1. SubSeq(bytes, 1, k) \in Seq(Byte)
      <4>1. 1 \in Int /\ k \in Int /\ \A i \in 1 .. k : bytes[i] \in Byte
        BY <1>2
      <4> QED
        BY <4>1, SubSeqProperties
    <3>2. SubSeq(bytes, 1, k + 1) = SubSeq(bytes, 1, k) \o << bytes[k + 1] >>
      <4>1. 1 \in 1 .. Len(bytes) /\ k + 1 \in 1 .. Len(bytes)
        BY <1>2
      <4> QED
        BY <2>2, <4>1, SubSeqRecursiveSecond
    <3> QED
      BY <2>2, <3>1, <3>2, AppendIsConcat
  <2>5. upTo(k + 1) = Append(upTo(k), bytes[k + 1]) /\ upTo(k) \in Seq(Byte)
    <3> DEFINE part == SubSeq(bytes, 1, k)
    <3>1. part \in Seq(Byte) /\ upTo(k + 1) = t \o Append(part, bytes[k + 1])
          /\ upTo(k) = t \o part
      BY <2>4
    <3> HIDE DEF part, upTo
    <3>2. Append(t \o part, bytes[k + 1]) = t \o Append(part, bytes[k + 1])
      BY <2>2, <3>1, AppendAfter, Zenon
    <3>3. t \o part \in Seq(Byte)
      BY <3>1
    <3> QED
      BY <3>1, <3>2, <3>3
  <2> HIDE DEF upTo
  <2> QED
    BY <2>1, <2>2, <2>3, <2>5, PushByteSays
<1> HIDE DEF Good
<1>5. n \in Good
  BY <1>2, <1>3, <1>4, SetInduction
<1>6. FramedSoFar(before, h[n], t \o bytes)
  <2>1. n <= n
    BY <1>2
  <2>2. SubSeq(bytes, 1, n) = bytes
    BY SubSeqFull
  <2> QED
    BY <1>5, <2>1, <2>2 DEF Good
<1>7. h[n] \in [pending: Seq(Byte), segment: Seq(Byte), framed: Seq(Line)]
  BY <1>6 DEF FramedSoFar, Frame
<1> DEFINE p == Push(pending, bytes)
           u == Unframed(h[n])
<1>8. /\ LogText(p.framed) \o p.pending = LogText(h[n].framed) \o u
      /\ p.pending = <<>> <=> u = <<>>
      /\ u # <<>> => Last(p.pending) = Last(u)
  BY <1>1, <1>7, ExtendShape
<1> HIDE DEF p, u
<1>9. before \o (LogText(h[n].framed) \o u) = Normal(t \o bytes) /\ Ends(u, t \o bytes)
  BY <1>6 DEF FramedSoFar, u
<1>10. Ends(p.pending, t \o bytes)
  BY <1>8, <1>9 DEF Ends
<1> QED
  BY <1>8, <1>9, <1>10 DEF p

\* The last line of a stream: what is pending becomes a line of its own.
LEMMA LastLineSays ==
    ASSUME NEW ls \in Seq(Line), NEW p \in Seq(Byte), Len(p) <= MaxLine, NEW t \in Seq(Byte),
           LogText(ls) \o p = Normal(t), Ends(p, t)
    PROVE  LogText(ls \o (IF p = <<>> THEN <<>> ELSE << FramedLine(p, FALSE) >>))
             = Closed(Normal(t))
<1>1. LogText(ls) \in Seq(Byte)
  BY LogTextIsText
<1>2. t # <<>> => Normal(t) # <<>> /\ Last(Normal(t)) = Last(t)
  <2>1. LF \in Byte
    BY DEF Byte
  <2> QED
    BY <2>1, NormalAppend
<1>3. CASE p = <<>>
  <2>1. LogText(ls) = Normal(t)
    BY <1>1, <1>3, ConcatEmptySeq
  <2>2. Normal(t) = <<>> \/ Last(Normal(t)) = LF
    BY <1>2, <1>3, NormalEmpty DEF Ends
  <2>3. ls \o <<>> = ls
    BY ConcatEmptySeq
  <2> QED
    BY <1>3, <2>1, <2>2, <2>3 DEF Closed
<1>4. CASE p # <<>>
  <2> DEFINE l == FramedLine(p, FALSE)
  <2>1. l \in Line /\ LineText(l) = p \o <<LF>>
    BY DEF FramedLine, Line, LineText
  <2> HIDE DEF l
  <2>2. ls \o <<l>> = Append(ls, l)
    BY <2>1, AppendIsConcat
  <2>3. LogText(Append(ls, l)) = LogText(ls) \o (p \o <<LF>>)
    BY <2>1, LogTextAppend
  <2>4. <<LF>> \in Seq(Byte) /\ LF \in Byte
    BY DEF Byte
  <2>5. (LogText(ls) \o p) \o <<LF>> = LogText(ls) \o (p \o <<LF>>)
    BY <1>1, <2>4, Associative, Zenon
  <2>6. t # <<>> /\ Last(t) # LF
    BY <1>4 DEF Ends
  <2>7. Normal(t) # <<>> /\ Last(Normal(t)) # LF
    BY <1>2, <2>6
  <2>8. Normal(t) \in Seq(Byte)
    BY <2>4, NormalAppend
  <2>9. Append(Normal(t), LF) = Normal(t) \o <<LF>>
    BY <2>4, <2>8, AppendIsConcat
  <2>10. Closed(Normal(t)) = Append(Normal(t), LF)
    BY <2>7 DEF Closed
  <2>11. LogText(ls \o <<l>>) = Closed(Normal(t))
    BY <2>2, <2>3, <2>5, <2>9, <2>10
  <2> QED
    BY <1>4, <2>11 DEF l
<1> QED
  BY <1>3, <1>4

-----------------------------------------------------------------------------
(* What every state satisfies: from the chunks to the log *)

Framing ==
    /\ framer \in [StreamSource -> Seq(Byte)]
    /\ lines \in [StreamSource -> Seq(Line)]
    /\ \A s \in StreamSource : Len(framer[s]) <= MaxLine

LEMMA LastLineIsLines ==
    ASSUME Framing, NEW s \in StreamSource
    PROVE  LastLine(s) \in Seq(Line) /\ lines[s] \o LastLine(s) \in Seq(Line)
<1>1. framer[s] \in Seq(Byte) /\ Len(framer[s]) <= MaxLine /\ lines[s] \in Seq(Line)
  BY DEF Framing
<1>2. FramedLine(framer[s], FALSE) \in Line
  BY <1>1 DEF FramedLine, Line
<1>3. LastLine(s) \in Seq(Line)
  <2> DEFINE l == FramedLine(framer[s], FALSE)
  <2>1. LastLine(s) = IF framer[s] = <<>> THEN <<>> ELSE <<l>>
    BY DEF LastLine
  <2> HIDE DEF l
  <2>2. l \in Line
    BY <1>2 DEF l
  <2>3. <<>> \in Seq(Line) /\ <<l>> \in Seq(Line)
    BY <2>2
  <2> QED
    BY <2>1, <2>3
<1> QED
  BY <1>1, <1>3

LEMMA FreshFraming ==
    /\ Fresh \in [StreamSource -> Seq(Byte)] /\ Fresh \in [StreamSource -> Seq(Line)]
    /\ \A s \in StreamSource : Fresh[s] = <<>> /\ Len(Fresh[s]) <= MaxLine
<1>1. <<>> \in Seq(Byte) /\ <<>> \in Seq(Line) /\ Len(<<>>) = 0 /\ 0 <= MaxLine
  BY OutputConstants
<1> QED
  BY <1>1 DEF Fresh

\* What TakeChunk does to the stream it takes from.
LEMMA ChunkIsFramed ==
    ASSUME Passing, Framing, NEW s \in StreamSource, TakeChunk(s)
    PROVE  /\ Head(channel).bytes \in Seq(Byte)
           /\ Push(framer[s], Head(channel).bytes) \in Frame
           /\ framer' = [framer EXCEPT ![s] = Push(framer[s], Head(channel).bytes).pending]
           /\ taken' = [taken EXCEPT ![s] = @ \o Head(channel).bytes]
           /\ s \notin done /\ at = "loop" /\ done' = done
           /\ \/ /\ at' = "loop"
                 /\ lines' = [lines EXCEPT ![s] = @ \o Push(framer[s], Head(channel).bytes).framed]
              \/ at' = "failed" /\ lines' = lines
<1> DEFINE bytes == Head(channel).bytes
           frame == Push(framer[s], bytes)
<1>1. channel \in Seq(Event) /\ channel # <<>> /\ at = "loop" /\ Head(channel).source = s
  BY DEF TakeChunk, Received, Passing, Typed
<1>2. Head(channel) \in Event /\ 1 \in DOMAIN channel /\ Head(channel) = channel[1]
  BY <1>1
<1>3. bytes \in Seq(Byte)
  BY <1>2 DEF Event
<1>4. frame \in Frame
  BY <1>3, PushIsFrame DEF Framing
<1>5. s \notin done
  BY <1>1, <1>2 DEF Passing, DoneIsOver
<1>6. /\ framer' = [framer EXCEPT ![s] = frame.pending]
      /\ taken' = [taken EXCEPT ![s] = @ \o bytes] /\ done' = done
      /\ \/ at' = "loop" /\ lines' = [lines EXCEPT ![s] = @ \o frame.framed]
         \/ at' = "failed" /\ lines' = lines
  BY <1>1 DEF TakeChunk, Return
<1> QED
  BY <1>1, <1>3, <1>4, <1>5, <1>6

LEMMA FramingInductive ==
    ASSUME Passing, Framing, [Next]_vars
    PROVE  Framing'
<1>1. CASE UNCHANGED <<framer, lines>>
  BY <1>1 DEF Framing
<1>2. ASSUME NEW s \in StreamSource, TakeChunk(s)
      PROVE  Framing'
  <2> DEFINE frame == Push(framer[s], Head(channel).bytes)
  <2>1. /\ frame \in Frame /\ framer' = [framer EXCEPT ![s] = frame.pending]
        /\ \/ lines' = [lines EXCEPT ![s] = @ \o frame.framed]
           \/ lines' = lines
    BY <1>2, ChunkIsFramed
  <2> HIDE DEF frame
  <2>2. frame.pending \in Seq(Byte) /\ Len(frame.pending) <= MaxLine /\ frame.framed \in Seq(Line)
    BY <2>1 DEF Frame
  <2>3. framer' \in [StreamSource -> Seq(Byte)]
        /\ \A z \in StreamSource : Len(framer'[z]) <= MaxLine
    BY <2>1, <2>2 DEF Framing
  <2>4. lines' \in [StreamSource -> Seq(Line)]
    <3>1. lines[s] \o frame.framed \in Seq(Line)
      BY <2>2 DEF Framing
    <3> QED
      BY <2>1, <3>1 DEF Framing
  <2> QED
    BY <2>3, <2>4 DEF Framing
<1>3. ASSUME NEW s \in StreamSource, TakeDone(s)
      PROVE  Framing'
  <2>1. /\ framer' = [framer EXCEPT ![s] = <<>>]
        /\ \/ lines' = [lines EXCEPT ![s] = @ \o LastLine(s)]
           \/ lines' = lines
    BY <1>3 DEF TakeDone
  <2>2. <<>> \in Seq(Byte) /\ Len(<<>>) = 0 /\ 0 <= MaxLine
    BY OutputConstants
  <2>3. framer' \in [StreamSource -> Seq(Byte)]
        /\ \A z \in StreamSource : Len(framer'[z]) <= MaxLine
    BY <2>1, <2>2 DEF Framing
  <2>4. lines' \in [StreamSource -> Seq(Line)]
    BY <2>1, LastLineIsLines DEF Framing
  <2> QED
    BY <2>3, <2>4 DEF Framing
<1>4. CASE DrainDeadline
  <2>1. \/ /\ lines' = [s \in StreamSource |-> lines[s] \o LastLine(s)]
           /\ framer' = Fresh
        \/ UNCHANGED <<lines, framer>>
    BY <1>4 DEF DrainDeadline
  <2>2. CASE lines' = [s \in StreamSource |-> lines[s] \o LastLine(s)] /\ framer' = Fresh
    BY <2>2, FreshFraming, LastLineIsLines DEF Framing
  <2> QED
    BY <1>1, <2>1, <2>2
<1>5. CASE NextAttempt
  BY <1>5, FreshFraming DEF NextAttempt, Framing
<1>6. ASSUME NEW s \in StreamSource,
             (\E b \in Byte : ChildWrites(s, b)) \/ PipeCloses(s) \/ PumpChunk(s) \/ PumpEnds(s)
               \/ PumpFails(s) \/ TakeError(s)
      PROVE  UNCHANGED <<framer, lines>>
  BY <1>6 DEF ChildWrites, PipeCloses, PumpChunk, PumpEnds, PumpFails, TakeError, loop
<1>7. CASE ChildExits \/ ObserveExit \/ Waited \/ Stop \/ WaitFails \/ UNCHANGED vars
  BY <1>1, <1>7 DEF ChildExits, ObserveExit, Waited, Stop, WaitFails, vars, loop
<1> QED
  BY <1>1, <1>2, <1>3, <1>4, <1>5, <1>6, <1>7 DEF Next, Over

\* The log and the framer say what was taken: of a stream that is over, closed by a line end.
ClosedSays(s) == framer[s] = <<>> /\ LogText(lines[s]) = Closed(Normal(taken[s]))
OpenSays(s) == LogText(lines[s]) \o framer[s] = Normal(taken[s]) /\ Ends(framer[s], taken[s])

Logged ==
    /\ at # "failed" =>
         \A s \in StreamSource : IF at = "ok" \/ s \in done THEN ClosedSays(s) ELSE OpenSays(s)
    /\ at = "waiting" => done = StreamSource

LEMMA StartIsLogged ==
    ASSUME at = "loop", done = {}, framer = Fresh, lines = Fresh, taken = Fresh
    PROVE  Logged
<1>1. Ends(<<>>, <<>>) /\ <<>> \o <<>> = <<>>
  BY DEF Ends
<1>2. \A s \in StreamSource : OpenSays(s)
  BY <1>1, LogTextEmpty, NormalEmpty DEF OpenSays, Fresh
<1> QED
  BY <1>2 DEF Logged

LEMMA TakeChunkLogs ==
    ASSUME Passing, Framing, Logged, NEW s \in StreamSource, TakeChunk(s)
    PROVE  Logged'
<1> DEFINE bytes == Head(channel).bytes
           frame == Push(framer[s], bytes)
<1>1. /\ bytes \in Seq(Byte) /\ frame \in Frame
      /\ framer' = [framer EXCEPT ![s] = frame.pending]
      /\ taken' = [taken EXCEPT ![s] = @ \o bytes]
      /\ s \notin done /\ at = "loop" /\ done' = done
      /\ \/ at' = "loop" /\ lines' = [lines EXCEPT ![s] = @ \o frame.framed]
         \/ at' = "failed" /\ lines' = lines
  BY ChunkIsFramed
<1>2. taken[s] \in Seq(Byte) /\ taken \in [StreamSource -> Seq(Byte)]
  BY DEF Passing, Typed
<1>3. /\ framer[s] \in Seq(Byte) /\ Len(framer[s]) <= MaxLine /\ lines[s] \in Seq(Line)
      /\ framer \in [StreamSource -> Seq(Byte)] /\ lines \in [StreamSource -> Seq(Line)]
  BY DEF Framing
<1>4. CASE at' = "failed"
  BY <1>4 DEF Logged
<1>5. CASE at' = "loop" /\ lines' = [lines EXCEPT ![s] = @ \o frame.framed]
  <2>1. LogText(lines[s]) \o framer[s] = Normal(taken[s]) /\ Ends(framer[s], taken[s])
    BY <1>1 DEF Logged, OpenSays
  <2>2. LogText(lines[s]) \in Seq(Byte)
    BY <1>3, LogTextIsText
  <2>3. /\ LogText(lines[s]) \o (LogText(frame.framed) \o frame.pending)
             = Normal(taken[s] \o bytes)
        /\ Ends(frame.pending, taken[s] \o bytes)
    <3> HIDE DEF bytes
    <3> QED
      BY <1>1, <1>2, <1>3, <2>1, <2>2, PushSays
  <2> HIDE DEF frame, bytes
  <2>4. frame.framed \in Seq(Line) /\ frame.pending \in Seq(Byte)
    BY <1>1 DEF Frame
  <2>5. LogText(lines[s] \o frame.framed) \o frame.pending
          = LogText(lines[s]) \o (LogText(frame.framed) \o frame.pending)
    <3>1. LogText(lines[s] \o frame.framed) = LogText(lines[s]) \o LogText(frame.framed)
      BY <1>3, <2>4, LogTextConcat
    <3>2. LogText(frame.framed) \in Seq(Byte)
      BY <2>4, LogTextIsText
    <3>3. (LogText(lines[s]) \o LogText(frame.framed)) \o frame.pending
            = LogText(lines[s]) \o (LogText(frame.framed) \o frame.pending)
      BY <2>2, <2>4, <3>2, Associative, Zenon
    <3> QED
      BY <3>1, <3>3
  <2>6. /\ framer'[s] = frame.pending /\ taken'[s] = taken[s] \o bytes
        /\ lines'[s] = lines[s] \o frame.framed
        /\ \A z \in StreamSource \ {s} :
             framer'[z] = framer[z] /\ taken'[z] = taken[z] /\ lines'[z] = lines[z]
    BY <1>1, <1>2, <1>3, <1>5
  <2>7. OpenSays(s)'
    BY <2>3, <2>5, <2>6 DEF OpenSays
  <2>8. ASSUME NEW z \in StreamSource
        PROVE  IF z \in done' THEN ClosedSays(z)' ELSE OpenSays(z)'
    <3>1. CASE z = s
      BY <1>1, <2>7, <3>1
    <3>2. CASE z # s
      <4>1. IF z \in done THEN ClosedSays(z) ELSE OpenSays(z)
        BY <1>1 DEF Logged
      <4>2. ClosedSays(z) => ClosedSays(z)'
        BY <2>6, <3>2 DEF ClosedSays
      <4>3. OpenSays(z) => OpenSays(z)'
        BY <2>6, <3>2 DEF OpenSays
      <4> QED
        BY <1>1, <4>1, <4>2, <4>3
    <3> QED
      BY <3>1, <3>2
  <2> QED
    BY <1>5, <2>8 DEF Logged
<1> QED
  BY <1>1, <1>4, <1>5

\* A stream that ends leaves with what was pending as its last line.
LEMMA LastLineCloses ==
    ASSUME Passing, Framing, NEW s \in StreamSource, OpenSays(s)
    PROVE  LogText(lines[s] \o LastLine(s)) = Closed(Normal(taken[s]))
<1>1. taken[s] \in Seq(Byte) /\ framer[s] \in Seq(Byte) /\ Len(framer[s]) <= MaxLine
      /\ lines[s] \in Seq(Line)
  BY DEF Passing, Typed, Framing
<1>2. LogText(lines[s]) \o framer[s] = Normal(taken[s]) /\ Ends(framer[s], taken[s])
  BY DEF OpenSays
<1> QED
  BY <1>1, <1>2, LastLineSays DEF LastLine

LEMMA TakeDoneLogs ==
    ASSUME Passing, Framing, Logged, NEW s \in StreamSource, TakeDone(s)
    PROVE  Logged'
<1>1. /\ at = "loop" /\ channel # <<>> /\ Head(channel).source = s
      /\ framer' = [framer EXCEPT ![s] = <<>>] /\ taken' = taken
      /\ \/ /\ lines' = [lines EXCEPT ![s] = @ \o LastLine(s)]
            /\ done' = done \cup {s}
            /\ at' = IF done' # StreamSource THEN "loop"
                     ELSE IF observed THEN "ok" ELSE "waiting"
         \/ at' = "failed"
  BY DEF TakeDone, Received, Return
<1>2. s \notin done
  <2>1. channel \in Seq(Event)
    BY DEF Passing, Typed
  <2>2. 1 \in DOMAIN channel /\ Head(channel) = channel[1]
    BY <1>1, <2>1
  <2> QED
    BY <1>1, <2>2 DEF Passing, DoneIsOver
<1>3. CASE at' = "failed"
  BY <1>3 DEF Logged
<1>4. CASE /\ lines' = [lines EXCEPT ![s] = @ \o LastLine(s)]
           /\ done' = done \cup {s}
           /\ at' = IF done' # StreamSource THEN "loop"
                    ELSE IF observed THEN "ok" ELSE "waiting"
  <2>1. /\ framer'[s] = <<>> /\ lines'[s] = lines[s] \o LastLine(s) /\ taken' = taken
        /\ \A z \in StreamSource \ {s} : framer'[z] = framer[z] /\ lines'[z] = lines[z]
    BY <1>1, <1>4 DEF Framing
  <2>2. OpenSays(s)
    BY <1>1, <1>2 DEF Logged
  <2>3. ClosedSays(s)'
    BY <2>1, <2>2, LastLineCloses DEF ClosedSays
  <2>4. ASSUME NEW z \in StreamSource
        PROVE  IF at' = "ok" \/ z \in done' THEN ClosedSays(z)' ELSE OpenSays(z)'
    <3>1. CASE z = s
      BY <1>4, <2>3, <3>1
    <3>2. CASE z # s
      <4>1. IF z \in done THEN ClosedSays(z) ELSE OpenSays(z)
        BY <1>1 DEF Logged
      <4>2. ClosedSays(z) => ClosedSays(z)'
        BY <2>1, <3>2 DEF ClosedSays
      <4>3. OpenSays(z) => OpenSays(z)'
        BY <2>1, <3>2 DEF OpenSays
      <4>4. z \in done' <=> z \in done
        BY <1>4, <3>2
      <4>5. at' = "ok" => z \in done'
        BY <1>4
      <4> QED
        BY <4>1, <4>2, <4>3, <4>4, <4>5
    <3> QED
      BY <3>1, <3>2
  <2>5. at' = "waiting" => done' = StreamSource
    BY <1>4
  <2> QED
    BY <2>4, <2>5 DEF Logged
<1> QED
  BY <1>1, <1>3, <1>4

LEMMA DrainDeadlineLogs ==
    ASSUME Passing, Framing, Logged, DrainDeadline
    PROVE  Logged'
<1>1. /\ at = "loop" /\ taken' = taken /\ done' = done
      /\ \/ /\ lines' = [s \in StreamSource |-> lines[s] \o LastLine(s)]
            /\ framer' = Fresh /\ at' = "ok"
         \/ at' = "failed"
  BY DEF DrainDeadline, Return
<1>2. CASE at' = "failed"
  BY <1>2 DEF Logged
<1>3. CASE /\ lines' = [s \in StreamSource |-> lines[s] \o LastLine(s)]
           /\ framer' = Fresh /\ at' = "ok"
  <2>1. ASSUME NEW s \in StreamSource
        PROVE  ClosedSays(s)'
    <3>1. framer'[s] = <<>> /\ lines'[s] = lines[s] \o LastLine(s)
      BY <1>3 DEF Fresh
    <3>2. CASE s \in done
      <4>1. ClosedSays(s)
        BY <1>1, <3>2 DEF Logged
      <4>2. LastLine(s) = <<>> /\ lines[s] \in Seq(Line)
        BY <4>1 DEF ClosedSays, LastLine, Framing
      <4>3. lines[s] \o <<>> = lines[s]
        BY <4>2, ConcatEmptySeq
      <4> QED
        BY <1>1, <3>1, <4>1, <4>2, <4>3 DEF ClosedSays
    <3>3. CASE s \notin done
      <4>1. OpenSays(s)
        BY <1>1, <3>3 DEF Logged
      <4> QED
        BY <1>1, <3>1, <4>1, LastLineCloses DEF ClosedSays
    <3> QED
      BY <3>2, <3>3
  <2> QED
    BY <1>3, <2>1 DEF Logged
<1> QED
  BY <1>1, <1>2, <1>3

\* Without a further attempt after a lost race, every step keeps it.
LEMMA LoggedInductive ==
    ASSUME ~KeepAlive, Passing, Framing, Logged, [Next]_vars
    PROVE  Logged'
<1>1. ASSUME UNCHANGED <<framer, lines, taken, done>>,
             at' = at \/ at' = "failed" \/ (at = "loop" /\ at' = "stopped")
      PROVE  Logged'
  <2>1. \A s \in StreamSource :
          (ClosedSays(s) => ClosedSays(s)') /\ (OpenSays(s) => OpenSays(s)')
    BY <1>1 DEF ClosedSays, OpenSays
  <2> QED
    BY <1>1, <2>1 DEF Logged
<1>2. ASSUME NEW s \in StreamSource, TakeChunk(s)
      PROVE  Logged'
  BY <1>2, TakeChunkLogs
<1>3. ASSUME NEW s \in StreamSource, TakeDone(s)
      PROVE  Logged'
  BY <1>3, TakeDoneLogs
<1>4. CASE DrainDeadline
  BY <1>4, DrainDeadlineLogs
<1>5. CASE NextAttempt
  <2>1. /\ at = "ok" /\ at' = "loop" /\ done' = {} /\ lines' = Fresh /\ taken' = Fresh
        /\ framer' = framer
    BY <1>5 DEF NextAttempt
  <2>2. framer = Fresh
    <3>1. \A s \in StreamSource : framer[s] = <<>>
      BY <2>1 DEF Logged, ClosedSays
    <3> QED
      BY <3>1 DEF Fresh, Framing
  <2>3. Ends(<<>>, <<>>) /\ <<>> \o <<>> = <<>>
    BY DEF Ends
  <2>4. \A s \in StreamSource : OpenSays(s)'
    BY <2>1, <2>2, <2>3, LogTextEmpty, NormalEmpty DEF OpenSays, Fresh
  <2> QED
    BY <2>1, <2>4 DEF Logged
<1>6. CASE Waited
  <2>1. at = "waiting" /\ at' = "ok" /\ UNCHANGED <<framer, lines, taken, done>>
    BY <1>6 DEF Waited
  <2>2. \A s \in StreamSource : ClosedSays(s)
    BY <2>1 DEF Logged
  <2>3. \A s \in StreamSource : ClosedSays(s)'
    BY <2>1, <2>2 DEF ClosedSays
  <2> QED
    BY <2>1, <2>3 DEF Logged
<1>7. ASSUME NEW s \in StreamSource,
             (\E b \in Byte : ChildWrites(s, b)) \/ PipeCloses(s) \/ PumpChunk(s) \/ PumpEnds(s)
               \/ PumpFails(s)
      PROVE  Logged'
  BY <1>1, <1>7 DEF ChildWrites, PipeCloses, PumpChunk, PumpEnds, PumpFails, loop
<1>8. ASSUME NEW s \in StreamSource, TakeError(s)
      PROVE  Logged'
  BY <1>1, <1>8 DEF TakeError, Return
<1>9. CASE ChildExits \/ ObserveExit \/ UNCHANGED vars
  BY <1>1, <1>9 DEF ChildExits, ObserveExit, vars, loop
<1>10. CASE Stop \/ WaitFails
  BY <1>1, <1>10 DEF Stop, WaitFails, Return
<1> QED
  BY <1>2, <1>3, <1>4, <1>5, <1>6, <1>7, <1>8, <1>9, <1>10 DEF Next, Over

LEMMA FramingAlways == Spec => []Framing
<1>1. Init => Framing
  BY FreshFraming DEF Init, Framing
<1>2. Passing /\ Framing /\ [Next]_vars => Framing'
  BY FramingInductive
<1> QED
  BY <1>1, <1>2, PassingAlways, PTL DEF Spec

\* LogIsOutput, for every length of a line and every cut of the streams into chunks: the log
\* says what the child wrote, as far as it was taken, with no line end added, lost or moved.
\* It needs a worker that makes no attempt after a lost race, as the run does: otherwise the
\* framers may still hold half a line of the attempt before.
THEOREM LogIsTheOutput == ~KeepAlive => (Spec => []LogIsOutput)
<1> SUFFICES ASSUME ~KeepAlive
             PROVE  Spec => []LogIsOutput
  OBVIOUS
<1>1. Init => Logged
  BY StartIsLogged DEF Init
<1>2. Passing /\ Framing /\ Logged /\ [Next]_vars => Logged'
  BY LoggedInductive
<1>3. Logged => LogIsOutput
  BY DEF Logged, LogIsOutput, ClosedSays, OpenSays
<1> QED
  BY <1>1, <1>2, <1>3, PassingAlways, FramingAlways, PTL DEF Spec

-----------------------------------------------------------------------------
(* What every state satisfies: the limits *)

Sized ==
    /\ Len(channel) <= Capacity
    /\ \A i \in DOMAIN channel : Len(channel[i].bytes) <= ChunkBytes
    /\ \A s \in StreamSource : Len(scanner[s].suffix) <= Overlap
    /\ Output <= MaxOutput
    /\ \A s \in StreamSource :
         Len(taken[s]) <= Len(written[s]) /\ Len(pipe[s]) <= Len(written[s])

LEMMA BetweenLengths ==
    ASSUME NEW all, NEW first, NEW second, NEW third, Between(all, first, second, third)
    PROVE  Len(first) <= Len(all)
<1>1. first \in Seq(Byte) /\ second \in Seq(Byte) /\ third \in Seq(Byte)
      /\ all = (first \o second) \o third
  BY DEF Between
<1>2. first \o second \in Seq(Byte) /\ Len(first \o second) = Len(first) + Len(second)
  BY <1>1
<1>3. Len(all) = Len(first) + Len(second) + Len(third)
  BY <1>1, <1>2
<1>4. Len(first) \in Nat /\ Len(second) \in Nat /\ Len(third) \in Nat
  BY <1>1
<1> QED
  BY <1>3, <1>4

\* Steps that send nothing and write nothing, but may empty the channel and the pipes.
LEMMA SameSizes ==
    ASSUME Passing, Sized, UNCHANGED <<scanner, taken, written>>,
           UNCHANGED <<channel, pipe>> \/ (channel' = <<>> /\ pipe' = Fresh)
    PROVE  Sized'
<1>1. Output' = Output
  BY DEF Output
<1>2. CASE UNCHANGED <<channel, pipe>>
  BY <1>1, <1>2 DEF Sized
<1>3. CASE channel' = <<>> /\ pipe' = Fresh
  <2>1. Len(<<>>) = 0 /\ DOMAIN <<>> = {} /\ 0 <= Capacity
    BY OutputConstants
  <2>2. \A s \in StreamSource : Len(pipe'[s]) <= Len(written[s])
    BY <1>3, <2>1 DEF Passing, Typed, Fresh
  <2>3. Len(channel') <= Capacity
    BY <1>3, <2>1
  <2>4. \A i \in DOMAIN channel' : Len(channel'[i].bytes) <= ChunkBytes
    BY <1>3, <2>1
  <2> QED
    BY <1>1, <2>2, <2>3, <2>4 DEF Sized
<1> QED
  BY <1>2, <1>3

LEMMA StartIsSized ==
    ASSUME channel = <<>>, pipe = Fresh, written = Fresh, taken = Fresh, scanner = Unscanned
    PROVE  Sized
<1>1. Len(<<>>) = 0 /\ DOMAIN <<>> = {} /\ 0 <= Capacity /\ 0 <= MaxOutput /\ 0 <= Overlap
  BY OutputConstants, OverlapBounds
<1>2. Output = 0
  BY <1>1 DEF Output, Fresh, StreamSource
<1>3. \A s \in StreamSource : Len(scanner[s].suffix) <= Overlap
  BY <1>1 DEF Unscanned
<1>4. \A s \in StreamSource : Len(taken[s]) <= Len(written[s]) /\ Len(pipe[s]) <= Len(written[s])
  BY <1>1 DEF Fresh
<1> QED
  BY <1>1, <1>2, <1>3, <1>4 DEF Sized

LEMMA ChildWritesSized ==
    ASSUME Passing, Sized, NEW s \in StreamSource, NEW b \in Byte, ChildWrites(s, b)
    PROVE  Sized'
<1>1. /\ Output < MaxOutput
      /\ pipe' = [pipe EXCEPT ![s] = Append(@, b)]
      /\ written' = [written EXCEPT ![s] = Append(@, b)]
      /\ channel' = channel /\ scanner' = scanner /\ taken' = taken
  BY DEF ChildWrites, loop
<1>2. /\ written \in [StreamSource -> Seq(Byte)] /\ pipe \in [StreamSource -> Seq(Byte)]
      /\ taken \in [StreamSource -> Seq(Byte)]
  BY DEF Passing, Typed
<1>a. \A z \in StreamSource :
        Len(written[z]) \in Nat /\ Len(pipe[z]) \in Nat /\ Len(taken[z]) \in Nat
  BY <1>2
<1>b. /\ written'[s] = Append(written[s], b) /\ pipe'[s] = Append(pipe[s], b)
      /\ \A z \in StreamSource \ {s} : written'[z] = written[z] /\ pipe'[z] = pipe[z]
  BY <1>1, <1>2
<1>c. Len(written'[s]) = Len(written[s]) + 1 /\ Len(pipe'[s]) = Len(pipe[s]) + 1
  BY <1>2, <1>b
<1>3. Output' <= MaxOutput
  <2> DEFINE out == Len(written["stdout"])
             err == Len(written["stderr"])
             out2 == Len(written'["stdout"])
             err2 == Len(written'["stderr"])
  <2>1. out \in Nat /\ err \in Nat
    BY <1>a DEF StreamSource
  <2>2. \/ out2 = out + 1 /\ err2 = err
        \/ out2 = out /\ err2 = err + 1
    <3>1. CASE s = "stdout"
      BY <1>b, <1>c, <3>1 DEF StreamSource
    <3>2. CASE s = "stderr"
      BY <1>b, <1>c, <3>2 DEF StreamSource
    <3> QED
      BY <3>1, <3>2 DEF StreamSource
  <2>3. out + err < MaxOutput /\ Output' = out2 + err2
    BY <1>1 DEF Output
  <2> HIDE DEF out, err, out2, err2
  <2> QED
    BY <2>1, <2>2, <2>3, OutputConstants
<1>4. \A z \in StreamSource :
        Len(taken'[z]) <= Len(written'[z]) /\ Len(pipe'[z]) <= Len(written'[z])
  BY <1>1, <1>a, <1>b, <1>c DEF Sized
<1> QED
  BY <1>1, <1>3, <1>4 DEF Sized

LEMMA SendSized ==
    ASSUME Passing, Sized, NEW s, NEW kind, NEW bytes \in Seq(Byte), Len(bytes) <= ChunkBytes,
           Send(kind, s, bytes), UNCHANGED <<written, taken, scanner>>,
           \A z \in StreamSource : Len(pipe'[z]) <= Len(pipe[z]) /\ Len(pipe'[z]) \in Nat
    PROVE  Sized'
<1> DEFINE event == [kind |-> kind, source |-> s, bytes |-> bytes]
<1>1. channel \in Seq(Event) /\ Len(channel) < Capacity /\ channel' = Append(channel, event)
      /\ event.bytes = bytes
  BY DEF Passing, Typed, Send
<1> HIDE DEF event
<1>2. /\ Len(channel') = Len(channel) + 1 /\ DOMAIN channel' = 1 .. (Len(channel) + 1)
      /\ channel'[Len(channel) + 1] = event /\ DOMAIN channel = 1 .. Len(channel)
      /\ \A i \in 1 .. Len(channel) : channel'[i] = channel[i]
      /\ Len(channel) \in Nat /\ Capacity \in Nat
  BY <1>1, OutputConstants
<1>3. \A i \in DOMAIN channel' : Len(channel'[i].bytes) <= ChunkBytes
  <2> SUFFICES ASSUME NEW i \in 1 .. (Len(channel) + 1)
               PROVE  Len(channel'[i].bytes) <= ChunkBytes
    BY <1>2
  <2>1. CASE i = Len(channel) + 1
    BY <1>1, <1>2, <2>1
  <2>2. CASE i # Len(channel) + 1
    <3>1. i \in 1 .. Len(channel)
      BY <1>2, <2>2
    <3> QED
      BY <1>2, <3>1 DEF Sized
  <2> QED
    BY <2>1, <2>2
<1>4. \A z \in StreamSource : Len(pipe'[z]) <= Len(written'[z])
  BY DEF Sized, Passing, Typed
<1>5. Len(channel') <= Capacity
  BY <1>1, <1>2
<1>6. Output' <= MaxOutput
  BY DEF Sized, Output
<1> QED
  BY <1>3, <1>4, <1>5, <1>6 DEF Sized

LEMMA PumpSized ==
    ASSUME Passing, Sized, NEW s \in StreamSource, PumpChunk(s) \/ PumpEnds(s) \/ PumpFails(s)
    PROVE  Sized'
<1>1. CASE PumpChunk(s)
  <2> DEFINE n == Min({Len(pipe[s]), ChunkBytes})
             bytes == SubSeq(pipe[s], 1, n)
             rest == SubSeq(pipe[s], n + 1, Len(pipe[s]))
  <2>1. /\ pipe[s] # <<>> /\ Send("chunk", s, bytes)
        /\ pipe' = [pipe EXCEPT ![s] = rest]
        /\ UNCHANGED <<written, taken, scanner>>
    BY <1>1 DEF PumpChunk, loop
  <2>2. pipe[s] \in Seq(Byte) /\ pipe \in [StreamSource -> Seq(Byte)]
        /\ \A z \in StreamSource : Len(pipe[z]) \in Nat
    BY DEF Passing, Typed
  <2>3. n \in 1 .. Len(pipe[s]) /\ n <= ChunkBytes
    BY <2>1, <2>2, ChunkSize
  <2> HIDE DEF n
  <2>4. \A k \in 1 .. Len(pipe[s]) : pipe[s][k] \in Byte
    BY <2>2
  <2>5. bytes \in Seq(Byte) /\ Len(bytes) = n
    <3>1. 1 \in Int /\ n \in Int /\ \A k \in 1 .. n : pipe[s][k] \in Byte
      BY <2>2, <2>3, <2>4
    <3>2. bytes \in Seq(Byte) /\ Len(bytes) = IF 1 <= n THEN n - 1 + 1 ELSE 0
      BY <3>1, SubSeqProperties
    <3> QED
      BY <2>3, <3>2
  <2>6. Len(rest) = Len(pipe[s]) - n
    <3>1. n + 1 \in Int /\ Len(pipe[s]) \in Int
          /\ \A k \in n + 1 .. Len(pipe[s]) : pipe[s][k] \in Byte
      BY <2>2, <2>3, <2>4
    <3>2. Len(rest) = IF n + 1 <= Len(pipe[s]) THEN Len(pipe[s]) - (n + 1) + 1 ELSE 0
      BY <3>1, SubSeqProperties
    <3> QED
      BY <2>2, <2>3, <3>2
  <2> HIDE DEF bytes, rest
  <2>7. \A z \in StreamSource : Len(pipe'[z]) <= Len(pipe[z]) /\ Len(pipe'[z]) \in Nat
    BY <2>1, <2>2, <2>3, <2>6
  <2> QED
    BY <2>1, <2>3, <2>5, <2>7, SendSized
<1>2. CASE PumpEnds(s) \/ PumpFails(s)
  <2>1. <<>> \in Seq(Byte) /\ Len(<<>>) = 0 /\ 0 <= ChunkBytes
        /\ \A z \in StreamSource : Len(pipe[z]) <= Len(pipe[z]) /\ Len(pipe[z]) \in Nat
    BY OutputConstants DEF Passing, Typed
  <2>2. /\ Send("done", s, <<>>) \/ Send("error", s, <<>>)
        /\ pipe' = pipe /\ UNCHANGED <<written, taken, scanner>>
    BY <1>2 DEF PumpEnds, PumpFails, loop
  <2>3. Len(<<>>) <= ChunkBytes
        /\ \A z \in StreamSource : Len(pipe'[z]) <= Len(pipe[z]) /\ Len(pipe'[z]) \in Nat
    BY <2>1, <2>2
  <2> QED
    BY <2>1, <2>2, <2>3, SendSized
<1> QED
  BY <1>1, <1>2

\* What run_child takes leaves the channel, or the channel goes with the attempt.
LEMMA TakingSized ==
    ASSUME Passing, Sized, channel # <<>>,
           \/ channel' = Tail(channel) /\ UNCHANGED child
           \/ \E outcome \in {"ok", "stopped", "failed"} : Return(outcome)
    PROVE  /\ Len(channel') <= Capacity
           /\ \A i \in DOMAIN channel' : Len(channel'[i].bytes) <= ChunkBytes
           /\ Output' <= MaxOutput /\ written' = written
           /\ \A s \in StreamSource : Len(pipe'[s]) <= Len(written[s])
<1>1. CASE channel' = Tail(channel) /\ UNCHANGED child
  <2>1. channel \in Seq(Event) /\ written' = written /\ pipe' = pipe
    BY <1>1 DEF Passing, Typed, child
  <2>2. Len(channel) \in Nat \ {0} /\ Len(channel') = Len(channel) - 1
    BY <1>1, <2>1
  <2>3. \A i \in DOMAIN channel' : i + 1 \in DOMAIN channel /\ channel'[i] = channel[i + 1]
    BY <1>1, TailPasses
  <2>4. Len(channel') <= Capacity
    BY <2>2, OutputConstants DEF Sized
  <2> QED
    BY <2>1, <2>3, <2>4 DEF Sized, Output
<1>2. CASE \E outcome \in {"ok", "stopped", "failed"} : Return(outcome)
  <2>1. channel' = <<>> /\ pipe' = Fresh /\ written' = written
    BY <1>2 DEF Return
  <2>2. Len(<<>>) = 0 /\ DOMAIN <<>> = {} /\ 0 <= Capacity
    BY OutputConstants
  <2>3. \A s \in StreamSource : Len(pipe'[s]) <= Len(written[s])
    BY <2>1, <2>2 DEF Passing, Typed, Fresh
  <2>4. Output' <= MaxOutput
    BY <2>1 DEF Sized, Output
  <2>5. Len(channel') <= Capacity
    BY <2>1, <2>2
  <2>6. \A i \in DOMAIN channel' : Len(channel'[i].bytes) <= ChunkBytes
    BY <2>1, <2>2
  <2> QED
    BY <2>1, <2>3, <2>4, <2>5, <2>6
<1> QED
  BY <1>1, <1>2

LEMMA TakeChunkSized ==
    ASSUME Passing, Sized, NEW s \in StreamSource, TakeChunk(s)
    PROVE  Sized'
<1> DEFINE bytes == Head(channel).bytes
<1>1. /\ at = "loop" /\ channel # <<>> /\ Head(channel).source = s
      /\ taken' = [taken EXCEPT ![s] = @ \o bytes]
      /\ scanner' = [scanner EXCEPT ![s] = Scan(@, bytes)]
      /\ \/ channel' = Tail(channel) /\ UNCHANGED child
         \/ Return("failed")
  BY DEF TakeChunk, Received
<1>2. channel \in Seq(Event) /\ bytes \in Seq(Byte)
  <2>1. channel \in Seq(Event)
    BY DEF Passing, Typed
  <2>2. Head(channel) \in Event
    BY <1>1, <2>1
  <2> QED
    BY <2>1, <2>2 DEF Event
<1>3. /\ Len(channel') <= Capacity
      /\ \A i \in DOMAIN channel' : Len(channel'[i].bytes) <= ChunkBytes
      /\ Output' <= MaxOutput /\ written' = written
      /\ \A z \in StreamSource : Len(pipe'[z]) <= Len(written[z])
  BY <1>1, TakingSized
<1>4. taken \in [StreamSource -> Seq(Byte)] /\ taken[s] \in Seq(Byte)
      /\ scanner \in [StreamSource -> [suffix: Seq(Byte), found: BOOLEAN]]
  BY DEF Passing, Typed
<1>5. Len(taken[s] \o bytes) <= Len(written[s])
  <2> DEFINE rest == QueuedIn(Tail(channel), s)
  <2>1. Between(written[s], taken[s], QueuedIn(channel, s), pipe[s])
    BY <1>1 DEF Passing, Conserved
  <2>2. QueuedIn(channel, s) = bytes \o rest /\ rest \in Seq(Byte)
    <3>1. QueuedIn(channel, s) = Share(Head(channel), s) \o rest /\ rest \in Seq(Byte)
      BY <1>1, <1>2, QueuedInTail
    <3> QED
      BY <1>1, <3>1 DEF Share
  <2> HIDE DEF rest, bytes
  <2>3. Between(written[s], taken[s] \o bytes, rest, pipe[s])
    BY <1>2, <2>1, <2>2, MoveOut
  <2> DEFINE now == taken[s] \o bytes
  <2>4. Between(written[s], now, rest, pipe[s])
    BY <2>3
  <2> HIDE DEF now
  <2>5. Len(now) <= Len(written[s])
    BY <2>4, BetweenLengths
  <2> QED
    BY <2>5 DEF now
<1>6. Len(Scan(scanner[s], bytes).suffix) <= Overlap
  <2>1. CASE scanner[s].found
    BY <2>1 DEF Scan, Sized
  <2>2. CASE ~scanner[s].found
    <3> DEFINE window == scanner[s].suffix \o bytes
    <3>1. Scan(scanner[s], bytes).suffix = Suffix(window)
      BY <2>2 DEF Scan
    <3>2. window \in Seq(Byte)
      BY <1>2, <1>4
    <3> HIDE DEF window
    <3>3. Len(Suffix(window)) = IF Len(window) > Overlap THEN Overlap ELSE Len(window)
      BY <3>2, SuffixShape
    <3> QED
      BY <3>1, <3>2, <3>3, OverlapBounds
  <2> QED
    BY <2>1, <2>2
<1> HIDE DEF bytes
<1>7. \A z \in StreamSource : Len(taken'[z]) <= Len(written'[z])
  BY <1>1, <1>3, <1>4, <1>5 DEF Sized
<1>8. \A z \in StreamSource : Len(scanner'[z].suffix) <= Overlap
  BY <1>1, <1>4, <1>6 DEF Sized
<1> QED
  BY <1>3, <1>7, <1>8 DEF Sized

LEMMA TakeEndSized ==
    ASSUME Passing, Sized, NEW s \in StreamSource, TakeDone(s) \/ TakeError(s)
    PROVE  Sized'
<1>1. /\ channel # <<>> /\ UNCHANGED <<taken, scanner>>
      /\ \/ channel' = Tail(channel) /\ UNCHANGED child
         \/ Return("failed")
  BY DEF TakeDone, TakeError, Received
<1>2. /\ Len(channel') <= Capacity
      /\ \A i \in DOMAIN channel' : Len(channel'[i].bytes) <= ChunkBytes
      /\ Output' <= MaxOutput /\ written' = written
      /\ \A z \in StreamSource : Len(pipe'[z]) <= Len(written[z])
  BY <1>1, TakingSized
<1> QED
  BY <1>1, <1>2 DEF Sized

LEMMA SizedInductive ==
    ASSUME Passing, Sized, [Next]_vars
    PROVE  Sized'
<1>1. ASSUME NEW s \in StreamSource, NEW b \in Byte, ChildWrites(s, b)
      PROVE  Sized'
  BY <1>1, ChildWritesSized
<1>2. ASSUME NEW s \in StreamSource, PumpChunk(s) \/ PumpEnds(s) \/ PumpFails(s)
      PROVE  Sized'
  BY <1>2, PumpSized
<1>3. ASSUME NEW s \in StreamSource, TakeChunk(s)
      PROVE  Sized'
  BY <1>3, TakeChunkSized
<1>4. ASSUME NEW s \in StreamSource, TakeDone(s) \/ TakeError(s)
      PROVE  Sized'
  BY <1>4, TakeEndSized
<1>5. CASE NextAttempt
  <2>1. /\ channel' = <<>> /\ pipe' = Fresh /\ written' = Fresh /\ taken' = Fresh
        /\ scanner' = Unscanned
    BY <1>5 DEF NextAttempt
  <2>2. Len(<<>>) = 0 /\ DOMAIN <<>> = {} /\ 0 <= Capacity /\ 0 <= MaxOutput /\ 0 <= Overlap
    BY OutputConstants, OverlapBounds
  <2>3. Output' = 0
    BY <2>1, <2>2 DEF Output, Fresh, StreamSource
  <2>4. \A s \in StreamSource : Len(scanner'[s].suffix) <= Overlap
    BY <2>1, <2>2 DEF Unscanned
  <2>5. \A s \in StreamSource :
          Len(taken'[s]) <= Len(written'[s]) /\ Len(pipe'[s]) <= Len(written'[s])
    BY <2>1, <2>2 DEF Fresh
  <2> QED
    BY <2>1, <2>2, <2>3, <2>4, <2>5 DEF Sized
<1>6. ASSUME NEW s \in StreamSource, PipeCloses(s)
      PROVE  Sized'
  BY <1>6, SameSizes DEF PipeCloses, loop
<1>7. CASE ChildExits \/ ObserveExit \/ Waited \/ UNCHANGED vars
  BY <1>7, SameSizes DEF ChildExits, ObserveExit, Waited, vars, loop, child
<1>8. CASE DrainDeadline \/ Stop \/ WaitFails
  BY <1>8, SameSizes DEF DrainDeadline, Stop, WaitFails, Return
<1> QED
  BY <1>1, <1>2, <1>3, <1>4, <1>5, <1>6, <1>7, <1>8 DEF Next, Over

LEMMA BoundedWords ==
    ASSUME NEW t \in Seq(Byte), NEW n \in Nat, Len(t) <= n
    PROVE  t \in BoundedSeq(Byte, n)
<1>1. Len(t) \in 0 .. n /\ t \in [1 .. Len(t) -> Byte]
  OBVIOUS
<1> QED
  BY <1>1, Zenon DEF BoundedSeq, SeqOf

\* TypeOK, for every capacity, length of a line, of a chunk and of a marker: the channel, the
\* chunks, the lines, the pending half lines and what the scanners keep stay within the limits
\* the code names, at every point of every attempt.
THEOREM TypeCorrect == Spec => []TypeOK
<1>1. Init => Sized
  BY StartIsSized DEF Init
<1>2. Passing /\ Sized /\ [Next]_vars => Sized'
  BY SizedInductive
<1>3. Passing /\ Framing /\ Sized => TypeOK
  <2> SUFFICES ASSUME Passing, Framing, Sized
               PROVE  TypeOK
    OBVIOUS
  <2>1. {MaxLine, ChunkBytes, MaxOutput, Overlap} \subseteq Nat
    BY OutputConstants, OverlapBounds
  <2>2. channel \in Seq(Event)
    BY DEF Passing, Typed
  <2>3. ASSUME NEW i \in DOMAIN channel
        PROVE  channel[i] \in [kind: {"chunk", "done", "error"}, source: StreamSource,
                               bytes: BoundedSeq(Byte, ChunkBytes)]
    <3>1. channel[i] \in Event /\ Len(channel[i].bytes) <= ChunkBytes
      BY <2>2 DEF Sized
    <3>2. channel[i].bytes \in BoundedSeq(Byte, ChunkBytes)
      BY <2>1, <3>1, BoundedWords DEF Event
    <3> QED
      BY <3>1, <3>2 DEF Event
  <2>4. scanner \in [StreamSource -> [suffix: BoundedSeq(Byte, Overlap), found: BOOLEAN]]
    <3>1. scanner \in [StreamSource -> [suffix: Seq(Byte), found: BOOLEAN]]
      BY DEF Passing, Typed
    <3>2. \A s \in StreamSource : scanner[s].suffix \in BoundedSeq(Byte, Overlap)
      BY <2>1, <3>1, BoundedWords DEF Sized
    <3> QED
      BY <3>1, <3>2
  <2>5. framer \in [StreamSource -> BoundedSeq(Byte, MaxLine)]
    <3>1. \A s \in StreamSource : framer[s] \in BoundedSeq(Byte, MaxLine)
      BY <2>1, BoundedWords DEF Framing
    <3> QED
      BY <3>1 DEF Framing
  <2>6. ASSUME NEW s \in StreamSource, NEW i \in DOMAIN lines[s]
        PROVE  /\ lines[s][i].bytes \in BoundedSeq(Byte, MaxLine)
               /\ lines[s][i].continuation => Len(lines[s][i].bytes) = MaxLine
    <3>1. lines[s] \in Seq(Line)
      BY DEF Framing
    <3>2. lines[s][i] \in Line
      BY <3>1
    <3>3. lines[s][i].bytes \in Seq(Byte) /\ Len(lines[s][i].bytes) <= MaxLine
          /\ (lines[s][i].continuation => Len(lines[s][i].bytes) = MaxLine)
      BY <3>2 DEF Line
    <3> QED
      BY <2>1, <3>3, BoundedWords
  <2>7. {pipe, written, taken} \subseteq [StreamSource -> BoundedSeq(Byte, MaxOutput)]
    <3>1. pipe \in [StreamSource -> Seq(Byte)] /\ written \in [StreamSource -> Seq(Byte)]
          /\ taken \in [StreamSource -> Seq(Byte)]
      BY DEF Passing, Typed
    <3>2. \A s \in StreamSource : Len(written[s]) <= MaxOutput
      BY <2>1, <3>1 DEF Sized, Output, StreamSource
    <3>3. \A s \in StreamSource : Len(taken[s]) <= MaxOutput /\ Len(pipe[s]) <= MaxOutput
      BY <2>1, <3>1, <3>2 DEF Sized
    <3>4. \A s \in StreamSource :
            /\ pipe[s] \in BoundedSeq(Byte, MaxOutput) /\ written[s] \in BoundedSeq(Byte, MaxOutput)
            /\ taken[s] \in BoundedSeq(Byte, MaxOutput)
      BY <2>1, <3>1, <3>2, <3>3, BoundedWords
    <3> QED
      BY <3>1, <3>4
  <2> QED
    BY <2>3, <2>4, <2>5, <2>6, <2>7 DEF TypeOK, Passing, Typed, Sized
<1> QED
  BY <1>1, <1>2, <1>3, PassingAlways, FramingAlways, PTL DEF Spec

-----------------------------------------------------------------------------
(* Sequences of sequences, one after the other *)

FlatSteps(seqs, E) == [i \in 1 .. Len(seqs) |-> [t \in Seq(E) |-> t \o seqs[i]]]

LEMMA FlatIsFold ==
    ASSUME NEW E, NEW seqs \in Seq(Seq(E))
    PROVE  \E h : Passes(h, Len(seqs), Seq(E), <<>>, FlatSteps(seqs, E))
                    /\ FlattenSeq(seqs) = h[Len(seqs)]
<1> DEFINE n == Len(seqs)
           step == FlatSteps(seqs, E)
           Raw(c) == c = [i \in 1 .. n |-> IF i = 1 THEN seqs[i] ELSE c[i - 1] \o seqs[i]]
<1>1. n \in Nat /\ <<>> \in Seq(E) /\ \A i \in 1 .. n : seqs[i] \in Seq(E)
  OBVIOUS
<1>2. step \in [1 .. n -> [Seq(E) -> Seq(E)]]
  <2> SUFFICES ASSUME NEW i \in 1 .. n, NEW t \in Seq(E)
               PROVE  t \o seqs[i] \in Seq(E)
    BY DEF FlatSteps
  <2> QED
    BY <1>1
<1>3. \A k \in 1 .. n, t \in Seq(E) : step[k][t] = t \o seqs[k]
  BY DEF FlatSteps
<1>4. CASE n = 0
  <2> DEFINE h == [k \in 0 .. 0 |-> <<>>]
  <2>1. FlattenSeq(seqs) = h[0]
    <3>1. FlattenSeq(seqs) = seqs /\ seqs = <<>>
      BY <1>4, EmptySeq DEF FlattenSeq
    <3> QED
      BY <3>1
  <2>2. Passes(h, 0, Seq(E), <<>>, step)
    <3> HIDE DEF step
    <3> QED
      BY <1>1 DEF Passes
  <2> HIDE DEF h, step
  <2>3. Passes(h, Len(seqs), Seq(E), <<>>, step) /\ FlattenSeq(seqs) = h[Len(seqs)]
    BY <1>4, <2>1, <2>2
  <2> QED
    BY <2>3 DEF step
<1>5. CASE n # 0
  <2>1. \E c : Raw(c)
    <3>1. PICK g \in [SUBSET (1 .. n) -> Seq(E)] : FoldsSets(g, n, <<>>, step)
      <4> HIDE DEF n, step
      <4> QED
        BY <1>1, <1>2, FoldExists
    <3> DEFINE c == [i \in 1 .. n |-> g[1 .. i]]
    <3>2. ASSUME NEW i \in 1 .. n
          PROVE  g[1 .. i] = g[1 .. (i - 1)] \o seqs[i]
      <4>1. 1 .. i \in SUBSET (1 .. n) /\ 1 .. (i - 1) \in SUBSET (1 .. n)
        OBVIOUS
      <4>0. i \in Nat \ {0}
        OBVIOUS
      <4>2. 1 .. i # {} /\ Max(1 .. i) = i /\ (1 .. i) \ {i} = 1 .. (i - 1)
        BY <4>0, MaxOfStretch
      <4>3. g[1 .. (i - 1)] \in Seq(E)
        BY <3>1, <4>1
      <4>4. g[1 .. i] = step[i][g[1 .. (i - 1)]]
        BY <3>1, <4>1, <4>2 DEF FoldsSets
      <4> HIDE DEF step
      <4> QED
        BY <1>3, <4>3, <4>4
    <3>3. g[1 .. 0] = <<>>
      <4>1. 1 .. 0 = {} /\ {} \in SUBSET (1 .. n)
        OBVIOUS
      <4> QED
        BY <3>1, <4>1 DEF FoldsSets
    <3>4. ASSUME NEW i \in 1 .. n
          PROVE  c[i] = IF i = 1 THEN seqs[i] ELSE c[i - 1] \o seqs[i]
      <4>1. CASE i = 1
        <5>0. 1 \in 1 .. n /\ 1 - 1 = 0
          BY <4>1
        <5>1. c[1] = <<>> \o seqs[1]
          BY <3>2, <3>3, <5>0
        <5>2. seqs[1] \in Seq(E)
          BY <1>1, <4>1
        <5> QED
          BY <4>1, <5>1, <5>2, ConcatEmptySeq
      <4>2. CASE i # 1
        <5>1. i - 1 \in 1 .. n
          BY <4>2
        <5> QED
          BY <3>2, <4>2, <5>1
      <4> QED
        BY <4>1, <4>2
    <3>5. Raw(c)
      <4>1. c = [i \in 1 .. n |-> c[i]]
        OBVIOUS
      <4> HIDE DEF c, n
      <4> QED
        BY <3>4, <4>1
    <3> QED
      BY <3>5
  <2>2. PICK c : Raw(c) /\ FlattenSeq(seqs) = c[n]
    <3>1. Raw(CHOOSE c : Raw(c))
      BY <2>1
    <3>2. FlattenSeq(seqs) = (CHOOSE c : Raw(c))[n]
      BY <1>5 DEF FlattenSeq
    <3> QED
      BY <3>1, <3>2
  <2> DEFINE h == [k \in 0 .. n |-> IF k = 0 THEN <<>> ELSE c[k]]
  <2>3. DOMAIN h = 0 .. n /\ h = [k \in 0 .. n |-> h[k]] /\ h[0] = <<>> /\ h[n] = c[n]
    BY <1>1, <1>5
  <2>4. ASSUME NEW k \in 1 .. n, h[k - 1] \in Seq(E)
        PROVE  h[k] = step[k][h[k - 1]]
    <3>1. c[k] = IF k = 1 THEN seqs[k] ELSE c[k - 1] \o seqs[k]
      BY <2>2
    <3>2. h[k] = h[k - 1] \o seqs[k]
      <4>1. CASE k = 1
        <5>1. h[k] = seqs[k] /\ h[k - 1] = <<>>
          BY <3>1, <4>1
        <5>2. seqs[k] \in Seq(E)
          BY <1>1
        <5> QED
          BY <5>1, <5>2, ConcatEmptySeq
      <4>2. CASE k # 1
        <5>1. k - 1 \in 1 .. n /\ k # 0 /\ k - 1 # 0 /\ k \in 0 .. n /\ k - 1 \in 0 .. n
          BY <4>2
        <5>2. h[k] = c[k] /\ h[k - 1] = c[k - 1]
          <6> HIDE DEF n
          <6> QED
            BY <5>1
        <5> HIDE DEF h
        <5> QED
          BY <3>1, <4>2, <5>2
      <4> QED
        BY <4>1, <4>2
    <3> HIDE DEF step, h
    <3> QED
      BY <1>3, <2>4, <3>2
  <2> HIDE DEF h, step, n
  <2>5. FoldsUpTo(h, n, Seq(E), <<>>, step)
    BY <2>3, <2>4 DEF FoldsUpTo
  <2>6. h \in [0 .. n -> Seq(E)]
    BY <1>1, <1>2, <2>5, FoldSteps
  <2>7. ASSUME NEW k \in 1 .. n
        PROVE  h[k] = step[k][h[k - 1]]
    <3>1. k - 1 \in 0 .. n
      BY <1>1
    <3> QED
      BY <2>4, <2>6, <3>1
  <2>8. Passes(h, n, Seq(E), <<>>, step) /\ FlattenSeq(seqs) = h[n]
    BY <2>2, <2>3, <2>6, <2>7 DEF Passes
  <2> QED
    BY <2>8 DEF step, n
<1> QED
  BY <1>4, <1>5

LEMMA FlatEmpty == FlattenSeq(<<>>) = <<>>
BY DEF FlattenSeq

LEMMA FlatAppend ==
    ASSUME NEW E, NEW seqs \in Seq(Seq(E)), NEW s \in Seq(E)
    PROVE  /\ FlattenSeq(seqs) \in Seq(E)
           /\ FlattenSeq(Append(seqs, s)) = FlattenSeq(seqs) \o s
<1> DEFINE n == Len(seqs)
           longer == Append(seqs, s)
<1>1. n \in Nat /\ longer \in Seq(Seq(E)) /\ Len(longer) = n + 1 /\ longer[n + 1] = s
      /\ \A k \in 1 .. n : longer[k] = seqs[k]
  OBVIOUS
<1>2. PICK h : Passes(h, n, Seq(E), <<>>, FlatSteps(seqs, E)) /\ FlattenSeq(seqs) = h[n]
  BY FlatIsFold
<1> HIDE DEF longer
<1>3. PICK g : Passes(g, n + 1, Seq(E), <<>>, FlatSteps(longer, E)) /\ FlattenSeq(longer) = g[n + 1]
  BY <1>1, FlatIsFold
<1>4. \A k \in 1 .. n : FlatSteps(seqs, E)[k] = FlatSteps(longer, E)[k]
  <2> SUFFICES ASSUME NEW k \in 1 .. n
               PROVE  FlatSteps(seqs, E)[k] = FlatSteps(longer, E)[k]
    OBVIOUS
  <2>1. k \in 1 .. (n + 1) /\ longer[k] = seqs[k]
    BY <1>1
  <2>2. FlatSteps(seqs, E)[k] = [t \in Seq(E) |-> t \o seqs[k]]
        /\ FlatSteps(longer, E)[k] = [t \in Seq(E) |-> t \o longer[k]]
    BY <1>1, <2>1 DEF FlatSteps
  <2> QED
    BY <2>1, <2>2
<1>5. g[n] = h[n]
  <2>1. n + 1 \in Nat /\ n <= n /\ n <= n + 1
    BY <1>1
  <2> HIDE DEF n
  <2> QED
    BY <1>1, <1>2, <1>3, <1>4, <2>1, PassesAgree
<1>6. h[n] \in Seq(E)
  BY <1>1, <1>2, SMTT(30) DEF Passes
<1>7. g[n + 1] = g[n] \o s
  <2>1. n + 1 \in 1 .. (n + 1) /\ (n + 1) - 1 = n
    BY <1>1
  <2>2. g[n + 1] = FlatSteps(longer, E)[n + 1][g[n]]
    BY <1>3, <2>1 DEF Passes
  <2> QED
    BY <1>1, <1>5, <1>6, <2>1, <2>2 DEF FlatSteps
<1> QED
  BY <1>2, <1>3, <1>5, <1>6, <1>7 DEF longer

-----------------------------------------------------------------------------
(* The ends of a sequence *)

LEMMA LeastNumber ==
    ASSUME NEW S \in SUBSET Nat, S # {}
    PROVE  \E m \in S : \A k \in S : m <= k
<1> DEFINE Above == {n \in Nat : \A k \in S : n <= k}
<1>1. PICK top \in S : TRUE
  OBVIOUS
<1>2. top + 1 \notin Above /\ top + 1 \in Nat
  BY <1>1
<1>3. 0 \in Above
  OBVIOUS
<1>4. PICK n \in Nat : n \in Above /\ n + 1 \notin Above
  <2> HIDE DEF Above
  <2> QED
    BY <1>2, <1>3, SetInduction
<1>5. PICK m \in S : m < n + 1
  BY <1>4
<1>6. m = n /\ \A k \in S : n <= k
  BY <1>4, <1>5
<1> QED
  BY <1>6

\* What is cut off a sequence in front, and what stays.
LEMMA SuffixIsEnd ==
    ASSUME NEW E, NEW t \in Seq(E), NEW r \in Suffixes(t)
    PROVE  r \in Seq(E) /\ \E p \in Seq(E) : t = p \o r
<1>1. CASE r = <<>>
  <2>1. t = t \o <<>> /\ <<>> \in Seq(E)
    BY ConcatEmptySeq
  <2> QED
    BY <1>1, <2>1
<1>2. CASE r # <<>>
  <2>1. PICK l \in 1 .. Len(t) : r = SubSeq(t, l, Len(t))
    BY <1>2 DEF Suffixes
  <2>2. Len(t) \in Nat /\ \A i \in 1 .. Len(t) : t[i] \in E
    OBVIOUS
  <2>3. SubSeq(t, l, Len(t)) \in Seq(E) /\ SubSeq(t, 1, l - 1) \in Seq(E)
    BY <2>2, SubSeqProperties
  <2>4. SubSeq(t, 1, l - 1) \o SubSeq(t, l, Len(t)) = SubSeq(t, 1, Len(t))
    <3>1. 1 \in 1 .. Len(t) + 1 /\ l - 1 \in 1 - 1 .. Len(t) /\ Len(t) \in l - 1 .. Len(t)
          /\ (l - 1) + 1 = l
      BY <2>2
    <3> QED
      BY <3>1, ConcatAdjacentSubSeq
  <2>5. SubSeq(t, 1, Len(t)) = t
    BY SubSeqFull
  <2> QED
    BY <2>1, <2>3, <2>4, <2>5
<1> QED
  BY <1>1, <1>2

\* What stands behind a sequence to which something was joined is what was joined.
LEMMA JoinedLast ==
    ASSUME NEW E, NEW p \in Seq(E), NEW r \in Seq(E)
    PROVE  SubSeq(p \o r, Len(p) + 1, Len(p \o r)) = r
<1>1. CASE r = <<>>
  <2>1. p \o r = p /\ Len(p) \in Nat
    BY <1>1, ConcatEmptySeq, LenProperties
  <2>2. Len(p) \in Int /\ Len(p) + 1 \in Int /\ Len(p) < Len(p) + 1
    BY <2>1
  <2> QED
    BY <1>1, <2>1, <2>2, SubSeqEmpty
<1>2. CASE r # <<>>
  <2> DEFINE t == p \o r
             l == Len(p) + 1
             part == SubSeq(t, l, Len(t))
  <2>1. /\ Len(p) \in Nat /\ Len(r) \in Nat \ {0} /\ Len(t) = Len(p) + Len(r) /\ t \in Seq(E)
        /\ \A i \in 1 .. Len(p) + Len(r) : t[i] = IF i <= Len(p) THEN p[i] ELSE r[i - Len(p)]
    BY <1>2, EmptySeq, ConcatProperties
  <2> HIDE DEF t
  <2>2. l \in 1 .. Len(t) /\ Len(t) \in Nat /\ \A i \in 1 .. Len(t) : t[i] \in E
    BY <2>1
  <2>3. /\ part \in Seq(E) /\ Len(part) = Len(t) - l + 1
        /\ \A i \in 1 .. Len(t) - l + 1 : part[i] = t[l + i - 1]
    <3> HIDE DEF l
    <3>1. l \in Int /\ Len(t) \in Int /\ l <= Len(t) /\ \A i \in l .. Len(t) : t[i] \in E
      BY <2>2
    <3> QED
      BY <3>1, SubSeqProperties
  <2> HIDE DEF part
  <2>4. Len(part) = Len(r)
    BY <2>1, <2>3
  <2>5. \A i \in 1 .. Len(part) : part[i] = r[i]
    <3> SUFFICES ASSUME NEW i \in 1 .. Len(r)
                 PROVE  part[i] = r[i]
      BY <2>4
    <3>1. /\ i \in 1 .. Len(t) - l + 1 /\ l + i - 1 = Len(p) + i
          /\ Len(p) + i \in 1 .. Len(p) + Len(r) /\ ~(Len(p) + i <= Len(p)) /\ (Len(p) + i) - Len(p) = i
      BY <2>1
    <3> QED
      BY <2>1, <2>3, <3>1
  <2>6. part = r
    BY <2>3, <2>4, <2>5, SeqEqual
  <2> QED
    BY <2>6 DEF part, l, t
<1> QED
  BY <1>1, <1>2

LEMMA EndIsSuffix ==
    ASSUME NEW E, NEW p \in Seq(E), NEW r \in Seq(E)
    PROVE  r \in Suffixes(p \o r)
<1> DEFINE t == p \o r
           l == Len(p) + 1
<1>1. CASE r = <<>>
  BY <1>1 DEF Suffixes
<1>2. CASE r # <<>>
  <2>1. Len(p) \in Nat /\ Len(r) \in Nat \ {0} /\ Len(t) = Len(p) + Len(r)
    BY <1>2, EmptySeq, ConcatProperties
  <2>2. SubSeq(t, l, Len(t)) = r
    BY JoinedLast
  <2> HIDE DEF t
  <2>3. l \in 1 .. Len(t)
    BY <2>1
  <2>4. r \in Suffixes(t)
    BY <2>2, <2>3, Zenon DEF Suffixes
  <2> QED
    BY <2>4 DEF t
<1> QED
  BY <1>1, <1>2

\* Of two ends of a sequence the shorter is an end of the longer.
LEMMA SuffixesNest ==
    ASSUME NEW E, NEW t \in Seq(E), NEW r \in Suffixes(t), NEW e \in Suffixes(t),
           Len(e) <= Len(r)
    PROVE  \E u \in Seq(E) : r = u \o e
<1>a. r \in Seq(E) /\ e \in Seq(E)
  BY SuffixIsEnd
<1>b. PICK p \in Seq(E) : t = p \o r
  BY SuffixIsEnd
<1>c. PICK q \in Seq(E) : t = q \o e
  BY SuffixIsEnd
<1>d. p \o r = q \o e
  BY <1>b, <1>c
<1> DEFINE d == Len(r) - Len(e)
           u == SubSeq(r, 1, d)
<1>1. /\ Len(p) \in Nat /\ Len(r) \in Nat /\ Len(q) \in Nat /\ Len(e) \in Nat
      /\ Len(p \o r) = Len(p) + Len(r) /\ Len(q \o e) = Len(q) + Len(e)
      /\ \A i \in 1 .. Len(p) + Len(r) : (p \o r)[i] = IF i <= Len(p) THEN p[i] ELSE r[i - Len(p)]
      /\ \A i \in 1 .. Len(q) + Len(e) : (q \o e)[i] = IF i <= Len(q) THEN q[i] ELSE e[i - Len(q)]
  BY <1>a, ConcatProperties
<1>2. d \in Nat /\ Len(q) = Len(p) + d
  BY <1>1, <1>d
<1>3. /\ u \in Seq(E) /\ Len(u) = d
      /\ \A i \in 1 .. d : u[i] = r[i]
  <2>1. 1 \in Int /\ d \in Int /\ \A i \in 1 .. d : r[i] \in E
    BY <1>a, <1>1, <1>2
  <2>2. /\ u \in Seq(E) /\ Len(u) = IF 1 <= d THEN d - 1 + 1 ELSE 0
        /\ \A i \in 1 .. d - 1 + 1 : u[i] = r[1 + i - 1]
    <3> HIDE DEF d
    <3> QED
      BY <2>1, SubSeqProperties
  <2> HIDE DEF u
  <2>3. Len(u) = d
    BY <1>2, <2>2
  <2>4. \A i \in 1 .. d : i \in 1 .. d - 1 + 1 /\ 1 + i - 1 = i
    BY <1>2
  <2> HIDE DEF d
  <2> QED
    BY <2>2, <2>3, <2>4
<1> HIDE DEF u
<1>4. /\ u \o e \in Seq(E) /\ Len(u \o e) = d + Len(e)
      /\ \A i \in 1 .. d + Len(e) : (u \o e)[i] = IF i <= d THEN u[i] ELSE e[i - d]
  BY <1>a, <1>3, ConcatProperties
<1>5. \A i \in 1 .. Len(r) : r[i] = (u \o e)[i]
  <2> SUFFICES ASSUME NEW i \in 1 .. Len(r)
               PROVE  r[i] = (u \o e)[i]
    OBVIOUS
  <2>1. i \in 1 .. d + Len(e) /\ i \in Nat \ {0}
    BY <1>1
  <2>2. CASE i <= d
    BY <1>2, <1>3, <1>4, <2>1, <2>2
  <2>3. CASE ~(i <= d)
    <3> DEFINE k == Len(p) + i
    <3>1. /\ k \in 1 .. Len(p) + Len(r) /\ ~(k <= Len(p)) /\ k - Len(p) = i
          /\ k \in 1 .. Len(q) + Len(e) /\ ~(k <= Len(q)) /\ k - Len(q) = i - d
      BY <1>1, <1>2, <2>1, <2>3
    <3> HIDE DEF k, d
    <3>2. (p \o r)[k] = r[i] /\ (q \o e)[k] = e[i - d]
      BY <1>1, <3>1
    <3>3. (u \o e)[i] = e[i - d]
      BY <1>4, <2>1, <2>3
    <3> QED
      BY <1>d, <3>2, <3>3
  <2> QED
    BY <2>2, <2>3
<1>6. Len(r) = Len(u \o e)
  BY <1>1, <1>4
<1>7. r = u \o e
  BY <1>a, <1>4, <1>5, <1>6, SeqEqual
<1> QED
  BY <1>3, <1>7

LEMMA ConcatIsSuffix ==
    ASSUME NEW E, NEW u \in Seq(E), NEW e \in Seq(E)
    PROVE  IsSuffix(e, u \o e)
<1> DEFINE t == u \o e
           re == Reverse(e)
           rt == Reverse(t)
           n == Len(e)
<1>1. /\ Len(u) \in Nat /\ n \in Nat /\ Len(t) = Len(u) + n /\ t \in Seq(E)
      /\ \A i \in 1 .. Len(u) + n : t[i] = IF i <= Len(u) THEN u[i] ELSE e[i - Len(u)]
  BY ConcatProperties
<1> HIDE DEF t
<1>2. re \in Seq(E) /\ Len(re) = n /\ \A i \in 1 .. n : re[i] = e[(n - i) + 1]
  <2>1. \A i \in 1 .. n : e[(n - i) + 1] \in E
    BY <1>1
  <2>2. re = [i \in 1 .. n |-> e[(n - i) + 1]]
    BY DEF Reverse
  <2> HIDE DEF re, n
  <2>3. re \in [1 .. n -> E]
    BY <2>1, <2>2
  <2> QED
    BY <1>1, <2>2, <2>3
<1>3. rt \in Seq(E) /\ Len(rt) = Len(t) /\ \A i \in 1 .. Len(t) : rt[i] = t[(Len(t) - i) + 1]
  <2> DEFINE m == Len(t)
  <2>1. m \in Nat /\ \A i \in 1 .. m : t[(m - i) + 1] \in E
    BY <1>1
  <2>2. rt = [i \in 1 .. m |-> t[(m - i) + 1]]
    BY DEF Reverse
  <2> HIDE DEF rt, m
  <2>3. rt \in [1 .. m -> E]
    BY <2>1, <2>2
  <2>4. rt \in Seq(E) /\ Len(rt) = m
    BY <2>1, <2>3
  <2>5. \A i \in 1 .. m : rt[i] = t[(m - i) + 1]
    BY <2>2
  <2> QED
    BY <2>4, <2>5 DEF m
<1> HIDE DEF re, rt
<1>4. \A i \in 1 .. n : re[i] = rt[i]
  <2> SUFFICES ASSUME NEW i \in 1 .. n
               PROVE  re[i] = rt[i]
    OBVIOUS
  <2> DEFINE k == (Len(t) - i) + 1
  <2>1. i \in 1 .. Len(t) /\ k \in 1 .. Len(u) + n /\ ~(k <= Len(u)) /\ k - Len(u) = (n - i) + 1
    BY <1>1
  <2>2. re[i] = e[(n - i) + 1] /\ rt[i] = t[k]
    BY <1>2, <1>3, <2>1
  <2> HIDE DEF k
  <2>3. t[k] = e[k - Len(u)]
    BY <1>1, <2>1
  <2> QED
    BY <2>1, <2>2, <2>3
<1>5. SubSeq(re, 1, n) = SubSeq(rt, 1, n)
  <2> DEFINE a == SubSeq(re, 1, n)
             b == SubSeq(rt, 1, n)
  <2>1. 1 \in Int /\ n \in Int /\ (\A i \in 1 .. n : re[i] \in E) /\ (\A i \in 1 .. n : rt[i] \in E)
    BY <1>1, <1>2, <1>4
  <2> HIDE DEF n
  <2>2. /\ a \in Seq(E) /\ Len(a) = IF 1 <= n THEN n - 1 + 1 ELSE 0
        /\ \A i \in 1 .. n - 1 + 1 : a[i] = re[1 + i - 1]
    BY <2>1, SubSeqProperties
  <2>3. /\ b \in Seq(E) /\ Len(b) = IF 1 <= n THEN n - 1 + 1 ELSE 0
        /\ \A i \in 1 .. n - 1 + 1 : b[i] = rt[1 + i - 1]
    BY <2>1, SubSeqProperties
  <2> HIDE DEF a, b
  <2>4. \A i \in 1 .. n : i \in 1 .. n - 1 + 1 /\ 1 + i - 1 = i
    BY <2>1
  <2>5. Len(a) = n /\ Len(b) = n
    BY <1>1, <2>2, <2>3
  <2>6. \A i \in 1 .. Len(a) : a[i] = b[i]
    BY <1>4, <2>2, <2>3, <2>4, <2>5
  <2>7. a = b
    BY <2>2, <2>3, <2>5, <2>6, SeqEqual
  <2> QED
    BY <2>7 DEF a, b
<1>6. Len(re) <= Len(rt)
  BY <1>1, <1>2, <1>3
<1> QED
  BY <1>2, <1>5, <1>6 DEF IsSuffix, IsPrefix, re, rt, t

-----------------------------------------------------------------------------
(* The tail *)

WideIn(text) == {i \in DOMAIN text : text[i] \in Wide}

LEMMA WidthIsNat ==
    ASSUME NEW text \in Seq(Byte)
    PROVE  IsFiniteSet(WideIn(text)) /\ Width(text) \in Nat
<1>1. DOMAIN text = 1 .. Len(text) /\ Len(text) \in Nat /\ WideIn(text) \in SUBSET (1 .. Len(text))
  BY DEF WideIn
<1>2. IsFiniteSet(1 .. Len(text))
  BY <1>1, FS_Interval
<1>3. IsFiniteSet(WideIn(text))
  BY <1>1, <1>2, FS_Subset
<1>4. Cardinality(WideIn(text)) \in Nat
  BY <1>3, FS_CardinalityType
<1>5. Width(text) = Len(text) + Cardinality(WideIn(text))
  BY DEF Width, WideIn
<1> QED
  BY <1>1, <1>3, <1>4, <1>5

LEMMA WidthOfNothing == Width(<<>>) = 0
<1>1. DOMAIN <<>> = {} /\ Len(<<>>) = 0
  OBVIOUS
<1>2. {i \in DOMAIN <<>> : <<>>[i] \in Wide} = {}
  BY <1>1
<1>3. Cardinality({}) = 0
  BY FS_EmptySet
<1> QED
  BY <1>1, <1>2, <1>3 DEF Width

\* A text is no wider than one that begins with it.
LEMMA WidthGrows ==
    ASSUME NEW text \in Seq(Byte), NEW rest \in Seq(Byte)
    PROVE  Width(text) <= Width(text \o rest)
<1> DEFINE more == text \o rest
<1>1. /\ more \in Seq(Byte) /\ Len(more) = Len(text) + Len(rest)
      /\ Len(text) \in Nat /\ Len(rest) \in Nat
      /\ \A i \in 1 .. Len(text) : more[i] = text[i]
  OBVIOUS
<1> HIDE DEF more
<1>2. WideIn(text) \in SUBSET WideIn(more)
  BY <1>1 DEF WideIn
<1>3. IsFiniteSet(WideIn(more)) /\ IsFiniteSet(WideIn(text))
  BY <1>1, WidthIsNat
<1>4. Cardinality(WideIn(text)) <= Cardinality(WideIn(more))
      /\ Cardinality(WideIn(text)) \in Nat /\ Cardinality(WideIn(more)) \in Nat
  BY <1>2, <1>3, FS_Subset, FS_CardinalityType
<1>5. Width(text) = Len(text) + Cardinality(WideIn(text))
      /\ Width(more) = Len(more) + Cardinality(WideIn(more))
  BY DEF Width, WideIn
<1>6. Width(text) <= Width(more)
  BY <1>1, <1>4, <1>5
<1> QED
  BY <1>6 DEF more

\* There is a shortest end that is not below the limit: what CutToLimit leaves is a text.
LEMMA CutIsText ==
    ASSUME NEW text \in Seq(Byte)
    PROVE  /\ CutToLimit(text) \in Seq(Byte)
           /\ Width(text) <= TailBytes => CutToLimit(text) = text
<1> DEFINE Stays(rest) == Width(rest) >= TailBytes
                            /\ (rest = <<>> \/ Width(Tail(rest)) < TailBytes)
<1>1. CASE Width(text) <= TailBytes
  BY <1>1 DEF CutToLimit
<1>2. CASE ~(Width(text) <= TailBytes)
  <2>1. TailBytes \in Nat /\ Width(text) \in Nat
    BY OutputConstants, WidthIsNat
  <2> DEFINE S == {Len(r) : r \in {rest \in Suffixes(text) : Width(rest) >= TailBytes}}
  <2>2. \A r \in Suffixes(text) : r \in Seq(Byte) /\ Len(r) \in Nat /\ Width(r) \in Nat
    <3>1. \A r \in Suffixes(text) : r \in Seq(Byte)
      BY SuffixIsEnd
    <3>2. \A r \in Seq(Byte) : Len(r) \in Nat /\ Width(r) \in Nat
      BY WidthIsNat
    <3> QED
      BY <3>1, <3>2
  <2>3. text \in Suffixes(text)
    <3>1. <<>> \in Seq(Byte) /\ <<>> \o text = text
      BY ConcatEmptySeq
    <3>2. text \in Suffixes(<<>> \o text)
      BY <3>1, EndIsSuffix
    <3> QED
      BY <3>1, <3>2
  <2>4. S \in SUBSET Nat /\ S # {}
    <3>1. Width(text) >= TailBytes
      BY <1>2, <2>1
    <3> QED
      BY <2>2, <2>3, <3>1
  <2>5. PICK m \in S : \A k \in S : m <= k
    <3> HIDE DEF S
    <3> QED
      BY <2>4, LeastNumber
  <2>6. PICK rest \in Suffixes(text) : Width(rest) >= TailBytes /\ Len(rest) = m
    BY <2>5
  <2>7. rest # <<>> => Width(Tail(rest)) < TailBytes
    <3> SUFFICES ASSUME rest # <<>>, ~(Width(Tail(rest)) < TailBytes)
                 PROVE  FALSE
      OBVIOUS
    <3>1. rest \in Seq(Byte) /\ Tail(rest) \in Seq(Byte) /\ Head(rest) \in Byte
          /\ Len(Tail(rest)) = Len(rest) - 1 /\ Len(rest) \in Nat
      BY <2>2, <2>6, HeadTailProperties
    <3>2. PICK p \in Seq(Byte) : text = p \o rest
      BY <2>6, SuffixIsEnd
    <3>3. rest = <<Head(rest)>> \o Tail(rest)
      BY <3>1
    <3>4. <<Head(rest)>> \in Seq(Byte) /\ p \o <<Head(rest)>> \in Seq(Byte)
      BY <3>1
    <3>5. text = (p \o <<Head(rest)>>) \o Tail(rest)
      <4>1. (p \o <<Head(rest)>>) \o Tail(rest) = p \o (<<Head(rest)>> \o Tail(rest))
        BY <3>1, <3>4, Associative
      <4> QED
        BY <3>2, <3>3, <4>1
    <3>6. Tail(rest) \in Suffixes(text)
      BY <3>1, <3>4, <3>5, EndIsSuffix
    <3>7. Width(Tail(rest)) >= TailBytes
      BY <2>1, <2>2, <3>6
    <3>8. Len(Tail(rest)) \in S
      BY <3>6, <3>7
    <3> QED
      BY <2>5, <2>6, <3>1, <3>8
  <2>8. \E r \in Suffixes(text) : Stays(r)
    BY <2>6, <2>7
  <2>9. CutToLimit(text) = CHOOSE r \in Suffixes(text) : Stays(r)
    BY <1>2 DEF CutToLimit
  <2>10. CutToLimit(text) \in Suffixes(text)
    <3> HIDE DEF Stays
    <3> QED
      BY <2>8, <2>9, Zenon
  <2> QED
    BY <1>2, <2>2, <2>10
<1> QED
  BY <1>1, <1>2

LEMMA OneAndTwo ==
    ASSUME NEW E, NEW s \in E, NEW t \in E
    PROVE  /\ <<s>> \in Seq(E) /\ <<s, t>> \in Seq(E)
           /\ Append(<<>>, s) = <<s>> /\ Append(<<s>>, t) = <<s, t>>
<1>1. <<s>> \in Seq(E) /\ Len(<<s>>) = 1 /\ <<s>>[1] = s
  OBVIOUS
<1>2. <<s, t>> \in Seq(E) /\ Len(<<s, t>>) = 2 /\ <<s, t>>[1] = s /\ <<s, t>>[2] = t
  OBVIOUS
<1>3. Append(<<>>, s) = <<s>>
  <2>1. <<>> \in Seq(E)
    BY EmptySeq
  <2>2. Append(<<>>, s) = <<>> \o <<s>>
    BY <2>1, AppendIsConcat
  <2> QED
    BY <1>1, <2>2, ConcatEmptySeq
<1>4. Append(<<s>>, t) = <<s, t>>
  <2> DEFINE a == Append(<<s>>, t)
             b == <<s, t>>
  <2>1. a \in Seq(E) /\ Len(a) = 2 /\ a[1] = s /\ a[2] = t
    BY <1>1, AppendProperties
  <2>2. b \in Seq(E) /\ Len(b) = 2 /\ b[1] = s /\ b[2] = t
    BY <1>2
  <2> HIDE DEF a, b
  <2>3. \A i \in 1 .. 2 : i = 1 \/ i = 2
    OBVIOUS
  <2>4. \A i \in 1 .. Len(a) : a[i] = b[i]
    BY <2>1, <2>2, <2>3
  <2>5. a = b
    BY <2>1, <2>2, <2>4, SeqEqual
  <2> QED
    BY <2>5 DEF a, b
<1> QED
  BY <1>1, <1>2, <1>3, <1>4

\* A line is pushed as its bytes, if there are any, and its end, if it has one.
LEMMA PushedIsTexts ==
    ASSUME NEW l \in Line
    PROVE  /\ PushedFor(l) \in Seq(Seq(Byte)) /\ Len(PushedFor(l)) <= 2
           /\ Width(LineText(l)) <= TailBytes => FlattenSeq(PushedFor(l)) = LineText(l)
<1> DEFINE Text == Seq(Byte)
           c == CutToLimit(l.bytes)
<1>1. l.bytes \in Text /\ l.continuation \in BOOLEAN
  BY DEF Line
<1>2. c \in Text /\ (Width(l.bytes) <= TailBytes => c = l.bytes)
  BY <1>1, CutIsText
<1>3. <<>> \in Text /\ LF \in Byte /\ <<LF>> \in Text
  BY DEF Byte
<1> DEFINE end == <<LF>>
<1>4. PushedFor(l) = (IF l.bytes = <<>> THEN <<>> ELSE <<c>>)
                       \o (IF l.continuation THEN <<>> ELSE <<end>>)
  BY DEF PushedFor
<1>5. LineText(l) = IF l.continuation THEN l.bytes \o <<>> ELSE l.bytes \o end
  BY DEF LineText
<1>6. l.bytes \o <<>> = l.bytes /\ <<>> \o end = end
      /\ \A t \in Text : <<>> \o t = t
  BY <1>1, <1>3, ConcatEmptySeq
<1>7. Width(LineText(l)) <= TailBytes => Width(l.bytes) <= TailBytes
  <2> DEFINE b == l.bytes
             m == b \o <<LF>>
  <2>1. b \in Seq(Byte) /\ <<LF>> \in Seq(Byte) /\ m \in Seq(Byte)
    BY <1>1, <1>3
  <2> HIDE DEF m, b
  <2>2. Width(b) \in Nat /\ Width(m) \in Nat
    BY <2>1, WidthIsNat
  <2>3. Width(b) <= Width(m)
    BY <2>1, WidthGrows DEF m
  <2>4. TailBytes \in Nat
    BY OutputConstants
  <2>5. LineText(l) = IF l.continuation THEN b ELSE m
    BY <1>5, <1>6 DEF m, b
  <2>6. Width(LineText(l)) = Width(b) \/ Width(LineText(l)) = Width(m)
    BY <2>5
  <2>7. Width(LineText(l)) <= TailBytes => Width(b) <= TailBytes
    BY <2>2, <2>3, <2>4, <2>6
  <2> QED
    BY <2>7 DEF b
<1>8. Width(LineText(l)) <= TailBytes => c = l.bytes
  BY <1>2, <1>7
<1>9. /\ FlattenSeq(<<>>) = <<>>
      /\ \A s \in Text : FlattenSeq(<<s>>) = s
      /\ \A s, t \in Text : FlattenSeq(<<s, t>>) = s \o t
  <2>1. FlattenSeq(<<>>) = <<>>
    BY FlatEmpty
  <2>2. ASSUME NEW s \in Text
        PROVE  FlattenSeq(<<s>>) = s /\ <<s>> \in Seq(Text)
    <3>0. <<>> \in Seq(Seq(Byte))
      BY EmptySeq
    <3>1. Append(<<>>, s) = <<s>> /\ <<s>> \in Seq(Text)
      BY OneAndTwo
    <3>2. FlattenSeq(Append(<<>>, s)) = FlattenSeq(<<>>) \o s
      BY <3>0, FlatAppend
    <3> QED
      BY <1>6, <2>1, <3>1, <3>2
  <2>3. ASSUME NEW s \in Text, NEW t \in Text
        PROVE  FlattenSeq(<<s, t>>) = s \o t
    <3>1. <<s>> \in Seq(Seq(Byte)) /\ Append(<<s>>, t) = <<s, t>>
      BY OneAndTwo
    <3>2. FlattenSeq(Append(<<s>>, t)) = FlattenSeq(<<s>>) \o t
      BY <3>1, FlatAppend
    <3> QED
      BY <2>2, <3>1, <3>2
  <2> QED
    BY <2>1, <2>2, <2>3
<1> HIDE DEF Text, c, end
<1>10. end \in Text
  BY <1>3 DEF end
<1>11. PushedFor(l) = IF l.bytes = <<>>
                      THEN IF l.continuation THEN <<>> ELSE <<end>>
                      ELSE IF l.continuation THEN <<c>> ELSE <<c, end>>
  BY <1>2, <1>4, <1>10
<1>12. PushedFor(l) \in Seq(Text) /\ Len(PushedFor(l)) <= 2
  <2>1. \A s, t \in Text : {<<>>, <<s>>, <<s, t>>} \subseteq Seq(Text)
          /\ Len(<<s>>) = 1 /\ Len(<<s, t>>) = 2
    OBVIOUS
  <2>2. Len(<<>>) = 0 /\ 0 <= 2 /\ 1 <= 2 /\ 2 <= 2
    OBVIOUS
  <2> QED
    BY <1>2, <1>10, <1>11, <2>1, <2>2
<1>13. Width(LineText(l)) <= TailBytes => FlattenSeq(PushedFor(l)) = LineText(l)
  <2> SUFFICES ASSUME c = l.bytes
               PROVE  FlattenSeq(PushedFor(l)) = LineText(l)
    BY <1>8
  <2> DEFINE b == l.bytes
  <2>1. c = b /\ b \in Text /\ b \o <<>> = b
    BY <1>2, <1>6
  <2>2. LineText(l) = IF l.continuation THEN b ELSE b \o end
    BY <1>5, <1>6
  <2>3. b = <<>> => b \o end = end
    BY <1>6
  <2>4. PushedFor(l) = IF b = <<>>
                       THEN IF l.continuation THEN <<>> ELSE <<end>>
                       ELSE IF l.continuation THEN <<b>> ELSE <<b, end>>
    BY <1>11, <2>1
  <2>5. FlattenSeq(<<end>>) = end /\ FlattenSeq(<<b>>) = b /\ FlattenSeq(<<b, end>>) = b \o end
        /\ FlattenSeq(<<>>) = <<>>
    BY <1>9, <1>10, <2>1
  <2> HIDE DEF b
  <2> QED
    BY <2>2, <2>3, <2>4, <2>5
<1> QED
  BY <1>12, <1>13 DEF Text


LEMMA Regroup ==
    ASSUME NEW E, NEW x, NEW y, NEW z, x \in Seq(E), y \in Seq(E), z \in Seq(E)
    PROVE  x \o (y \o z) = (x \o y) \o z
  BY ConcatAssociative, SMTT(30)

LEMMA AppendAfterAny ==
    ASSUME NEW E, NEW u \in Seq(E), NEW v \in Seq(E), NEW s \in E
    PROVE  u \o Append(v, s) = Append(u \o v, s) /\ u \o v \in Seq(E)
<1>1. u \o v \in Seq(E) /\ <<s>> \in Seq(E)
  OBVIOUS
<1>2. Append(u \o v, s) = (u \o v) \o <<s>> /\ Append(v, s) = v \o <<s>>
  BY <1>1, AppendIsConcat
<1> QED
  BY <1>1, <1>2, ConcatAssociative

\* Two sequences of texts say what they say one after the other.
LEMMA FlatConcat ==
    ASSUME NEW E, NEW u \in Seq(Seq(E)), NEW v \in Seq(Seq(E))
    PROVE  FlattenSeq(u \o v) = FlattenSeq(u) \o FlattenSeq(v)
<1> DEFINE Says(w) == FlattenSeq(u \o w) = FlattenSeq(u) \o FlattenSeq(w)
           Good == {n \in Nat : \A w \in Seq(Seq(E)) : Len(w) = n => Says(w)}
<1>a. \A x, y, z \in Seq(E) : (x \o y) \o z = x \o (y \o z)
  BY ConcatAssociative, SMTT(30)
<1>1. 0 \in Good
  <2> SUFFICES ASSUME NEW w \in Seq(Seq(E)), Len(w) = 0
               PROVE  Says(w)
    OBVIOUS
  <2>1. w = <<>>
    BY EmptySeq
  <2>2. u \o <<>> = u
    BY ConcatEmptySeq
  <2>3. FlattenSeq(u) \in Seq(E)
    <3>1. <<>> \in Seq(E)
      BY EmptySeq
    <3> QED
      BY <3>1, FlatAppend
  <2>4. FlattenSeq(u) \o <<>> = FlattenSeq(u)
    BY <2>3, ConcatEmptySeq
  <2> QED
    BY <2>1, <2>2, <2>4, FlatEmpty
<1>2. ASSUME NEW n \in Nat, n \in Good
      PROVE  n + 1 \in Good
  <2> SUFFICES ASSUME NEW w \in Seq(Seq(E)), Len(w) = n + 1
               PROVE  Says(w)
    OBVIOUS
  <2>1. w # <<>>
    BY EmptySeq
  <2>2. PICK front \in Seq(Seq(E)), s \in Seq(E) : w = Append(front, s)
    BY <2>1, SequenceEmptyOrAppend
  <2>3. Len(w) = Len(front) + 1 /\ Len(front) \in Nat
    BY <2>2, AppendProperties, LenProperties
  <2>4. Len(front) = n
    BY <2>3
  <2>5. FlattenSeq(u \o front) = FlattenSeq(u) \o FlattenSeq(front)
    BY <1>2, <2>4
  <2>6. u \o w = Append(u \o front, s) /\ u \o front \in Seq(Seq(E))
    BY <2>2, AppendAfterAny
  <2>7. /\ FlattenSeq(u \o w) = FlattenSeq(u \o front) \o s
        /\ FlattenSeq(w) = FlattenSeq(front) \o s
        /\ FlattenSeq(u) \in Seq(E) /\ FlattenSeq(front) \in Seq(E)
    BY <2>2, <2>6, FlatAppend
  <2>8. (FlattenSeq(u) \o FlattenSeq(front)) \o s = FlattenSeq(u) \o (FlattenSeq(front) \o s)
    BY <1>a, <2>2, <2>7, Zenon
  <2> QED
    BY <2>5, <2>7, <2>8
<1>3. Len(v) \in Nat
  BY LenProperties
<1> HIDE DEF Good
<1>4. Len(v) \in Good
  BY <1>1, <1>2, <1>3, SetInduction
<1> QED
  BY <1>4 DEF Good

\* KeptOf takes the longest end of the tail that keeps both limits.
LEMMA KeptIsLongest ==
    ASSUME NEW chunks \in Seq(Seq(Byte))
    PROVE  /\ KeptOf(chunks) \in Suffixes(chunks) /\ TailFits(KeptOf(chunks))
           /\ \A r \in Suffixes(chunks) : TailFits(r) => Len(r) <= Len(KeptOf(chunks))
<1> DEFINE Fitting == {s \in Suffixes(chunks) : TailFits(s)}
           n == Len(chunks)
           S == {n - Len(r) : r \in Fitting}
<1>1. <<>> \in Fitting
  <2>1. TailBytes \in Nat /\ TailChunks \in Nat
    BY OutputConstants
  <2>2. Flat(<<>>) = <<>> /\ Len(<<>>) = 0
    BY FlatEmpty DEF Flat
  <2>3. TailFits(<<>>)
    BY <2>1, <2>2, WidthOfNothing DEF TailFits
  <2> QED
    BY <2>3 DEF Suffixes
<1>2. n \in Nat /\ \A r \in Suffixes(chunks) : Len(r) \in Nat /\ Len(r) <= n
  <2>1. n \in Nat
    BY LenProperties
  <2>2. ASSUME NEW r \in Suffixes(chunks)
        PROVE  Len(r) \in Nat /\ Len(r) <= n
    <3>1. r \in Seq(Seq(Byte)) /\ \E p \in Seq(Seq(Byte)) : chunks = p \o r
      BY SuffixIsEnd
    <3>2. PICK p \in Seq(Seq(Byte)) : chunks = p \o r
      BY <3>1
    <3>3. Len(chunks) = Len(p) + Len(r) /\ Len(p) \in Nat /\ Len(r) \in Nat
      BY <3>1, <3>2, ConcatProperties, LenProperties
    <3> QED
      BY <3>3
  <2> QED
    BY <2>1, <2>2
<1> HIDE DEF n
<1>3. S \in SUBSET Nat /\ S # {}
  BY <1>1, <1>2
<1>4. PICK m \in S : \A k \in S : m <= k
  <2> HIDE DEF S
  <2> QED
    BY <1>3, LeastNumber
<1>5. PICK s \in Fitting : m = n - Len(s)
  BY <1>4
<1>6. ASSUME NEW t \in Fitting
      PROVE  Len(t) <= Len(s)
  <2>1. m <= n - Len(t)
    BY <1>4
  <2>2. Len(t) \in Nat /\ Len(s) \in Nat /\ n \in Nat
    BY <1>2
  <2> HIDE DEF Fitting, S
  <2> QED
    BY <1>5, <2>1, <2>2
<1>7. KeptOf(chunks) = CHOOSE x \in Fitting : \A t \in Fitting : Len(t) <= Len(x)
  BY DEF KeptOf, Longest
<1> HIDE DEF Fitting
<1>8. KeptOf(chunks) \in Fitting /\ \A t \in Fitting : Len(t) <= Len(KeptOf(chunks))
  BY <1>5, <1>6, <1>7, Zenon
<1> QED
  BY <1>8 DEF Fitting

\* What is pushed last is what the last line says.
LEMMA TextsEnd ==
    ASSUME NEW framed \in Seq(Line), framed # <<>>
    PROVE  /\ Texts(framed) \in Seq(Seq(Byte))
           /\ \E x \in Seq(Seq(Byte)) : Texts(framed) = x \o PushedFor(Last(framed))
           /\ Last(framed) \in Line
<1> DEFINE Parts == Seq(Seq(Byte))
           pushed == [i \in DOMAIN framed |-> PushedFor(framed[i])]
           n == Len(framed)
<1>1. n \in Nat \ {0} /\ DOMAIN framed = 1 .. n /\ \A i \in 1 .. n : framed[i] \in Line
  BY EmptySeq, LenProperties, ElementOfSeq
<1>2. \A i \in 1 .. n : PushedFor(framed[i]) \in Parts
  BY <1>1, PushedIsTexts
<1>3. pushed = [i \in 1 .. n |-> PushedFor(framed[i])]
  BY <1>1
<1> HIDE DEF Parts, n, pushed
<1>4. pushed \in [1 .. n -> Parts]
  BY <1>2, <1>3
<1>5. pushed \in Seq(Parts) /\ Len(pushed) = n /\ pushed # <<>>
  <2>1. pushed \in Seq(Parts) /\ Len(pushed) = n
    BY <1>1, <1>4
  <2> QED
    BY <1>1, <2>1, EmptySeq
<1>6. PICK front \in Seq(Parts), last \in Parts : pushed = Append(front, last)
  BY <1>5, SequenceEmptyOrAppend
<1>7. Len(front) \in Nat /\ Len(pushed) = Len(front) + 1 /\ pushed[Len(front) + 1] = last
  BY <1>6, AppendProperties, LenProperties
<1>8. last = PushedFor(framed[n])
  <2>1. Len(front) + 1 = n /\ n \in 1 .. n
    BY <1>1, <1>5, <1>7
  <2> QED
    BY <1>3, <1>7, <2>1
<1>9. Last(framed) = framed[n]
  BY DEF Last, n
<1>10. Texts(framed) = FlattenSeq(Append(front, last))
  BY <1>6 DEF Texts, pushed
<1>11. FlattenSeq(front) \in Parts /\ FlattenSeq(Append(front, last)) = FlattenSeq(front) \o last
  BY <1>6, FlatAppend DEF Parts
<1>12. FlattenSeq(front) \o last \in Parts
  BY <1>6, <1>11, ConcatProperties DEF Parts
<1>13. framed[n] \in Line
  BY <1>1
<1> QED
  BY <1>8, <1>9, <1>10, <1>11, <1>12, <1>13 DEF Parts

\* Whatever is pushed, the tail keeps its limits and ends with the newest line, if that fits.
LEMMA PushShowsNewest ==
    ASSUME NEW chunks \in Seq(Seq(Byte)), NEW framed \in Seq(Line), framed # <<>>
    PROVE  /\ PushNormalized(chunks, framed) \in Seq(Seq(Byte))
           /\ TailFits(PushNormalized(chunks, framed))
           /\ Width(LineText(Last(framed))) <= TailBytes
                => IsSuffix(LineText(Last(framed)), Flat(PushNormalized(chunks, framed)))
<1> DEFINE l == Last(framed)
           e == PushedFor(l)
           all == chunks \o Texts(framed)
           kept == KeptOf(all)
<1>1. PICK x \in Seq(Seq(Byte)) : Texts(framed) = x \o e
  BY TextsEnd
<1>2. l \in Line /\ Texts(framed) \in Seq(Seq(Byte))
  BY TextsEnd
<1>3. PushNormalized(chunks, framed) = kept
  BY DEF PushNormalized
<1> HIDE DEF l
<1>4. e \in Seq(Seq(Byte)) /\ Len(e) <= 2
      /\ (Width(LineText(l)) <= TailBytes => FlattenSeq(e) = LineText(l))
  BY <1>2, PushedIsTexts
<1> HIDE DEF e
<1>5. all \in Seq(Seq(Byte)) /\ chunks \o x \in Seq(Seq(Byte)) /\ all = (chunks \o x) \o e
  <2>1. all = chunks \o (x \o e) /\ all = chunks \o Texts(framed)
    BY <1>1
  <2>2. all \in Seq(Seq(Byte)) /\ chunks \o x \in Seq(Seq(Byte))
    BY <1>2, <2>1, ConcatProperties
  <2>3. (chunks \o x) \o e = chunks \o (x \o e)
    <3> DEFINE Text == Seq(Byte)
    <3>1. chunks \in Seq(Text) /\ x \in Seq(Text) /\ e \in Seq(Text)
      BY <1>4
    <3> HIDE DEF Text
    <3> QED
      BY <3>1, Regroup
  <2> QED
    BY <2>1, <2>2, <2>3
<1> HIDE DEF all
<1>6. /\ kept \in Suffixes(all) /\ TailFits(kept)
      /\ \A r \in Suffixes(all) : TailFits(r) => Len(r) <= Len(kept)
  BY <1>5, KeptIsLongest
<1> HIDE DEF kept
<1>8. kept \in Seq(Seq(Byte))
  BY <1>5, <1>6, SuffixIsEnd
<1>9. ASSUME Width(LineText(l)) <= TailBytes
      PROVE  IsSuffix(LineText(l), Flat(kept))
  <2>1. FlattenSeq(e) = LineText(l)
    BY <1>4, <1>9
  <2>2. TailFits(e)
    <3>1. Len(e) \in Nat /\ TailChunks \in Nat /\ 2 <= TailChunks
      <4>1. Len(e) \in Nat
        BY <1>4, LenProperties
      <4> QED
        BY <4>1, OutputConstants
    <3>2. Len(e) <= TailChunks
      BY <1>4, <3>1
    <3> QED
      BY <1>9, <2>1, <3>2 DEF TailFits, Flat
  <2>3. e \in Suffixes(all)
    BY <1>4, <1>5, EndIsSuffix
  <2>4. Len(e) <= Len(kept)
    BY <1>6, <2>2, <2>3
  <2>5. PICK u \in Seq(Seq(Byte)) : kept = u \o e
    BY <1>5, <1>6, <2>3, <2>4, SuffixesNest, ZenonT(30)
  <2>6. Flat(kept) = FlattenSeq(u) \o FlattenSeq(e)
    BY <1>4, <2>5, FlatConcat DEF Flat
  <2>7. FlattenSeq(u) \in Seq(Byte) /\ FlattenSeq(e) \in Seq(Byte)
    <3>1. <<>> \in Seq(Byte)
      BY EmptySeq
    <3> QED
      BY <1>4, <3>1, FlatAppend
  <2>8. IsSuffix(FlattenSeq(e), FlattenSeq(u) \o FlattenSeq(e))
    BY <2>7, ConcatIsSuffix
  <2> QED
    BY <2>1, <2>6, <2>8
<1> QED
  BY <1>3, <1>6, <1>8, <1>9 DEF l

-----------------------------------------------------------------------------
(* What every step shows: the newest line at the end of the preview *)

Tailed == tail \in Seq(Seq(Byte))

\* Nothing new stands behind a sequence that has not grown, or that began anew.
LEMMA NothingJoined ==
    ASSUME NEW E, NEW p \in Seq(E)
    PROVE  SubSeq(p, Len(p) + 1, Len(p)) = <<>> /\ SubSeq(<<>>, Len(p) + 1, Len(<<>>)) = <<>>
<1>1. Len(p) \in Nat /\ Len(<<>>) = 0
  BY LenProperties, EmptySeq
<1>2. Len(p) \in Int /\ Len(p) + 1 \in Int /\ 0 \in Int /\ Len(p) < Len(p) + 1 /\ 0 < Len(p) + 1
  BY <1>1
<1> QED
  BY <1>1, <1>2, SubSeqEmpty

\* A snippet cuts off the last word of a text exactly if it does not show all of the text.
LEMMA SnippetShowsLast ==
    ASSUME NEW text \in Seq(Byte),
           NEW words \in SUBSET {i \in DOMAIN text : ~IsBlank(text[i])}, words # {},
           \A w \in words : \A i \in DOMAIN text : i > w /\ ~IsBlank(text[i]) => i \in words
    PROVE  words \subseteq Snippet(text) <=> Cardinality(Squeezed(text)) <= SnippetChars
<1> DEFINE all == Squeezed(text)
           upTo(i) == {j \in all : j <= i}
<1>1. Len(text) \in Nat /\ DOMAIN text = 1 .. Len(text)
  BY LenProperties
<1>2. all \subseteq 1 .. Len(text) /\ words \subseteq all
  BY <1>1 DEF Squeezed
<1>3. IsFiniteSet(all)
  <2>1. IsFiniteSet(1 .. Len(text))
    BY <1>1, FS_Interval
  <2>2. all \in SUBSET (1 .. Len(text))
    BY <1>2
  <2> HIDE DEF all
  <2> QED
    BY <2>1, <2>2, FS_Subset
<1>4. \A i \in 1 .. Len(text) :
        /\ Cardinality(upTo(i)) \in Nat /\ Cardinality(all) \in Nat
        /\ Cardinality(upTo(i)) <= Cardinality(all)
  <2> SUFFICES ASSUME NEW i \in 1 .. Len(text)
               PROVE  /\ Cardinality(upTo(i)) \in Nat /\ Cardinality(all) \in Nat
                      /\ Cardinality(upTo(i)) <= Cardinality(all)
    OBVIOUS
  <2> DEFINE part == upTo(i)
  <2>1. part \in SUBSET all
    OBVIOUS
  <2> HIDE DEF all, part
  <2>2. IsFiniteSet(part) /\ Cardinality(part) <= Cardinality(all)
    BY <1>3, <2>1, FS_Subset
  <2>3. Cardinality(part) \in Nat /\ Cardinality(all) \in Nat
    BY <1>3, <2>2, FS_CardinalityType
  <2> QED
    BY <2>2, <2>3 DEF part
<1>5. \A i \in all : i \in Snippet(text) <=> Cardinality(upTo(i)) <= SnippetChars
  BY DEF Snippet
<1>6. ASSUME Cardinality(all) <= SnippetChars, NEW i \in words
      PROVE  i \in Snippet(text)
  <2>1. i \in all /\ i \in 1 .. Len(text)
    BY <1>2
  <2>2. Cardinality(upTo(i)) <= SnippetChars
    <3> HIDE DEF all, upTo
    <3> QED
      BY <1>4, <1>6, <2>1, OutputConstants
  <2> QED
    BY <1>5, <2>1, <2>2
<1>7. ASSUME words \subseteq Snippet(text)
      PROVE  Cardinality(all) <= SnippetChars
  <2>1. PICK m \in words : \A i \in words : i <= m
    <3>1. words \in SUBSET (1 .. Len(text))
      BY <1>2
    <3>2. Max(words) \in words /\ \A i \in words : Max(words) >= i
      BY <1>1, <3>1, MaxOfSubset
    <3> QED
      BY <1>1, <3>1, <3>2
  <2>2. m \in 1 .. Len(text) /\ m \in all /\ ~IsBlank(text[m])
    BY <1>1, <1>2
  <2>3. \A k \in DOMAIN text : ~IsBlank(text[k]) => k <= m
    BY <1>1, <2>1, <2>2
  <2>4. ASSUME NEW j \in all
        PROVE  j <= m
    <3>1. j \in DOMAIN text /\ (~IsBlank(text[j])
             \/ \E k \in DOMAIN text : k > j /\ ~IsBlank(text[k]))
      BY DEF Squeezed
    <3> QED
      BY <1>1, <2>2, <2>3, <3>1
  <2>5. upTo(m) = all
    BY <2>4
  <2>6. Cardinality(upTo(m)) <= SnippetChars
    BY <1>5, <1>7, <2>1, <2>2
  <2> QED
    BY <2>5, <2>6
<1> QED
  BY <1>6, <1>7

\* What PreviewShowsNewest says of a stream in a step.
WordsAtEnd(all, text) == {i \in DOMAIN all : i > Len(all) - Len(text) /\ ~IsBlank(all[i])}

ShowsLine(s) ==
    LET newest == Last(NewLines(s))
        text == newest.bytes \o (IF newest.continuation THEN <<>> ELSE <<LF>>)
        all == Flat(tail')
        words == {i \in DOMAIN all : i > Len(all) - Len(text) /\ ~IsBlank(all[i])}
    IN /\ TailFits(tail')
       /\ Width(text) <= TailBytes =>
            /\ IsSuffix(text, all)
            /\ words # {} =>
                 (words \subseteq Preview(tail')
                    <=> Cardinality(Squeezed(all)) <= SnippetChars)

Shows(s) == NewLines(s) # <<>> /\ (s = "stdout" => NewLines("stderr") = <<>>) => ShowsLine(s)

LEMMA PushedIsShown ==
    ASSUME Tailed, NEW s \in StreamSource, NEW pushed \in Seq(Line), pushed # <<>>,
           Last(pushed) = Last(NewLines(s)), tail' = PushNormalized(tail, pushed)
    PROVE  ShowsLine(s)
<1> DEFINE newest == Last(NewLines(s))
           text == newest.bytes \o (IF newest.continuation THEN <<>> ELSE <<LF>>)
<1>1. text = LineText(Last(pushed))
  BY DEF LineText
<1>2. /\ TailFits(tail')
      /\ Width(LineText(Last(pushed))) <= TailBytes
           => IsSuffix(LineText(Last(pushed)), Flat(tail'))
  BY PushShowsNewest DEF Tailed
<1>3. text \in Seq(Byte)
  <2>1. pushed[Len(pushed)] \in Line
    BY LenProperties, EmptySeq
  <2>2. newest.bytes \in Seq(Byte) /\ <<LF>> \in Seq(Byte) /\ <<>> \in Seq(Byte)
    BY <2>1, EmptySeq DEF Last, Line, Byte
  <2> QED
    BY <2>2, ConcatProperties
<1> HIDE DEF text
<1>4. TailFits(tail') /\ (Width(text) <= TailBytes => IsSuffix(text, Flat(tail')))
  BY <1>1, <1>2
<1>5. Flat(tail') \in Seq(Byte)
  <2>1. <<>> \in Seq(Byte) /\ tail' \in Seq(Seq(Byte))
    BY PushShowsNewest, EmptySeq DEF Tailed
  <2> QED
    BY <2>1, FlatAppend DEF Flat
<1> DEFINE words == WordsAtEnd(Flat(tail'), text)
<1>6. words # {} =>
        (words \subseteq Preview(tail') <=> Cardinality(Squeezed(Flat(tail'))) <= SnippetChars)
  <2>1. Len(text) \in Nat /\ DOMAIN Flat(tail') = 1 .. Len(Flat(tail')) /\ Len(Flat(tail')) \in Nat
    BY <1>3, <1>5, LenProperties
  <2>2. \A w \in words : \A i \in DOMAIN Flat(tail') :
          i > w /\ ~IsBlank(Flat(tail')[i]) => i \in words
    BY <2>1 DEF WordsAtEnd
  <2>3. words \in SUBSET {i \in DOMAIN Flat(tail') : ~IsBlank(Flat(tail')[i])}
    BY DEF WordsAtEnd
  <2> HIDE DEF words
  <2> QED
    BY <1>5, <2>2, <2>3, SnippetShowsLast DEF Preview
<1> QED
  BY <1>4, <1>6, Zenon DEF ShowsLine, text, WordsAtEnd

LEMMA PushTyped ==
    ASSUME Tailed, NEW pushed \in Seq(Line)
    PROVE  PushNormalized(tail, pushed) \in Seq(Seq(Byte))
<1>1. CASE pushed = <<>>
  BY <1>1 DEF PushNormalized, Tailed
<1>2. CASE pushed # <<>>
  BY <1>2, PushShowsNewest DEF Tailed
<1> QED
  BY <1>1, <1>2

\* A step that joins lines to one stream and pushes them, or does neither.
LEMMA JoiningShows ==
    ASSUME Framing, Tailed, NEW s \in StreamSource, NEW new \in Seq(Line),
           \/ lines' = [lines EXCEPT ![s] = @ \o new] /\ tail' = PushNormalized(tail, new)
           \/ lines' = lines /\ tail' = tail
    PROVE  Tailed' /\ \A z \in StreamSource : Shows(z)
<1>1. lines \in [StreamSource -> Seq(Line)] /\ \A z \in StreamSource : lines[z] \in Seq(Line)
  BY DEF Framing
<1>2. CASE lines' = lines /\ tail' = tail
  <2>1. \A z \in StreamSource : NewLines(z) = <<>>
    BY <1>1, <1>2, NothingJoined DEF NewLines
  <2> QED
    BY <1>2, <2>1 DEF Shows, Tailed
<1>3. CASE lines' = [lines EXCEPT ![s] = @ \o new] /\ tail' = PushNormalized(tail, new)
  <2>1. lines'[s] = lines[s] \o new /\ \A z \in StreamSource \ {s} : lines'[z] = lines[z]
    BY <1>1, <1>3
  <2>2. NewLines(s) = new
    BY <1>1, <2>1, JoinedLast DEF NewLines
  <2>3. \A z \in StreamSource \ {s} : NewLines(z) = <<>>
    BY <1>1, <2>1, NothingJoined DEF NewLines
  <2>4. new # <<>> => ShowsLine(s)
    BY <1>3, <2>2, PushedIsShown
  <2>5. ASSUME NEW z \in StreamSource
        PROVE  Shows(z)
    <3>1. CASE z = s
      BY <2>2, <2>4, <3>1 DEF Shows
    <3>2. CASE z # s
      BY <2>3, <3>2 DEF Shows
    <3> QED
      BY <3>1, <3>2
  <2>6. Tailed'
    BY <1>3, PushTyped DEF Tailed
  <2> QED
    BY <2>5, <2>6
<1> QED
  BY <1>2, <1>3

LEMMA TakeChunkShows ==
    ASSUME Passing, Framing, Tailed, NEW s \in StreamSource, TakeChunk(s)
    PROVE  Tailed' /\ \A z \in StreamSource : Shows(z)
<1> DEFINE frame == Push(framer[s], Head(channel).bytes)
<1>1. frame \in Frame
  BY ChunkIsFramed
<1>2. frame.framed \in Seq(Line)
  BY <1>1 DEF Frame
<1>3. \/ lines' = [lines EXCEPT ![s] = @ \o frame.framed]
           /\ tail' = PushNormalized(tail, frame.framed)
      \/ lines' = lines /\ tail' = tail
  BY DEF TakeChunk
<1> HIDE DEF frame
<1> QED
  BY <1>2, <1>3, JoiningShows

LEMMA TakeDoneShows ==
    ASSUME Framing, Tailed, NEW s \in StreamSource, TakeDone(s)
    PROVE  Tailed' /\ \A z \in StreamSource : Shows(z)
<1>1. LastLine(s) \in Seq(Line)
  BY LastLineIsLines
<1>2. \/ lines' = [lines EXCEPT ![s] = @ \o LastLine(s)]
           /\ tail' = PushNormalized(tail, LastLine(s))
      \/ lines' = lines /\ tail' = tail
  BY DEF TakeDone
<1> QED
  BY <1>1, <1>2, JoiningShows

\* Of the last lines of the two streams, pushed together, that of stderr is the newest.
LEMMA DrainDeadlineShows ==
    ASSUME Framing, Tailed, DrainDeadline
    PROVE  Tailed' /\ \A z \in StreamSource : Shows(z)
<1> DEFINE out == LastLine("stdout")
           err == LastLine("stderr")
<1>0. "stdout" \in StreamSource /\ "stderr" \in StreamSource
  BY DEF StreamSource
<1>1. \A z \in StreamSource : lines[z] \in Seq(Line) /\ LastLine(z) \in Seq(Line)
  BY LastLineIsLines DEF Framing
<1>2. \/ /\ lines' = [z \in StreamSource |-> lines[z] \o LastLine(z)]
         /\ tail' = PushNormalized(tail, out \o err)
      \/ lines' = lines /\ tail' = tail
  BY DEF DrainDeadline
<1>3. CASE lines' = lines /\ tail' = tail
  <2>1. \A z \in StreamSource : NewLines(z) = <<>>
    BY <1>1, <1>3, NothingJoined DEF NewLines
  <2> QED
    BY <1>3, <2>1 DEF Shows, Tailed
<1>4. CASE /\ lines' = [z \in StreamSource |-> lines[z] \o LastLine(z)]
           /\ tail' = PushNormalized(tail, out \o err)
  <2>1. \A z \in StreamSource : lines'[z] = lines[z] \o LastLine(z)
    BY <1>4
  <2>2. \A z \in StreamSource : NewLines(z) = LastLine(z)
    BY <1>1, <2>1, JoinedLast DEF NewLines
  <2>3. out \in Seq(Line) /\ err \in Seq(Line)
    BY <1>0, <1>1
  <2>4. NewLines("stdout") = out /\ NewLines("stderr") = err
    BY <1>0, <2>2
  <2>5. err = <<>> \/ Len(err) = 1
    BY DEF LastLine
  <2> HIDE DEF out, err
  <2>6. out \o err \in Seq(Line)
    BY <2>3, ConcatProperties
  <2>7. Tailed'
    BY <1>4, <2>6, PushTyped DEF Tailed
  <2>8. err # <<>> => out \o err # <<>> /\ Last(out \o err) = Last(err)
    <3> SUFFICES ASSUME err # <<>>
                 PROVE  out \o err # <<>> /\ Last(out \o err) = Last(err)
      OBVIOUS
    <3>1. Len(err) = 1 /\ Len(out) \in Nat
      BY <2>3, <2>5, LenProperties
    <3>2. Len(out \o err) = Len(out) + 1 /\ (out \o err)[Len(out) + 1] = err[1]
      <4>1. /\ Len(out \o err) = Len(out) + Len(err)
            /\ \A i \in 1 .. Len(out) + Len(err) : (out \o err)[i] =
                 IF i <= Len(out) THEN out[i] ELSE err[i - Len(out)]
        BY <2>3, ConcatProperties
      <4>2. Len(out) + 1 \in 1 .. Len(out) + Len(err) /\ ~(Len(out) + 1 <= Len(out))
            /\ (Len(out) + 1) - Len(out) = 1
        BY <3>1
      <4> QED
        BY <3>1, <4>1, <4>2
    <3>3. out \o err # <<>>
      BY <2>6, <3>1, <3>2, EmptySeq
    <3>4. Last(err) = err[1] /\ Last(out \o err) = (out \o err)[Len(out) + 1]
      BY <3>1, <3>2 DEF Last
    <3> QED
      BY <3>2, <3>3, <3>4
  <2>9. err = <<>> => out \o err = out
    BY <2>3, ConcatEmptySeq
  <2>10. Shows("stderr")
    <3> SUFFICES ASSUME err # <<>>
                 PROVE  ShowsLine("stderr")
      BY <2>4 DEF Shows
    <3> QED
      BY <1>0, <1>4, <2>4, <2>6, <2>8, PushedIsShown
  <2>11. Shows("stdout")
    <3> SUFFICES ASSUME out # <<>>, err = <<>>
                 PROVE  ShowsLine("stdout")
      BY <2>4 DEF Shows
    <3>1. out \o err = out /\ tail' = PushNormalized(tail, out)
      BY <1>4, <2>9
    <3> QED
      BY <1>0, <2>3, <2>4, <3>1, PushedIsShown
  <2> QED
    BY <2>7, <2>10, <2>11 DEF StreamSource
<1> QED
  BY <1>2, <1>3, <1>4

LEMMA StepShows ==
    ASSUME Passing, Framing, Tailed, [Next]_vars
    PROVE  Tailed' /\ \A z \in StreamSource : Shows(z)
<1>0. \A z \in StreamSource : lines[z] \in Seq(Line)
  BY DEF Framing
<1>1. CASE UNCHANGED <<lines, tail>>
  <2>1. \A z \in StreamSource : NewLines(z) = <<>>
    BY <1>0, <1>1, NothingJoined DEF NewLines
  <2> QED
    BY <1>1, <2>1 DEF Shows, Tailed
<1>2. ASSUME NEW s \in StreamSource, TakeChunk(s)
      PROVE  Tailed' /\ \A z \in StreamSource : Shows(z)
  BY <1>2, TakeChunkShows
<1>3. ASSUME NEW s \in StreamSource, TakeDone(s)
      PROVE  Tailed' /\ \A z \in StreamSource : Shows(z)
  BY <1>3, TakeDoneShows
<1>4. CASE DrainDeadline
  BY <1>4, DrainDeadlineShows
<1>5. CASE NextAttempt
  <2>1. lines' = Fresh /\ tail' = <<>>
    BY <1>5 DEF NextAttempt
  <2>2. \A z \in StreamSource : lines'[z] = <<>>
    BY <2>1 DEF Fresh
  <2>3. \A z \in StreamSource : NewLines(z) = <<>>
    BY <1>0, <2>2, NothingJoined DEF NewLines
  <2>4. Tailed'
    BY <2>1, EmptySeq DEF Tailed
  <2> QED
    BY <2>3, <2>4 DEF Shows
<1>6. ASSUME NEW s \in StreamSource,
             (\E b \in Byte : ChildWrites(s, b)) \/ PipeCloses(s) \/ PumpChunk(s) \/ PumpEnds(s)
               \/ PumpFails(s) \/ TakeError(s)
      PROVE  UNCHANGED <<lines, tail>>
  BY <1>6 DEF ChildWrites, PipeCloses, PumpChunk, PumpEnds, PumpFails, TakeError, loop
<1>7. CASE ChildExits \/ ObserveExit \/ Waited \/ Stop \/ WaitFails \/ UNCHANGED vars
  BY <1>1, <1>7 DEF ChildExits, ObserveExit, Waited, Stop, WaitFails, vars, loop
<1> QED
  BY <1>1, <1>2, <1>3, <1>4, <1>5, <1>6, <1>7 DEF Next, Over

\* PreviewShowsNewest, for any limits of the tail with room for two texts, any length of a
\* line and any widths of the letters: as soon as lines are written to the log, the newest
\* stands at the end of the tail, if it fits with its end of line, and the tail keeps its
\* two limits; the preview shows all its words exactly if the whole tail fits in a snippet.
THEOREM PreviewIsNewest == Spec => PreviewShowsNewest
<1>1. Init => Tailed
  BY EmptySeq DEF Init, Tailed
<1>2. Passing /\ Framing /\ Tailed /\ [Next]_vars => Tailed'
  BY StepShows
<1>3. Passing /\ Framing /\ Tailed /\ [Next]_vars
        => [\A s \in StreamSource :
              NewLines(s) # <<>> /\ (s = "stdout" => NewLines("stderr") = <<>>) =>
                LET newest == Last(NewLines(s))
                    text == newest.bytes \o (IF newest.continuation THEN <<>> ELSE <<LF>>)
                    all == Flat(tail')
                    words == {i \in DOMAIN all :
                                i > Len(all) - Len(text) /\ ~IsBlank(all[i])}
                IN /\ TailFits(tail')
                   /\ Width(text) <= TailBytes =>
                        /\ IsSuffix(text, all)
                        /\ words # {} =>
                             (words \subseteq Preview(tail')
                                <=> Cardinality(Squeezed(all)) <= SnippetChars)]_vars
  <2> SUFFICES ASSUME Passing, Framing, Tailed, [Next]_vars
               PROVE  \A s \in StreamSource : Shows(s)
    BY DEF Shows, ShowsLine
  <2> QED
    BY StepShows
<1> QED
  BY <1>1, <1>2, <1>3, PassingAlways, FramingAlways, PTL DEF Spec, PreviewShowsNewest

-----------------------------------------------------------------------------
(* Pushing at once and one by one *)

LEMMA SuffixOfSuffix ==
    ASSUME NEW E, NEW c \in Seq(E), NEW d \in Seq(E), NEW k \in Suffixes(c),
           NEW r \in Suffixes(k \o d)
    PROVE  r \in Suffixes(c \o d)
<1>1. k \in Seq(E)
  BY SuffixIsEnd
<1>2. PICK p \in Seq(E) : c = p \o k
  BY SuffixIsEnd, ZenonT(30)
<1>3. k \o d \in Seq(E)
  BY <1>1, ConcatProperties
<1>4. r \in Seq(E)
  BY <1>3, SuffixIsEnd
<1>5. PICK q \in Seq(E) : k \o d = q \o r
  BY <1>3, SuffixIsEnd
<1>6. c \o d = p \o (k \o d)
  BY <1>1, <1>2, Regroup, SMTT(30)
<1>7. p \o q \in Seq(E)
  BY ConcatProperties
<1>e. p \o (q \o r) = (p \o q) \o r
  BY <1>4, Regroup, SMTT(30)
<1>8. c \o d = (p \o q) \o r
  BY <1>5, <1>6, <1>e
<1> QED
  BY <1>4, <1>7, <1>8, EndIsSuffix

LEMMA ShortSuffix ==
    ASSUME NEW E, NEW t \in Seq(E), NEW d \in Suffixes(t), NEW r \in Suffixes(t),
           Len(r) <= Len(d), NEW k \in Seq(E)
    PROVE  r \in Suffixes(k \o d)
<1>1. r \in Seq(E) /\ d \in Seq(E)
  BY SuffixIsEnd
<1>2. PICK u \in Seq(E) : d = u \o r
  BY SuffixesNest
<1>3. k \o u \in Seq(E)
  BY ConcatProperties
<1>4. k \o (u \o r) = (k \o u) \o r
  BY <1>1, Regroup, SMTT(30)
<1>5. k \o d = (k \o u) \o r
  BY <1>2, <1>4
<1> QED
  BY <1>1, <1>3, <1>5, EndIsSuffix

LEMMA SameFront ==
    ASSUME NEW E, NEW t, NEW b \in Seq(E), NEW c \in Seq(E), NEW d \in Seq(E),
           t = b \o d, t = c \o d
    PROVE  b = c
<1>1. Len(b) \in Nat /\ Len(c) \in Nat /\ Len(d) \in Nat
  BY LenProperties
<1>2. Len(t) = Len(b) + Len(d) /\ \A i \in 1 .. Len(b) : t[i] = b[i]
  <2>1. /\ Len(b \o d) = Len(b) + Len(d)
        /\ \A i \in 1 .. Len(b) + Len(d) : (b \o d)[i] =
             IF i <= Len(b) THEN b[i] ELSE d[i - Len(b)]
    BY ConcatProperties
  <2> QED
    BY <1>1, <2>1
<1>3. Len(t) = Len(c) + Len(d) /\ \A i \in 1 .. Len(c) : t[i] = c[i]
  <2>1. /\ Len(c \o d) = Len(c) + Len(d)
        /\ \A i \in 1 .. Len(c) + Len(d) : (c \o d)[i] =
             IF i <= Len(c) THEN c[i] ELSE d[i - Len(c)]
    BY ConcatProperties
  <2> QED
    BY <1>1, <2>1
<1>4. Len(b) = Len(c)
  BY <1>1, <1>2, <1>3
<1>5. \A i \in 1 .. Len(b) : b[i] = c[i]
  BY <1>2, <1>3, <1>4
<1> QED
  BY <1>4, <1>5, SeqEqual

\* Named, so that the provers do not take the equation apart.
Joined(t, c, d) == t = c \o d

LEMMA LongSuffix ==
    ASSUME NEW E, NEW c, NEW d, NEW t, NEW r, c \in Seq(E), d \in Seq(E), t \in Seq(E),
           Joined(t, c, d), r \in Suffixes(t), Len(d) <= Len(r)
    PROVE  \E u \in Suffixes(c) : Joined(r, u, d)
<1>0. t = c \o d
  BY DEF Joined
<1>1. d \in Suffixes(t)
  BY <1>0, EndIsSuffix
<1>2. r \in Seq(E)
  BY SuffixIsEnd
<1>3. PICK u \in Seq(E) : r = u \o d
  BY <1>1, SuffixesNest
<1>4. PICK q \in Seq(E) : t = q \o r
  BY SuffixIsEnd, ZenonT(30)
<1> DEFINE b == q \o u
<1>5. b \in Seq(E) /\ t = b \o d
  <2>1. q \o (u \o d) = (q \o u) \o d
    BY Regroup, SMTT(30)
  <2> QED
    BY <1>3, <1>4, <2>1, ConcatProperties
<1>6. c = b
  <2> HIDE DEF b
  <2> QED
    BY <1>0, <1>5, SameFront
<1>7. u \in Suffixes(c)
  BY <1>6, EndIsSuffix
<1> QED
  BY <1>3, <1>7 DEF Joined

LEMMA SuffixesJoined ==
    ASSUME NEW E, NEW c \in Seq(E), NEW d \in Seq(E), NEW k \in Suffixes(c),
           NEW u \in Suffixes(c), Len(u) <= Len(k)
    PROVE  u \o d \in Suffixes(k \o d)
<1>1. k \in Seq(E) /\ u \in Seq(E)
  BY SuffixIsEnd
<1>2. PICK v \in Seq(E) : k = v \o u
  BY SuffixesNest
<1>3. u \o d \in Seq(E)
  BY <1>1, ConcatProperties
<1>4. (v \o u) \o d = v \o (u \o d)
  BY <1>1, Regroup, SMTT(30)
<1>5. k \o d = v \o (u \o d)
  BY <1>2, <1>4
<1> QED
  BY <1>3, <1>5, EndIsSuffix

LEMMA SameSuffix ==
    ASSUME NEW E, NEW t \in Seq(E), NEW r \in Suffixes(t), NEW s \in Suffixes(t),
           Len(r) = Len(s)
    PROVE  r = s
<1>1. r \in Seq(E) /\ s \in Seq(E)
  BY SuffixIsEnd
<1>2. Len(r) \in Nat /\ Len(s) \in Nat /\ Len(s) <= Len(r)
  BY <1>1, LenProperties
<1>3. PICK u \in Seq(E) : r = u \o s
  BY <1>2, SuffixesNest
<1>4. Len(r) = Len(u) + Len(s) /\ Len(u) \in Nat
  BY <1>1, <1>3, ConcatProperties, LenProperties
<1>5. Len(u) = 0
  BY <1>2, <1>4
<1>6. u = <<>>
  BY <1>5, EmptySeq
<1> QED
  BY <1>1, <1>3, <1>6, ConcatEmptySeq

\* The tail that is left when texts are pushed one after the other, each followed by the
\* removal of what is too much, is the one left when they are pushed together
\* (OutputTail::push is called for each text, PushNormalized once for all).
THEOREM PushedOneByOne ==
    ASSUME NEW c \in Seq(Seq(Byte)), NEW d \in Seq(Seq(Byte))
    PROVE  KeptOf(KeptOf(c) \o d) = KeptOf(c \o d)
<1> DEFINE k == KeptOf(c)
           all == c \o d
           atOnce == KeptOf(all)
           byOne == KeptOf(k \o d)
<1>1. k \in Suffixes(c) /\ \A r \in Suffixes(c) : TailFits(r) => Len(r) <= Len(k)
  BY KeptIsLongest
<1> HIDE DEF k
<1>2. k \in Seq(Seq(Byte))
  BY <1>1, SuffixIsEnd
<1>3. all \in Seq(Seq(Byte)) /\ k \o d \in Seq(Seq(Byte))
  BY <1>2, ConcatProperties
<1>a. all = c \o d /\ d \in Suffixes(all)
  BY EndIsSuffix
<1>b. byOne \in Suffixes(k \o d) => byOne \in Suffixes(all)
  BY <1>1, SuffixOfSuffix
<1> HIDE DEF all
<1>4. /\ atOnce \in Suffixes(all) /\ TailFits(atOnce)
      /\ \A r \in Suffixes(all) : TailFits(r) => Len(r) <= Len(atOnce)
  BY <1>3, KeptIsLongest
<1>5. /\ byOne \in Suffixes(k \o d) /\ TailFits(byOne)
      /\ \A r \in Suffixes(k \o d) : TailFits(r) => Len(r) <= Len(byOne)
  BY <1>3, KeptIsLongest
<1> HIDE DEF atOnce, byOne
<1>6. byOne \in Suffixes(all) /\ Len(byOne) <= Len(atOnce)
  BY <1>4, <1>5, <1>b
<1>7. Len(atOnce) \in Nat /\ Len(byOne) \in Nat /\ Len(d) \in Nat
  <2>1. atOnce \in Seq(Seq(Byte)) /\ byOne \in Seq(Seq(Byte))
    BY <1>3, <1>4, <1>5, SuffixIsEnd
  <2> QED
    BY <2>1, LenProperties
<1>8. atOnce \in Suffixes(k \o d)
  <2>1. CASE Len(atOnce) <= Len(d)
    BY <1>2, <1>3, <1>4, <1>a, <2>1, ShortSuffix
  <2>2. CASE ~(Len(atOnce) <= Len(d))
    <3>1. Len(d) <= Len(atOnce)
      BY <1>7, <2>2
    <3>2. PICK u \in Suffixes(c) : atOnce = u \o d
      <4> DEFINE Text == Seq(Byte)
      <4>1. c \in Seq(Text) /\ d \in Seq(Text) /\ all \in Seq(Text)
        BY <1>3
      <4> HIDE DEF Text
      <4>2. Joined(all, c, d)
        BY <1>a DEF Joined
      <4>3. \E u \in Suffixes(c) : Joined(atOnce, u, d)
        BY <1>4, <3>1, <4>1, <4>2, LongSuffix
      <4> QED
        BY <4>3 DEF Joined
    <3>6. u \in Seq(Seq(Byte))
      BY SuffixIsEnd
    <3>3. TailFits(u)
      <4>1. Flat(atOnce) = Flat(u) \o Flat(d)
        BY <3>2, <3>6, FlatConcat DEF Flat
      <4>2. Flat(u) \in Seq(Byte) /\ Flat(d) \in Seq(Byte)
        <5>1. <<>> \in Seq(Byte)
          BY EmptySeq
        <5> QED
          BY <3>6, <5>1, FlatAppend DEF Flat
      <4>3. Width(Flat(u)) <= Width(Flat(u) \o Flat(d))
        BY <4>2, WidthGrows
      <4>4. Width(Flat(u)) \in Nat /\ Width(Flat(u) \o Flat(d)) \in Nat
        BY <4>2, WidthIsNat, ConcatProperties
      <4>5. Len(atOnce) = Len(u) + Len(d) /\ Len(u) \in Nat
        BY <3>2, <3>6, ConcatProperties, LenProperties
      <4>6. Width(Flat(u) \o Flat(d)) <= TailBytes /\ Len(atOnce) <= TailChunks
        BY <1>4, <4>1 DEF TailFits
      <4>7. TailBytes \in Nat /\ TailChunks \in Nat
        BY OutputConstants
      <4>8. Width(Flat(u)) <= TailBytes
        BY <4>3, <4>4, <4>6, <4>7
      <4>9. Len(u) <= TailChunks
        BY <1>7, <4>5, <4>6, <4>7
      <4> QED
        BY <4>8, <4>9 DEF TailFits
    <3>4. Len(u) <= Len(k)
      BY <1>1, <3>3
    <3>5. u \o d \in Suffixes(k \o d)
      BY <1>1, <3>4, SuffixesJoined
    <3> QED
      BY <3>2, <3>5
  <2> QED
    BY <2>1, <2>2
<1>9. Len(atOnce) = Len(byOne)
  <2>1. Len(atOnce) <= Len(byOne)
    BY <1>4, <1>5, <1>8
  <2> QED
    BY <1>6, <1>7, <2>1
<1>10. atOnce = byOne
  BY <1>3, <1>4, <1>6, <1>9, SameSuffix
<1> QED
  BY <1>10 DEF atOnce, byOne, k, all
=============================================================================
