-------------------------- MODULE SendTrackerProofs --------------------------
(***************************************************************************)
(* The outcomes EspNowProbeTracker reports are those of the frames they    *)
(* are reported for, for every range of the numbers, number of peers and   *)
(* first number.  The counts wrap.  The argument is about the places of    *)
(* the numbers, counted from the first send: TrackerAssumption bounds the  *)
(* frames of a behaviour by half of the numbers, so places do not wrap.    *)
(***************************************************************************)
EXTENDS SendTracker, SequenceTheorems, ClockLemmas

\* How many frames can be sent, and the place of a number among them.
MaxFrames == Peers * MaxSends
Place(n) == (n - FirstSend) % SeqSize
TrackPlace(n) == (n - FirstSend) % TrackSize

LEMMA ConstantFacts ==
  /\ SeqSize \in Nat \ {0} /\ TrackSize \in Nat \ {0}
  /\ MaxFrames \in Nat \ {0} /\ Peers \in Nat \ {0} /\ MaxSends \in Nat \ {0}
  /\ LostAfter \in Nat \ {0} /\ MaxLost \in Nat
  /\ FirstSend \in Numbers
  /\ OpenSpan \in Nat /\ SeqSize = 2 * OpenSpan + 2
  /\ MaxFrames <= OpenSpan /\ MaxFrames < TrackSize
  /\ Numbers \subseteq Nat
<1>1. /\ SeqSize \in Nat \ {0} /\ TrackSize \in Nat \ {0} /\ SeqSize % 2 = 0
      /\ Peers \in Nat \ {0} /\ MaxSends \in Nat \ {0}
      /\ LostAfter \in Nat \ {0} /\ MaxLost \in Nat
      /\ FirstSend \in 0 .. SeqSize - 1
      /\ SeqSize > 2 * Peers * MaxSends /\ TrackSize > Peers * MaxSends
  BY TrackerAssumption
<1>2. SeqSize = 2 * (SeqSize \div 2) /\ SeqSize \div 2 \in Int
  <2>1. 2 \in Nat \ {0} /\ SeqSize \in Int
    BY <1>1
  <2>2. SeqSize = 2 * (SeqSize \div 2) + (SeqSize % 2) /\ SeqSize \div 2 \in Int
    BY <2>1, DivMod
  <2> QED
    BY <1>1, <2>2
<1>3. Peers * MaxSends \in Nat \ {0} /\ 2 * Peers * MaxSends = 2 * (Peers * MaxSends)
  BY <1>1
<1> DEFINE m == Peers * MaxSends
           h == SeqSize \div 2
<1>4. m \in Nat \ {0} /\ h \in Int /\ SeqSize = 2 * h /\ SeqSize > 2 * m /\ TrackSize > m
  BY <1>1, <1>2, <1>3
<1>5. OpenSpan = h - 1 /\ MaxFrames = m
  BY DEF OpenSpan, MaxFrames
<1> HIDE DEF m, h
<1>6. /\ MaxFrames \in Nat \ {0} /\ OpenSpan \in Nat /\ SeqSize = 2 * OpenSpan + 2
      /\ MaxFrames <= OpenSpan /\ MaxFrames < TrackSize
  BY <1>4, <1>5, <1>1
<1> QED
  BY <1>1, <1>6 DEF Numbers

LEMMA PlaceRange ==
  ASSUME NEW n \in Int
  PROVE  Place(n) \in 0 .. SeqSize - 1
<1>1. n - FirstSend \in Int
  BY ConstantFacts DEF Numbers
<1> QED
  BY <1>1, ConstantFacts, DivMod DEF Place

LEMMA PlaceNat ==
  ASSUME NEW n \in Int
  PROVE  Place(n) \in Nat /\ Place(n) < SeqSize
<1>1. SeqSize \in Nat /\ Place(n) \in 0 .. SeqSize - 1
  BY PlaceRange, ConstantFacts
<1> QED
  BY <1>1

LEMMA PlaceFirst == Place(FirstSend) = 0
<1>1. FirstSend - FirstSend = 0 /\ 0 \in 0 .. SeqSize - 1
  BY ConstantFacts DEF Numbers
<1> QED
  BY <1>1, ConstantFacts, ModSmall DEF Place

\* A number moved on, or back, has its place moved as much, short of a wrap.
LEMMA PlacePlus ==
  ASSUME NEW n \in Int, NEW d \in Int, Place(n) + d \in 0 .. SeqSize - 1
  PROVE  Place(Plus(n, d)) = Place(n) + d /\ Plus(n, d) \in Numbers
<1> DEFINE j == (n - FirstSend) \div SeqSize
           x == (n - FirstSend) % SeqSize
           k == (n + d) \div SeqSize
           y == (n + d) % SeqSize
<1>1. SeqSize \in Nat \ {0} /\ FirstSend \in Int /\ n - FirstSend \in Int
  BY ConstantFacts DEF Numbers
<1>2. j \in Int /\ x \in 0 .. SeqSize - 1 /\ n - FirstSend = SeqSize * j + x
  BY <1>1, DivMod
<1>3. k \in Int /\ y \in 0 .. SeqSize - 1 /\ n + d = SeqSize * k + y
  BY <1>1, DivMod
<1>4. x + d \in 0 .. SeqSize - 1 /\ Place(n) = x /\ Plus(n, d) = y
  BY DEF Place, Plus
<1> HIDE DEF j, x, k, y
<1>5. SeqSize * (j - k) = SeqSize * j - SeqSize * k
  BY <1>1, <1>2, <1>3
<1>6. SeqSize * j \in Int /\ SeqSize * k \in Int /\ j - k \in Int /\ y - FirstSend \in Int
  BY <1>1, <1>2, <1>3
<1>7. y - FirstSend = SeqSize * (j - k) + (x + d)
  BY <1>1, <1>2, <1>3, <1>5, <1>6
<1>8. (y - FirstSend) % SeqSize = x + d
  BY <1>1, <1>4, <1>6, <1>7, ModUnique
<1> QED
  BY <1>3, <1>4, <1>8 DEF Place, Numbers

\* A difference of numbers is one of places.
LEMMA PlaceDifference ==
  ASSUME NEW a \in Int, NEW b \in Int
  PROVE  (a - b) % SeqSize = (Place(a) - Place(b)) % SeqSize
<1> DEFINE j == (a - FirstSend) \div SeqSize
           k == (b - FirstSend) \div SeqSize
           x == (a - FirstSend) % SeqSize
           y == (b - FirstSend) % SeqSize
<1>1. SeqSize \in Nat \ {0} /\ FirstSend \in Int /\ a - FirstSend \in Int /\ b - FirstSend \in Int
  BY ConstantFacts DEF Numbers
<1>2. j \in Int /\ x \in 0 .. SeqSize - 1 /\ a - FirstSend = SeqSize * j + x
  BY <1>1, DivMod
<1>3. k \in Int /\ y \in 0 .. SeqSize - 1 /\ b - FirstSend = SeqSize * k + y
  BY <1>1, DivMod
<1>4. Place(a) = x /\ Place(b) = y
  BY DEF Place
<1> HIDE DEF j, k, x, y
<1>5. SeqSize * (j - k) = SeqSize * j - SeqSize * k
  BY <1>1, <1>2, <1>3
<1>6. SeqSize * j \in Int /\ SeqSize * k \in Int /\ j - k \in Int /\ x - y \in Int
  BY <1>1, <1>2, <1>3
<1>7. a - b = (x - y) + SeqSize * (j - k)
  BY <1>1, <1>2, <1>3, <1>5, <1>6
<1>8. ((x - y) + SeqSize * (j - k)) % SeqSize = (x - y) % SeqSize
  BY <1>1, <1>6, ModShift
<1> QED
  BY <1>4, <1>7, <1>8

\* The remainder of a difference of places.
LEMMA Remainder ==
  ASSUME NEW d \in Int, d < SeqSize, d >= -SeqSize
  PROVE  d % SeqSize = IF d >= 0 THEN d ELSE d + SeqSize
<1>1. SeqSize \in Nat \ {0}
  BY ConstantFacts
<1>2. CASE d >= 0
  BY <1>1, <1>2, ModSmall
<1>3. CASE d < 0
  <2>1. d = SeqSize * (-1) + (d + SeqSize) /\ d + SeqSize \in 0 .. SeqSize - 1
    BY <1>1, <1>3
  <2>2. d % SeqSize = d + SeqSize
    BY <1>1, <2>1, ModUnique
  <2> QED
    BY <1>3, <2>2
<1> QED
  BY <1>2, <1>3

LEMMA PlaceOfOne ==
  ASSUME NEW a \in Numbers, NEW b \in Numbers, Place(a) = Place(b)
  PROVE  a = b
<1>1. a \in Int /\ b \in Int /\ a - b \in Int /\ a - b < SeqSize /\ a - b >= -SeqSize
  BY ConstantFacts DEF Numbers
<1>2. Place(a) - Place(b) = 0
  BY <1>1, PlaceRange
<1>3. (a - b) % SeqSize = 0
  <2>1. 0 % SeqSize = 0
    BY ConstantFacts, ModSmall
  <2> QED
    BY <1>1, <1>2, <2>1, PlaceDifference
<1>4. (a - b) % SeqSize = IF a - b >= 0 THEN a - b ELSE a - b + SeqSize
  BY <1>1, Remainder
<1> QED
  BY <1>1, <1>3, <1>4, ConstantFacts DEF Numbers

\* Close numbers are compared as their places are.
LEMMA AheadPlaces ==
  ASSUME NEW a \in Int, NEW b \in Int,
         Place(a) - Place(b) <= OpenSpan, Place(b) - Place(a) <= OpenSpan
  PROVE  Ahead(a, b) <=> Place(a) > Place(b)
<1> DEFINE d == Place(a) - Place(b)
<1>1. d \in Int /\ d <= OpenSpan /\ d >= -OpenSpan /\ (d > 0 <=> Place(a) > Place(b))
  BY PlaceRange, ConstantFacts
<1>2. OpenSpan \in Nat /\ SeqSize = 2 * OpenSpan + 2
  BY ConstantFacts
<1>3. (a - b) % SeqSize = d % SeqSize
  BY PlaceDifference
<1> HIDE DEF d
<1>4. d % SeqSize = IF d >= 0 THEN d ELSE d + SeqSize
  BY <1>1, <1>2, Remainder
<1> QED
  BY <1>1, <1>2, <1>3, <1>4 DEF Ahead

\* Where a number stands to a range that begins close to it.
LEMMA SpanPlaces ==
  ASSUME NEW n \in Int, NEW from \in Int, NEW to \in Int,
         Place(from) <= Place(to), Place(to) - Place(from) <= OpenSpan,
         Place(from) - Place(n) <= OpenSpan + 1
  PROVE  ((n - from) % SeqSize <= (to - from) % SeqSize)
           <=> (Place(from) <= Place(n) /\ Place(n) <= Place(to))
<1> DEFINE d == Place(n) - Place(from)
           e == Place(to) - Place(from)
<1>1. /\ Place(n) \in 0 .. SeqSize - 1 /\ Place(from) \in 0 .. SeqSize - 1
      /\ Place(to) \in 0 .. SeqSize - 1
  BY PlaceRange
<1>2. OpenSpan \in Nat /\ SeqSize = 2 * OpenSpan + 2 /\ SeqSize \in Nat
  BY ConstantFacts
<1>3. (n - from) % SeqSize = d % SeqSize /\ (to - from) % SeqSize = e % SeqSize
  BY PlaceDifference
<1>4. /\ d \in Int /\ e \in Int /\ e >= 0 /\ e <= OpenSpan
      /\ d < SeqSize /\ d >= -(OpenSpan + 1)
      /\ (d >= 0 <=> Place(from) <= Place(n))
      /\ (d <= e <=> Place(n) <= Place(to))
  BY <1>1, <1>2
<1> HIDE DEF d, e
<1>5. d % SeqSize = (IF d >= 0 THEN d ELSE d + SeqSize) /\ e % SeqSize = e
  <2>1. e < SeqSize /\ e >= -SeqSize /\ d >= -SeqSize
    BY <1>2, <1>4
  <2> QED
    BY <1>4, <2>1, Remainder
<1> QED
  BY <1>2, <1>3, <1>4, <1>5

\* The number in the tracked word is a shorter one of the same place.
LEMMA TrackPlaces ==
  ASSUME NEW n \in Numbers
  PROVE  /\ TrackPlace(n % TrackSize) = Place(n) % TrackSize
         /\ n % TrackSize \in 0 .. TrackSize - 1
         /\ Place(n) < TrackSize => TrackPlace(n % TrackSize) = Place(n)
<1> DEFINE q == SeqSize \div TrackSize
           j == (n - FirstSend) \div SeqSize
           x == (n - FirstSend) % SeqSize
           k == n \div TrackSize
           y == n % TrackSize
<1>1. /\ SeqSize \in Nat \ {0} /\ TrackSize \in Nat \ {0} /\ FirstSend \in Int /\ n \in Int
      /\ n - FirstSend \in Int
  BY ConstantFacts DEF Numbers
<1>2. q \in Int /\ SeqSize = TrackSize * q
  <2>1. SeqSize % TrackSize = 0 /\ SeqSize \in Int
    BY <1>1, TrackerAssumption
  <2>2. SeqSize = TrackSize * (SeqSize \div TrackSize) + (SeqSize % TrackSize)
        /\ SeqSize \div TrackSize \in Int
    BY <1>1, <2>1, DivMod
  <2> QED
    BY <1>1, <2>1, <2>2
<1>3. j \in Int /\ x \in 0 .. SeqSize - 1 /\ n - FirstSend = SeqSize * j + x
  BY <1>1, DivMod
<1>4. k \in Int /\ y \in 0 .. TrackSize - 1 /\ n = TrackSize * k + y
  BY <1>1, DivMod
<1>5. Place(n) = x /\ TrackPlace(n % TrackSize) = (y - FirstSend) % TrackSize
  BY DEF Place, TrackPlace
<1> HIDE DEF q, j, x, k, y
<1>6. SeqSize * j = TrackSize * (q * j)
  BY <1>1, <1>2, <1>3
<1>7. TrackSize * (q * j - k) = TrackSize * (q * j) - TrackSize * k /\ q * j \in Int
  BY <1>1, <1>2, <1>3, <1>4
<1>8. /\ TrackSize * (q * j) \in Int /\ TrackSize * k \in Int /\ q * j - k \in Int
      /\ y - FirstSend \in Int
  BY <1>1, <1>2, <1>3, <1>4
<1>9. y - FirstSend = TrackSize * (q * j - k) + x
  BY <1>1, <1>3, <1>4, <1>6, <1>7, <1>8
<1>10. (x + TrackSize * (q * j - k)) % TrackSize = x % TrackSize
  <2> DEFINE m == q * j - k
  <2>1. m \in Int /\ x \in Int
    BY <1>1, <1>3, <1>8
  <2> HIDE DEF m
  <2>2. (x + TrackSize * m) % TrackSize = x % TrackSize
    BY <1>1, <2>1, ModShift
  <2> QED
    BY <2>2 DEF m
<1>11. (y - FirstSend) % TrackSize = x % TrackSize
  BY <1>1, <1>3, <1>8, <1>9, <1>10
<1>12. x < TrackSize => x % TrackSize = x
  BY <1>1, <1>3, ModSmall
<1> QED
  BY <1>4, <1>5, <1>11, <1>12 DEF y

LEMMA TrackPlaceOfOne ==
  ASSUME NEW a \in 0 .. TrackSize - 1, NEW b \in 0 .. TrackSize - 1,
         TrackPlace(a) = TrackPlace(b)
  PROVE  a = b
<1> DEFINE j == (a - FirstSend) \div TrackSize
           k == (b - FirstSend) \div TrackSize
           x == (a - FirstSend) % TrackSize
           y == (b - FirstSend) % TrackSize
<1>1. /\ TrackSize \in Nat \ {0} /\ FirstSend \in Int /\ a \in Int /\ b \in Int
      /\ a - FirstSend \in Int /\ b - FirstSend \in Int
  BY ConstantFacts DEF Numbers
<1>2. j \in Int /\ x \in 0 .. TrackSize - 1 /\ a - FirstSend = TrackSize * j + x
  BY <1>1, DivMod
<1>3. k \in Int /\ y \in 0 .. TrackSize - 1 /\ b - FirstSend = TrackSize * k + y
  BY <1>1, DivMod
<1>4. x = y
  BY DEF TrackPlace
<1> HIDE DEF j, k, x, y
<1>5. TrackSize * (j - k) = TrackSize * j - TrackSize * k
  BY <1>1, <1>2, <1>3
<1>6. TrackSize * j \in Int /\ TrackSize * k \in Int /\ j - k \in Int
  BY <1>1, <1>2, <1>3
<1>7. a - b = TrackSize * (j - k) /\ a - b < TrackSize /\ b - a < TrackSize
  BY <1>1, <1>2, <1>3, <1>4, <1>5, <1>6
<1> DEFINE m == j - k
<1>8. m \in Int /\ a - b = TrackSize * m
  BY <1>6, <1>7
<1> HIDE DEF m
<1>9. CASE m >= 1
  BY <1>1, <1>7, <1>8, <1>9
<1>10. CASE m <= -1
  BY <1>1, <1>7, <1>8, <1>10
<1>11. CASE m = 0
  BY <1>1, <1>8, <1>11
<1> QED
  BY <1>8, <1>9, <1>10, <1>11

-----------------------------------------------------------------------------
(* The inductive invariant.  A place is that of a number counted from the  *)
(* first send, so the next send of the loop task has place Issued + 1.     *)
Issued == Place(issued)
Completed == Place(completed)
CalledBack == Place(cb.n)       \* of the frame whose callback is under way
First == Place(probe.first)
Last == Place(probe.last)
Stored == Place(probe.ack)
Waiting == TrackPlace(tracked.n)
InAir == Len(radio)
Uncounted == IF main.at = "count" THEN 1 ELSE 0
Called == cb.at # "rest"
Reporting == cb.at \in {"pending", "range", "ack"}

\* Where the loop task is in a send, and what that says of it.
ShapeOK ==
  /\ main.at = "rest" => main = AtRest
  /\ main.at \in {"range", "arm"} => main.kind = "probe" /\ main.left = Peers
  /\ main.at = "hand" => main.left >= 1
  /\ main.at = "hand" /\ main.kind # "probe" => main.left = 1 /\ ~main.got
  /\ main.at = "count" => main.left < Peers /\ main.got
  /\ main.at = "count" /\ main.kind # "probe" => main.left = 0
  /\ main.at = "end" => main.left = 0
  /\ Reporting => cb.ok

\* Frames that the sends begun have used up.
Budget == Peers * begun - main.left

\* The counts stay below the first wrap, whatever was lost or dropped.
CountsOK ==
  /\ Issued + Uncounted <= Budget
  /\ InAir <= Budget
  /\ Completed + InAir <= Issued + Uncounted + Budget
  /\ Called => CalledBack <= Issued + Uncounted + Budget
  /\ main.at = "end" /\ ~main.got => Issued < Budget

\* Aligned, without the wrap.
CountsTrue ==
  /\ Completed + InAir = Issued + Uncounted
  /\ Called => CalledBack <= Issued + Uncounted

-----------------------------------------------------------------------------
\* The type invariant by the variables it is about.
CountTypes == issued \in Numbers /\ completed \in Numbers /\ lag \in Off .. LostAfter
ProbeTypes == probe \in [pending : BOOLEAN, first : Numbers, last : Numbers, ack : Numbers]
WaitingTypes ==
  tracked \in [n : 0 .. (TrackSize - 1), state : {"Pending", "Delivered", "Failed"}]
                \union {None}
MainTypes ==
  main \in [at : {"rest", "range", "arm", "hand", "count", "end"}, kind : Kinds,
            left : 0 .. Peers, got : BOOLEAN]
CallbackTypes ==
  cb \in [at : {"rest", "pending", "range", "ack", "track"}, n : Numbers, ok : BOOLEAN]
AirTypes == radio \in Seq(Kinds)
BoundTypes == begun \in 0 .. MaxSends /\ lost \in 0 .. MaxLost
OutcomeTypes ==
  /\ acked \in BOOLEAN /\ fate \in {"Out", "Delivered", "Failed", "GivenUp"}
  /\ doubt \in [Doubts -> BOOLEAN]
Armed == probe.pending => main.at # "range" /\ main.at # "arm"

LEMMA TypesAre ==
  TrackerTypeOK <=> /\ CountTypes /\ ProbeTypes /\ WaitingTypes /\ MainTypes
                    /\ CallbackTypes /\ AirTypes /\ BoundTypes /\ OutcomeTypes /\ Armed
BY DEF TrackerTypeOK, CountTypes, ProbeTypes, WaitingTypes, MainTypes, CallbackTypes,
       AirTypes, BoundTypes, OutcomeTypes, Armed

LEMMA TypeFacts ==
  ASSUME TrackerTypeOK
  PROVE  /\ issued \in Numbers /\ completed \in Numbers
         /\ probe.pending \in BOOLEAN /\ probe.first \in Numbers /\ probe.last \in Numbers
         /\ probe.ack \in Numbers
         /\ probe = [pending |-> probe.pending, first |-> probe.first, last |-> probe.last,
                     ack |-> probe.ack]
         /\ main.at \in {"rest", "range", "arm", "hand", "count", "end"}
         /\ main.kind \in Kinds /\ main.left \in 0 .. Peers /\ main.got \in BOOLEAN
         /\ cb.at \in {"rest", "pending", "range", "ack", "track"}
         /\ cb.n \in Numbers /\ cb.ok \in BOOLEAN
         /\ radio \in Seq(Kinds) /\ Len(radio) \in Nat
         /\ begun \in 0 .. MaxSends
BY TypesAre DEF CountTypes, ProbeTypes, MainTypes, CallbackTypes, AirTypes, BoundTypes

LEMMA NumbersClosed ==
  ASSUME NEW n \in Int, NEW d \in Int
  PROVE  Plus(n, d) \in Numbers /\ n % TrackSize \in 0 .. TrackSize - 1
BY ConstantFacts, DivMod DEF Plus, Numbers

LEMMA SupersededIs ==
  ASSUME NEW kind \in Kinds, radio \in Seq(Kinds)
  PROVE  /\ Superseded(kind) \in Seq(Kinds) /\ Len(Superseded(kind)) = Len(radio)
         /\ \A k \in 1 .. Len(radio) :
              Superseded(kind)[k] = IF radio[k] = kind THEN "plain" ELSE radio[k]
<1>1. Superseded(kind) \in [1 .. Len(radio) -> Kinds] /\ Len(radio) \in Nat
  BY DEF Superseded, Kinds
<1>2. Superseded(kind) \in Seq(Kinds)
  BY <1>1
<1> QED
  BY <1>1, <1>2 DEF Superseded

TypeShape == TrackerTypeOK /\ ShapeOK

LEMMA InitTypeShape == Init => TypeShape
<1> SUFFICES ASSUME Init PROVE TypeShape
  OBVIOUS
<1>1. /\ FirstSend \in Numbers /\ 0 \in Numbers /\ 0 \in 0 .. Peers /\ 0 \in 0 .. MaxSends
      /\ 0 \in 0 .. MaxLost /\ Off \in Off .. LostAfter
  BY ConstantFacts DEF Numbers, Off
<1>2. CountTypes /\ WaitingTypes /\ OutcomeTypes
  BY <1>1 DEF Init, CountTypes, WaitingTypes, OutcomeTypes
<1>3. AirTypes /\ BoundTypes
  BY <1>1 DEF Init, AirTypes, BoundTypes
<1>4. ProbeTypes /\ Armed
  BY <1>1 DEF Init, ProbeTypes, Armed
<1>5. MainTypes
  BY <1>1 DEF Init, MainTypes, AtRest, Kinds
<1>6. CallbackTypes
  BY <1>1 DEF Init, CallbackTypes, NoCallback
<1>7. ShapeOK
  BY DEF Init, ShapeOK, AtRest, NoCallback, Reporting
<1> QED
  BY <1>2, <1>3, <1>4, <1>5, <1>6, <1>7, TypesAre DEF TypeShape

LEMMA SendPlainTyped ==
  ASSUME TypeShape, SendPlain
  PROVE  TypeShape'
<1>1. /\ CountTypes /\ ProbeTypes /\ WaitingTypes /\ MainTypes /\ CallbackTypes
      /\ AirTypes /\ BoundTypes /\ OutcomeTypes /\ Armed /\ ShapeOK
  BY TypesAre DEF TypeShape
<1>2. /\ issued \in Int /\ completed \in Int /\ probe.first \in Int /\ 1 + OpenSpan \in Int
      /\ Peers \in Nat \ {0} /\ LostAfter \in Nat /\ MaxSends \in Nat /\ MaxLost \in Nat
  BY <1>1, ConstantFacts DEF CountTypes, ProbeTypes, Numbers
<1>3. \A n, d \in Int : Plus(n, d) \in Numbers /\ n % TrackSize \in 0 .. TrackSize - 1
  BY NumbersClosed
<1>4. CountTypes'
  BY <1>1, <1>2, <1>3 DEF SendPlain, Begin, sending, history, CountTypes, Off
<1>5. ProbeTypes'
  BY <1>1, <1>2, <1>3 DEF SendPlain, Begin, sending, history, ProbeTypes, CallbackTypes, CountTypes
<1>6. WaitingTypes'
  BY <1>1, <1>2, <1>3 DEF SendPlain, Begin, sending, history, WaitingTypes, CallbackTypes, None
<1>7. MainTypes'
  BY <1>1, <1>2 DEF SendPlain, Begin, sending, history, MainTypes, AtRest, Kinds, ShapeOK
<1>8. CallbackTypes'
  BY <1>1, <1>2, <1>3 DEF SendPlain, Begin, sending, history, CallbackTypes, NoCallback
<1>9. AirTypes'
  BY <1>1 DEF SendPlain, Begin, sending, history, AirTypes
<1>10. BoundTypes'
  BY <1>1, <1>2 DEF SendPlain, Begin, sending, history, BoundTypes
<1>11. OutcomeTypes'
  BY <1>1 DEF SendPlain, Begin, sending, history, OutcomeTypes, Doubts
<1>12. Armed'
  BY <1>1 DEF SendPlain, Begin, sending, history, Armed, AtRest
<1>13. ShapeOK'
  BY <1>1, <1>2 DEF SendPlain, Begin, sending, history, ShapeOK, MainTypes, AtRest, NoCallback, Kinds, Reporting
<1> QED
  BY <1>4, <1>5, <1>6, <1>7, <1>8, <1>9, <1>10, <1>11, <1>12, <1>13
  DEF TypeShape, TrackerTypeOK, CountTypes, ProbeTypes, WaitingTypes, MainTypes, CallbackTypes,
      AirTypes, BoundTypes, OutcomeTypes, Armed

LEMMA SendTrackedTyped ==
  ASSUME TypeShape, SendTracked
  PROVE  TypeShape'
<1>1. /\ CountTypes /\ ProbeTypes /\ WaitingTypes /\ MainTypes /\ CallbackTypes
      /\ AirTypes /\ BoundTypes /\ OutcomeTypes /\ Armed /\ ShapeOK
  BY TypesAre DEF TypeShape
<1>2. /\ issued \in Int /\ completed \in Int /\ probe.first \in Int /\ 1 + OpenSpan \in Int
      /\ Peers \in Nat \ {0} /\ LostAfter \in Nat /\ MaxSends \in Nat /\ MaxLost \in Nat
  BY <1>1, ConstantFacts DEF CountTypes, ProbeTypes, Numbers
<1>3. \A n, d \in Int : Plus(n, d) \in Numbers /\ n % TrackSize \in 0 .. TrackSize - 1
  BY NumbersClosed
<1>4. CountTypes'
  BY <1>1, <1>2, <1>3 DEF SendTracked, Begin, Track, sending, history, CountTypes, Off
<1>5. ProbeTypes'
  BY <1>1, <1>2, <1>3 DEF SendTracked, Begin, Track, sending, history, ProbeTypes, CallbackTypes, CountTypes
<1>6. WaitingTypes'
  <2>1. Plus(issued, 1) \in Int
    BY <1>2, <1>3 DEF Numbers
  <2>2. Plus(issued, 1) % TrackSize \in 0 .. TrackSize - 1
    BY <1>3, <2>1
  <2> QED
    BY <2>2 DEF SendTracked, WaitingTypes, Track
<1>7. MainTypes'
  BY <1>1, <1>2 DEF SendTracked, Begin, Track, sending, history, MainTypes, AtRest, Kinds, ShapeOK
<1>8. CallbackTypes'
  BY <1>1, <1>2, <1>3 DEF SendTracked, Begin, Track, sending, history, CallbackTypes, NoCallback
<1>9. AirTypes'
  <2>1. radio \in Seq(Kinds) /\ "tracked" \in Kinds
    BY <1>1 DEF AirTypes, Kinds
  <2>2. Superseded("tracked") \in Seq(Kinds)
    BY <2>1, SupersededIs
  <2> QED
    BY <2>2 DEF SendTracked, AirTypes
<1>10. BoundTypes'
  BY <1>1, <1>2 DEF SendTracked, Begin, Track, sending, history, BoundTypes
<1>11. OutcomeTypes'
  BY <1>1 DEF SendTracked, Begin, Track, sending, history, OutcomeTypes, Doubts
<1>12. Armed'
  BY <1>1 DEF SendTracked, Begin, Track, sending, history, Armed, AtRest
<1>13. ShapeOK'
  BY <1>1, <1>2 DEF SendTracked, Begin, Track, sending, history, ShapeOK, MainTypes, AtRest, NoCallback, Kinds, Reporting
<1> QED
  BY <1>4, <1>5, <1>6, <1>7, <1>8, <1>9, <1>10, <1>11, <1>12, <1>13
  DEF TypeShape, TrackerTypeOK, CountTypes, ProbeTypes, WaitingTypes, MainTypes, CallbackTypes,
      AirTypes, BoundTypes, OutcomeTypes, Armed

LEMMA SendProbeTyped ==
  ASSUME TypeShape, SendProbe
  PROVE  TypeShape'
<1>1. /\ CountTypes /\ ProbeTypes /\ WaitingTypes /\ MainTypes /\ CallbackTypes
      /\ AirTypes /\ BoundTypes /\ OutcomeTypes /\ Armed /\ ShapeOK
  BY TypesAre DEF TypeShape
<1>2. /\ issued \in Int /\ completed \in Int /\ probe.first \in Int /\ 1 + OpenSpan \in Int
      /\ Peers \in Nat \ {0} /\ LostAfter \in Nat /\ MaxSends \in Nat /\ MaxLost \in Nat
  BY <1>1, ConstantFacts DEF CountTypes, ProbeTypes, Numbers
<1>3. \A n, d \in Int : Plus(n, d) \in Numbers /\ n % TrackSize \in 0 .. TrackSize - 1
  BY NumbersClosed
<1>4. CountTypes'
  BY <1>1, <1>2, <1>3 DEF SendProbe, Begin, sending, history, CountTypes, Off
<1>5. ProbeTypes'
  BY <1>1, <1>2, <1>3 DEF SendProbe, Begin, sending, history, ProbeTypes, CallbackTypes, CountTypes
<1>6. WaitingTypes'
  BY <1>1, <1>2, <1>3 DEF SendProbe, Begin, sending, history, WaitingTypes, CallbackTypes, None
<1>7. MainTypes'
  BY <1>1, <1>2 DEF SendProbe, Begin, sending, history, MainTypes, AtRest, Kinds, ShapeOK
<1>8. CallbackTypes'
  BY <1>1, <1>2, <1>3 DEF SendProbe, Begin, sending, history, CallbackTypes, NoCallback
<1>9. AirTypes'
  <2>1. radio \in Seq(Kinds) /\ "probe" \in Kinds
    BY <1>1 DEF AirTypes, Kinds
  <2>2. Superseded("probe") \in Seq(Kinds)
    BY <2>1, SupersededIs
  <2> QED
    BY <2>2 DEF SendProbe, AirTypes
<1>10. BoundTypes'
  BY <1>1, <1>2 DEF SendProbe, Begin, sending, history, BoundTypes
<1>11. OutcomeTypes'
  BY <1>1 DEF SendProbe, Begin, sending, history, OutcomeTypes, Doubts
<1>12. Armed'
  BY <1>1 DEF SendProbe, Begin, sending, history, Armed, AtRest
<1>13. ShapeOK'
  BY <1>1, <1>2 DEF SendProbe, Begin, sending, history, ShapeOK, MainTypes, AtRest, NoCallback, Kinds, Reporting
<1> QED
  BY <1>4, <1>5, <1>6, <1>7, <1>8, <1>9, <1>10, <1>11, <1>12, <1>13
  DEF TypeShape, TrackerTypeOK, CountTypes, ProbeTypes, WaitingTypes, MainTypes, CallbackTypes,
      AirTypes, BoundTypes, OutcomeTypes, Armed

LEMMA SetRangeTyped ==
  ASSUME TypeShape, SetRange
  PROVE  TypeShape'
<1>1. /\ CountTypes /\ ProbeTypes /\ WaitingTypes /\ MainTypes /\ CallbackTypes
      /\ AirTypes /\ BoundTypes /\ OutcomeTypes /\ Armed /\ ShapeOK
  BY TypesAre DEF TypeShape
<1>2. /\ issued \in Int /\ completed \in Int /\ probe.first \in Int /\ 1 + OpenSpan \in Int
      /\ Peers \in Nat \ {0} /\ LostAfter \in Nat /\ MaxSends \in Nat /\ MaxLost \in Nat
  BY <1>1, ConstantFacts DEF CountTypes, ProbeTypes, Numbers
<1>3. \A n, d \in Int : Plus(n, d) \in Numbers /\ n % TrackSize \in 0 .. TrackSize - 1
  BY NumbersClosed
<1>4. CountTypes'
  BY <1>1, <1>2, <1>3 DEF SetRange, sending, history, CountTypes, Off
<1>5. ProbeTypes'
  <2>1. Plus(issued, 1) \in Numbers /\ Plus(issued, 1 + OpenSpan) \in Numbers
    BY <1>2, <1>3
  <2> QED
    BY <1>1, <2>1 DEF SetRange, ProbeTypes
<1>6. WaitingTypes'
  BY <1>1, <1>2, <1>3 DEF SetRange, sending, history, WaitingTypes, CallbackTypes, None
<1>7. MainTypes'
  BY <1>1, <1>2 DEF SetRange, sending, history, MainTypes, AtRest, Kinds, ShapeOK
<1>8. CallbackTypes'
  BY <1>1, <1>2, <1>3 DEF SetRange, sending, history, CallbackTypes, NoCallback
<1>9. AirTypes'
  BY <1>1 DEF SetRange, sending, history, AirTypes
<1>10. BoundTypes'
  BY <1>1, <1>2 DEF SetRange, sending, history, BoundTypes
<1>11. OutcomeTypes'
  BY <1>1 DEF SetRange, sending, history, OutcomeTypes, Doubts
<1>12. Armed'
  BY <1>1 DEF SetRange, sending, history, Armed, AtRest
<1>13. ShapeOK'
  BY <1>1, <1>2 DEF SetRange, sending, history, ShapeOK, MainTypes, AtRest, NoCallback, Kinds, Reporting
<1> QED
  BY <1>4, <1>5, <1>6, <1>7, <1>8, <1>9, <1>10, <1>11, <1>12, <1>13
  DEF TypeShape, TrackerTypeOK, CountTypes, ProbeTypes, WaitingTypes, MainTypes, CallbackTypes,
      AirTypes, BoundTypes, OutcomeTypes, Armed

LEMMA ArmTyped ==
  ASSUME TypeShape, Arm
  PROVE  TypeShape'
<1>1. /\ CountTypes /\ ProbeTypes /\ WaitingTypes /\ MainTypes /\ CallbackTypes
      /\ AirTypes /\ BoundTypes /\ OutcomeTypes /\ Armed /\ ShapeOK
  BY TypesAre DEF TypeShape
<1>2. /\ issued \in Int /\ completed \in Int /\ probe.first \in Int /\ 1 + OpenSpan \in Int
      /\ Peers \in Nat \ {0} /\ LostAfter \in Nat /\ MaxSends \in Nat /\ MaxLost \in Nat
  BY <1>1, ConstantFacts DEF CountTypes, ProbeTypes, Numbers
<1>3. \A n, d \in Int : Plus(n, d) \in Numbers /\ n % TrackSize \in 0 .. TrackSize - 1
  BY NumbersClosed
<1>4. CountTypes'
  BY <1>1, <1>2, <1>3 DEF Arm, sending, history, CountTypes, Off
<1>5. ProbeTypes'
  <2>1. Plus(probe.first, -1) \in Numbers
    BY <1>2, <1>3
  <2> QED
    BY <1>1, <2>1 DEF Arm, ProbeTypes
<1>6. WaitingTypes'
  BY <1>1, <1>2, <1>3 DEF Arm, sending, history, WaitingTypes, CallbackTypes, None
<1>7. MainTypes'
  BY <1>1, <1>2 DEF Arm, sending, history, MainTypes, AtRest, Kinds, ShapeOK
<1>8. CallbackTypes'
  BY <1>1, <1>2, <1>3 DEF Arm, sending, history, CallbackTypes, NoCallback
<1>9. AirTypes'
  BY <1>1 DEF Arm, sending, history, AirTypes
<1>10. BoundTypes'
  BY <1>1, <1>2 DEF Arm, sending, history, BoundTypes
<1>11. OutcomeTypes'
  BY <1>1 DEF Arm, sending, history, OutcomeTypes, Doubts
<1>12. Armed'
  BY <1>1 DEF Arm, sending, history, Armed, AtRest
<1>13. ShapeOK'
  BY <1>1, <1>2 DEF Arm, sending, history, ShapeOK, MainTypes, AtRest, NoCallback, Kinds, Reporting
<1> QED
  BY <1>4, <1>5, <1>6, <1>7, <1>8, <1>9, <1>10, <1>11, <1>12, <1>13
  DEF TypeShape, TrackerTypeOK, CountTypes, ProbeTypes, WaitingTypes, MainTypes, CallbackTypes,
      AirTypes, BoundTypes, OutcomeTypes, Armed

LEMMA HandTyped ==
  ASSUME TypeShape, Hand
  PROVE  TypeShape'
<1>1. /\ CountTypes /\ ProbeTypes /\ WaitingTypes /\ MainTypes /\ CallbackTypes
      /\ AirTypes /\ BoundTypes /\ OutcomeTypes /\ Armed /\ ShapeOK
  BY TypesAre DEF TypeShape
<1>2. /\ issued \in Int /\ completed \in Int /\ probe.first \in Int /\ 1 + OpenSpan \in Int
      /\ Peers \in Nat \ {0} /\ LostAfter \in Nat /\ MaxSends \in Nat /\ MaxLost \in Nat
  BY <1>1, ConstantFacts DEF CountTypes, ProbeTypes, Numbers
<1>3. \A n, d \in Int : Plus(n, d) \in Numbers /\ n % TrackSize \in 0 .. TrackSize - 1
  BY NumbersClosed
<1>4. \/ /\ radio' = Append(radio, main.kind)
         /\ main' = [main EXCEPT !.at = "count", !.left = @ - 1, !.got = TRUE]
      \/ /\ main' = [main EXCEPT !.at = IF main.left = 1 THEN "end" ELSE "hand",
                                 !.left = @ - 1]
         /\ UNCHANGED radio
  BY DEF Hand
<1>5. main.at = "hand" /\ cb' = cb /\ probe' = probe
  BY DEF Hand
<1>6. CountTypes'
  BY <1>1, <1>2, <1>3 DEF Hand, sending, history, CountTypes, Off
<1>7. ProbeTypes'
  BY <1>1, <1>2, <1>3 DEF Hand, sending, history, ProbeTypes, CallbackTypes, CountTypes
<1>8. WaitingTypes'
  BY <1>1, <1>2, <1>3 DEF Hand, sending, history, WaitingTypes, CallbackTypes, None
<1>9. MainTypes'
  <2>1. main.left \in 1 .. Peers
    BY <1>1, <1>2, <1>5 DEF MainTypes, ShapeOK
  <2>2. main.left - 1 \in 0 .. Peers
    BY <1>2, <2>1
  <2> QED
    BY <1>1, <1>4, <2>2 DEF MainTypes
<1>10. CallbackTypes'
  BY <1>1, <1>2, <1>3 DEF Hand, sending, history, CallbackTypes, NoCallback
<1>11. AirTypes'
  <2>1. radio \in Seq(Kinds) /\ main.kind \in Kinds
    BY <1>1 DEF AirTypes, MainTypes
  <2>2. Append(radio, main.kind) \in Seq(Kinds)
    BY <2>1
  <2> QED
    BY <2>1, <2>2, <1>4 DEF AirTypes
<1>12. BoundTypes'
  BY <1>1, <1>2 DEF Hand, sending, history, BoundTypes
<1>13. OutcomeTypes'
  BY <1>1 DEF Hand, sending, history, OutcomeTypes, Doubts
<1>14. Armed'
  <2>1. main'.at \in {"count", "end", "hand"}
    BY <1>1, <1>4 DEF MainTypes
  <2> QED
    BY <2>1, <1>5 DEF Armed
<1>15. ShapeOK'
  <2>1. main.left \in 1 .. Peers /\ (main.kind # "probe" => main.left = 1 /\ ~main.got)
    BY <1>1, <1>2, <1>5 DEF MainTypes, ShapeOK
  <2>2. /\ main'.left = main.left - 1 /\ main'.kind = main.kind
        /\ \/ main'.at = "count" /\ main'.got = TRUE
           \/ main'.at = "end" /\ main.left = 1
           \/ main'.at = "hand" /\ main.left # 1 /\ main'.got = main.got
    BY <1>1, <1>4 DEF MainTypes
  <2>3. main'.at \in {"count", "end", "hand"}
    BY <2>2
  <2>4. main'.at = "hand" => main'.left >= 1
    BY <1>2, <2>1, <2>2
  <2>5. main'.at = "hand" => main'.kind = "probe"
    BY <2>1, <2>2
  <2>6. main'.at = "count" => main'.left < Peers /\ main'.got
    BY <1>2, <2>1, <2>2
  <2>7. main'.at = "count" /\ main'.kind # "probe" => main'.left = 0
    BY <1>2, <2>1, <2>2
  <2>8. main'.at = "end" => main'.left = 0
    BY <1>2, <2>1, <2>2
  <2>9. (Reporting => cb.ok)'
    BY <1>1, <1>5 DEF ShapeOK, Reporting
  <2> QED
    BY <2>3, <2>4, <2>5, <2>6, <2>7, <2>8, <2>9 DEF ShapeOK
<1> QED
  BY <1>6, <1>7, <1>8, <1>9, <1>10, <1>11, <1>12, <1>13, <1>14, <1>15
  DEF TypeShape, TrackerTypeOK, CountTypes, ProbeTypes, WaitingTypes, MainTypes, CallbackTypes,
      AirTypes, BoundTypes, OutcomeTypes, Armed

LEMMA CountTyped ==
  ASSUME TypeShape, Count
  PROVE  TypeShape'
<1>1. /\ CountTypes /\ ProbeTypes /\ WaitingTypes /\ MainTypes /\ CallbackTypes
      /\ AirTypes /\ BoundTypes /\ OutcomeTypes /\ Armed /\ ShapeOK
  BY TypesAre DEF TypeShape
<1>2. /\ issued \in Int /\ completed \in Int /\ probe.first \in Int /\ 1 + OpenSpan \in Int
      /\ Peers \in Nat \ {0} /\ LostAfter \in Nat /\ MaxSends \in Nat /\ MaxLost \in Nat
  BY <1>1, ConstantFacts DEF CountTypes, ProbeTypes, Numbers
<1>3. \A n, d \in Int : Plus(n, d) \in Numbers /\ n % TrackSize \in 0 .. TrackSize - 1
  BY NumbersClosed
<1>4. CountTypes'
  <2>1. issued' = Plus(issued, 1) /\ completed' = completed /\ lag' = lag
    BY DEF Count, history
  <2>2. Plus(issued, 1) \in Numbers
    BY <1>2, <1>3
  <2> QED
    BY <1>1, <2>1, <2>2 DEF CountTypes
<1>5. ProbeTypes'
  BY <1>1, <1>2, <1>3 DEF Count, sending, history, ProbeTypes, CallbackTypes, CountTypes
<1>6. WaitingTypes'
  BY <1>1, <1>2, <1>3 DEF Count, sending, history, WaitingTypes, CallbackTypes, None
<1>7. MainTypes'
  BY <1>1, <1>2 DEF Count, sending, history, MainTypes, AtRest, Kinds, ShapeOK
<1>8. CallbackTypes'
  BY <1>1, <1>2, <1>3 DEF Count, sending, history, CallbackTypes, NoCallback
<1>9. AirTypes'
  BY <1>1 DEF Count, sending, history, AirTypes
<1>10. BoundTypes'
  BY <1>1, <1>2 DEF Count, sending, history, BoundTypes
<1>11. OutcomeTypes'
  BY <1>1 DEF Count, sending, history, OutcomeTypes, Doubts
<1>12. Armed'
  BY <1>1 DEF Count, sending, history, Armed, AtRest
<1>13. ShapeOK'
  BY <1>1, <1>2 DEF Count, sending, history, ShapeOK, MainTypes, AtRest, NoCallback, Kinds, Reporting
<1> QED
  BY <1>4, <1>5, <1>6, <1>7, <1>8, <1>9, <1>10, <1>11, <1>12, <1>13
  DEF TypeShape, TrackerTypeOK, CountTypes, ProbeTypes, WaitingTypes, MainTypes, CallbackTypes,
      AirTypes, BoundTypes, OutcomeTypes, Armed

LEMMA EndProbeTyped ==
  ASSUME TypeShape, EndProbe
  PROVE  TypeShape'
<1>1. /\ CountTypes /\ ProbeTypes /\ WaitingTypes /\ MainTypes /\ CallbackTypes
      /\ AirTypes /\ BoundTypes /\ OutcomeTypes /\ Armed /\ ShapeOK
  BY TypesAre DEF TypeShape
<1>2. /\ issued \in Int /\ completed \in Int /\ probe.first \in Int /\ 1 + OpenSpan \in Int
      /\ Peers \in Nat \ {0} /\ LostAfter \in Nat /\ MaxSends \in Nat /\ MaxLost \in Nat
  BY <1>1, ConstantFacts DEF CountTypes, ProbeTypes, Numbers
<1>3. \A n, d \in Int : Plus(n, d) \in Numbers /\ n % TrackSize \in 0 .. TrackSize - 1
  BY NumbersClosed
<1>4. CountTypes'
  BY <1>1, <1>2, <1>3 DEF EndProbe, sending, history, CountTypes, Off
<1>5. ProbeTypes'
  BY <1>1, <1>2, <1>3 DEF EndProbe, sending, history, ProbeTypes, CallbackTypes, CountTypes
<1>6. WaitingTypes'
  BY <1>1, <1>2, <1>3 DEF EndProbe, sending, history, WaitingTypes, CallbackTypes, None
<1>7. MainTypes'
  BY <1>1, <1>2 DEF EndProbe, sending, history, MainTypes, AtRest, Kinds, ShapeOK
<1>8. CallbackTypes'
  BY <1>1, <1>2, <1>3 DEF EndProbe, sending, history, CallbackTypes, NoCallback
<1>9. AirTypes'
  BY <1>1 DEF EndProbe, sending, history, AirTypes
<1>10. BoundTypes'
  BY <1>1, <1>2 DEF EndProbe, sending, history, BoundTypes
<1>11. OutcomeTypes'
  BY <1>1 DEF EndProbe, sending, history, OutcomeTypes, Doubts
<1>12. Armed'
  BY <1>1 DEF EndProbe, sending, history, Armed, AtRest
<1>13. ShapeOK'
  BY <1>1, <1>2 DEF EndProbe, sending, history, ShapeOK, MainTypes, AtRest, NoCallback, Kinds, Reporting
<1> QED
  BY <1>4, <1>5, <1>6, <1>7, <1>8, <1>9, <1>10, <1>11, <1>12, <1>13
  DEF TypeShape, TrackerTypeOK, CountTypes, ProbeTypes, WaitingTypes, MainTypes, CallbackTypes,
      AirTypes, BoundTypes, OutcomeTypes, Armed

LEMMA EndTrackedTyped ==
  ASSUME TypeShape, EndTracked
  PROVE  TypeShape'
<1>1. /\ CountTypes /\ ProbeTypes /\ WaitingTypes /\ MainTypes /\ CallbackTypes
      /\ AirTypes /\ BoundTypes /\ OutcomeTypes /\ Armed /\ ShapeOK
  BY TypesAre DEF TypeShape
<1>2. /\ issued \in Int /\ completed \in Int /\ probe.first \in Int /\ 1 + OpenSpan \in Int
      /\ Peers \in Nat \ {0} /\ LostAfter \in Nat /\ MaxSends \in Nat /\ MaxLost \in Nat
  BY <1>1, ConstantFacts DEF CountTypes, ProbeTypes, Numbers
<1>3. \A n, d \in Int : Plus(n, d) \in Numbers /\ n % TrackSize \in 0 .. TrackSize - 1
  BY NumbersClosed
<1>4. CountTypes'
  BY <1>1, <1>2, <1>3 DEF EndTracked, sending, history, CountTypes, Off
<1>5. ProbeTypes'
  BY <1>1, <1>2, <1>3 DEF EndTracked, sending, history, ProbeTypes, CallbackTypes, CountTypes
<1>6. WaitingTypes'
  BY <1>1, <1>2, <1>3 DEF EndTracked, sending, history, WaitingTypes, CallbackTypes, None
<1>7. MainTypes'
  BY <1>1, <1>2 DEF EndTracked, sending, history, MainTypes, AtRest, Kinds, ShapeOK
<1>8. CallbackTypes'
  BY <1>1, <1>2, <1>3 DEF EndTracked, sending, history, CallbackTypes, NoCallback
<1>9. AirTypes'
  BY <1>1 DEF EndTracked, sending, history, AirTypes
<1>10. BoundTypes'
  BY <1>1, <1>2 DEF EndTracked, sending, history, BoundTypes
<1>11. OutcomeTypes'
  BY <1>1 DEF EndTracked, sending, history, OutcomeTypes, Doubts
<1>12. Armed'
  BY <1>1 DEF EndTracked, sending, history, Armed, AtRest
<1>13. ShapeOK'
  BY <1>1, <1>2 DEF EndTracked, sending, history, ShapeOK, MainTypes, AtRest, NoCallback, Kinds, Reporting
<1> QED
  BY <1>4, <1>5, <1>6, <1>7, <1>8, <1>9, <1>10, <1>11, <1>12, <1>13
  DEF TypeShape, TrackerTypeOK, CountTypes, ProbeTypes, WaitingTypes, MainTypes, CallbackTypes,
      AirTypes, BoundTypes, OutcomeTypes, Armed

LEMMA EndPlainTyped ==
  ASSUME TypeShape, EndPlain
  PROVE  TypeShape'
<1>1. /\ CountTypes /\ ProbeTypes /\ WaitingTypes /\ MainTypes /\ CallbackTypes
      /\ AirTypes /\ BoundTypes /\ OutcomeTypes /\ Armed /\ ShapeOK
  BY TypesAre DEF TypeShape
<1>2. /\ issued \in Int /\ completed \in Int /\ probe.first \in Int /\ 1 + OpenSpan \in Int
      /\ Peers \in Nat \ {0} /\ LostAfter \in Nat /\ MaxSends \in Nat /\ MaxLost \in Nat
  BY <1>1, ConstantFacts DEF CountTypes, ProbeTypes, Numbers
<1>3. \A n, d \in Int : Plus(n, d) \in Numbers /\ n % TrackSize \in 0 .. TrackSize - 1
  BY NumbersClosed
<1>4. CountTypes'
  BY <1>1, <1>2, <1>3 DEF EndPlain, sending, history, CountTypes, Off
<1>5. ProbeTypes'
  BY <1>1, <1>2, <1>3 DEF EndPlain, sending, history, ProbeTypes, CallbackTypes, CountTypes
<1>6. WaitingTypes'
  BY <1>1, <1>2, <1>3 DEF EndPlain, sending, history, WaitingTypes, CallbackTypes, None
<1>7. MainTypes'
  BY <1>1, <1>2 DEF EndPlain, sending, history, MainTypes, AtRest, Kinds, ShapeOK
<1>8. CallbackTypes'
  BY <1>1, <1>2, <1>3 DEF EndPlain, sending, history, CallbackTypes, NoCallback
<1>9. AirTypes'
  BY <1>1 DEF EndPlain, sending, history, AirTypes
<1>10. BoundTypes'
  BY <1>1, <1>2 DEF EndPlain, sending, history, BoundTypes
<1>11. OutcomeTypes'
  BY <1>1 DEF EndPlain, sending, history, OutcomeTypes, Doubts
<1>12. Armed'
  BY <1>1 DEF EndPlain, sending, history, Armed, AtRest
<1>13. ShapeOK'
  BY <1>1, <1>2 DEF EndPlain, sending, history, ShapeOK, MainTypes, AtRest, NoCallback, Kinds, Reporting
<1> QED
  BY <1>4, <1>5, <1>6, <1>7, <1>8, <1>9, <1>10, <1>11, <1>12, <1>13
  DEF TypeShape, TrackerTypeOK, CountTypes, ProbeTypes, WaitingTypes, MainTypes, CallbackTypes,
      AirTypes, BoundTypes, OutcomeTypes, Armed

LEMMA ClearProbeTyped ==
  ASSUME TypeShape, ClearProbe
  PROVE  TypeShape'
<1>1. /\ CountTypes /\ ProbeTypes /\ WaitingTypes /\ MainTypes /\ CallbackTypes
      /\ AirTypes /\ BoundTypes /\ OutcomeTypes /\ Armed /\ ShapeOK
  BY TypesAre DEF TypeShape
<1>2. /\ issued \in Int /\ completed \in Int /\ probe.first \in Int /\ 1 + OpenSpan \in Int
      /\ Peers \in Nat \ {0} /\ LostAfter \in Nat /\ MaxSends \in Nat /\ MaxLost \in Nat
  BY <1>1, ConstantFacts DEF CountTypes, ProbeTypes, Numbers
<1>3. \A n, d \in Int : Plus(n, d) \in Numbers /\ n % TrackSize \in 0 .. TrackSize - 1
  BY NumbersClosed
<1>4. CountTypes'
  BY <1>1, <1>2, <1>3 DEF ClearProbe, sending, history, CountTypes, Off
<1>5. ProbeTypes'
  BY <1>1, <1>2, <1>3 DEF ClearProbe, sending, history, ProbeTypes, CallbackTypes, CountTypes
<1>6. WaitingTypes'
  BY <1>1, <1>2, <1>3 DEF ClearProbe, sending, history, WaitingTypes, CallbackTypes, None
<1>7. MainTypes'
  BY <1>1, <1>2 DEF ClearProbe, sending, history, MainTypes, AtRest, Kinds, ShapeOK
<1>8. CallbackTypes'
  BY <1>1, <1>2, <1>3 DEF ClearProbe, sending, history, CallbackTypes, NoCallback
<1>9. AirTypes'
  BY <1>1 DEF ClearProbe, sending, history, AirTypes
<1>10. BoundTypes'
  BY <1>1, <1>2 DEF ClearProbe, sending, history, BoundTypes
<1>11. OutcomeTypes'
  BY <1>1 DEF ClearProbe, sending, history, OutcomeTypes, Doubts
<1>12. Armed'
  BY <1>1 DEF ClearProbe, sending, history, Armed, AtRest
<1>13. ShapeOK'
  BY <1>1, <1>2 DEF ClearProbe, sending, history, ShapeOK, MainTypes, AtRest, NoCallback, Kinds, Reporting
<1> QED
  BY <1>4, <1>5, <1>6, <1>7, <1>8, <1>9, <1>10, <1>11, <1>12, <1>13
  DEF TypeShape, TrackerTypeOK, CountTypes, ProbeTypes, WaitingTypes, MainTypes, CallbackTypes,
      AirTypes, BoundTypes, OutcomeTypes, Armed

LEMMA TakeTrackedTyped ==
  ASSUME TypeShape, TakeTracked
  PROVE  TypeShape'
<1>1. /\ CountTypes /\ ProbeTypes /\ WaitingTypes /\ MainTypes /\ CallbackTypes
      /\ AirTypes /\ BoundTypes /\ OutcomeTypes /\ Armed /\ ShapeOK
  BY TypesAre DEF TypeShape
<1>2. /\ issued \in Int /\ completed \in Int /\ probe.first \in Int /\ 1 + OpenSpan \in Int
      /\ Peers \in Nat \ {0} /\ LostAfter \in Nat /\ MaxSends \in Nat /\ MaxLost \in Nat
  BY <1>1, ConstantFacts DEF CountTypes, ProbeTypes, Numbers
<1>3. \A n, d \in Int : Plus(n, d) \in Numbers /\ n % TrackSize \in 0 .. TrackSize - 1
  BY NumbersClosed
<1>4. CountTypes'
  BY <1>1, <1>2, <1>3 DEF TakeTracked, Taken, sending, history, CountTypes, Off
<1>5. ProbeTypes'
  BY <1>1, <1>2, <1>3 DEF TakeTracked, Taken, sending, history, ProbeTypes, CallbackTypes, CountTypes
<1>6. WaitingTypes'
  BY <1>1, <1>2, <1>3 DEF TakeTracked, Taken, sending, history, WaitingTypes, CallbackTypes, None
<1>7. MainTypes'
  BY <1>1, <1>2 DEF TakeTracked, Taken, sending, history, MainTypes, AtRest, Kinds, ShapeOK
<1>8. CallbackTypes'
  BY <1>1, <1>2, <1>3 DEF TakeTracked, Taken, sending, history, CallbackTypes, NoCallback
<1>9. AirTypes'
  BY <1>1 DEF TakeTracked, Taken, sending, history, AirTypes
<1>10. BoundTypes'
  BY <1>1, <1>2 DEF TakeTracked, Taken, sending, history, BoundTypes
<1>11. OutcomeTypes'
  BY <1>1 DEF TakeTracked, Taken, sending, history, OutcomeTypes, Doubts
<1>12. Armed'
  BY <1>1 DEF TakeTracked, Taken, sending, history, Armed, AtRest
<1>13. ShapeOK'
  BY <1>1, <1>2 DEF TakeTracked, Taken, sending, history, ShapeOK, MainTypes, AtRest, NoCallback, Kinds, Reporting
<1> QED
  BY <1>4, <1>5, <1>6, <1>7, <1>8, <1>9, <1>10, <1>11, <1>12, <1>13
  DEF TypeShape, TrackerTypeOK, CountTypes, ProbeTypes, WaitingTypes, MainTypes, CallbackTypes,
      AirTypes, BoundTypes, OutcomeTypes, Armed

LEMMA CheckLostTyped ==
  ASSUME TypeShape, CheckLost
  PROVE  TypeShape'
<1>1. /\ CountTypes /\ ProbeTypes /\ WaitingTypes /\ MainTypes /\ CallbackTypes
      /\ AirTypes /\ BoundTypes /\ OutcomeTypes /\ Armed /\ ShapeOK
  BY TypesAre DEF TypeShape
<1>2. /\ issued \in Int /\ completed \in Int /\ probe.first \in Int /\ 1 + OpenSpan \in Int
      /\ Peers \in Nat \ {0} /\ LostAfter \in Nat /\ MaxSends \in Nat /\ MaxLost \in Nat
  BY <1>1, ConstantFacts DEF CountTypes, ProbeTypes, Numbers
<1>3. \A n, d \in Int : Plus(n, d) \in Numbers /\ n % TrackSize \in 0 .. TrackSize - 1
  BY NumbersClosed
<1>4. CountTypes'
  BY <1>1, <1>2, <1>3 DEF CheckLost, Resync, GivenUp, sending, history, CountTypes, Off
<1>5. ProbeTypes'
  BY <1>1, <1>2, <1>3 DEF CheckLost, Resync, GivenUp, sending, history, ProbeTypes, CallbackTypes, CountTypes
<1>6. WaitingTypes'
  BY <1>1, <1>2, <1>3 DEF CheckLost, Resync, GivenUp, sending, history, WaitingTypes, CallbackTypes, None
<1>7. MainTypes'
  BY <1>1, <1>2 DEF CheckLost, Resync, GivenUp, sending, history, MainTypes, AtRest, Kinds, ShapeOK
<1>8. CallbackTypes'
  BY <1>1, <1>2, <1>3 DEF CheckLost, Resync, GivenUp, sending, history, CallbackTypes, NoCallback
<1>9. AirTypes'
  BY <1>1 DEF CheckLost, Resync, GivenUp, sending, history, AirTypes
<1>10. BoundTypes'
  BY <1>1, <1>2 DEF CheckLost, Resync, GivenUp, sending, history, BoundTypes
<1>11. OutcomeTypes'
  BY <1>1 DEF CheckLost, Resync, GivenUp, sending, history, OutcomeTypes, Doubts
<1>12. Armed'
  BY <1>1 DEF CheckLost, Resync, GivenUp, sending, history, Armed, AtRest
<1>13. ShapeOK'
  BY <1>1, <1>2 DEF CheckLost, Resync, GivenUp, sending, history, ShapeOK, MainTypes, AtRest, NoCallback, Kinds, Reporting
<1> QED
  BY <1>4, <1>5, <1>6, <1>7, <1>8, <1>9, <1>10, <1>11, <1>12, <1>13
  DEF TypeShape, TrackerTypeOK, CountTypes, ProbeTypes, WaitingTypes, MainTypes, CallbackTypes,
      AirTypes, BoundTypes, OutcomeTypes, Armed

LEMMA RestartEspNowTyped ==
  ASSUME TypeShape, RestartEspNow
  PROVE  TypeShape'
<1>1. /\ CountTypes /\ ProbeTypes /\ WaitingTypes /\ MainTypes /\ CallbackTypes
      /\ AirTypes /\ BoundTypes /\ OutcomeTypes /\ Armed /\ ShapeOK
  BY TypesAre DEF TypeShape
<1>2. /\ issued \in Int /\ completed \in Int /\ probe.first \in Int /\ 1 + OpenSpan \in Int
      /\ Peers \in Nat \ {0} /\ LostAfter \in Nat /\ MaxSends \in Nat /\ MaxLost \in Nat
  BY <1>1, ConstantFacts DEF CountTypes, ProbeTypes, Numbers
<1>3. \A n, d \in Int : Plus(n, d) \in Numbers /\ n % TrackSize \in 0 .. TrackSize - 1
  BY NumbersClosed
<1>4. CountTypes'
  BY <1>1, <1>2, <1>3 DEF RestartEspNow, Resync, GivenUp, sending, history, CountTypes, Off
<1>5. ProbeTypes'
  BY <1>1, <1>2, <1>3 DEF RestartEspNow, Resync, GivenUp, sending, history, ProbeTypes, CallbackTypes, CountTypes
<1>6. WaitingTypes'
  BY <1>1, <1>2, <1>3 DEF RestartEspNow, Resync, GivenUp, sending, history, WaitingTypes, CallbackTypes, None
<1>7. MainTypes'
  BY <1>1, <1>2 DEF RestartEspNow, Resync, GivenUp, sending, history, MainTypes, AtRest, Kinds, ShapeOK
<1>8. CallbackTypes'
  BY <1>1, <1>2, <1>3 DEF RestartEspNow, Resync, GivenUp, sending, history, CallbackTypes, NoCallback
<1>9. AirTypes'
  BY <1>1 DEF RestartEspNow, Resync, GivenUp, sending, history, AirTypes
<1>10. BoundTypes'
  BY <1>1, <1>2 DEF RestartEspNow, Resync, GivenUp, sending, history, BoundTypes
<1>11. OutcomeTypes'
  BY <1>1 DEF RestartEspNow, Resync, GivenUp, sending, history, OutcomeTypes, Doubts
<1>12. Armed'
  BY <1>1 DEF RestartEspNow, Resync, GivenUp, sending, history, Armed, AtRest
<1>13. ShapeOK'
  BY <1>1, <1>2 DEF RestartEspNow, Resync, GivenUp, sending, history, ShapeOK, MainTypes, AtRest, NoCallback, Kinds, Reporting
<1> QED
  BY <1>4, <1>5, <1>6, <1>7, <1>8, <1>9, <1>10, <1>11, <1>12, <1>13
  DEF TypeShape, TrackerTypeOK, CountTypes, ProbeTypes, WaitingTypes, MainTypes, CallbackTypes,
      AirTypes, BoundTypes, OutcomeTypes, Armed

LEMMA CallbackTyped ==
  ASSUME TypeShape, Callback
  PROVE  TypeShape'
<1>1. /\ CountTypes /\ ProbeTypes /\ WaitingTypes /\ MainTypes /\ CallbackTypes
      /\ AirTypes /\ BoundTypes /\ OutcomeTypes /\ Armed /\ ShapeOK
  BY TypesAre DEF TypeShape
<1>2. /\ issued \in Int /\ completed \in Int /\ probe.first \in Int /\ 1 + OpenSpan \in Int
      /\ Peers \in Nat \ {0} /\ LostAfter \in Nat /\ MaxSends \in Nat /\ MaxLost \in Nat
  BY <1>1, ConstantFacts DEF CountTypes, ProbeTypes, Numbers
<1>3. \A n, d \in Int : Plus(n, d) \in Numbers /\ n % TrackSize \in 0 .. TrackSize - 1
  BY NumbersClosed
<1>4. CountTypes'
  BY <1>1, <1>2, <1>3 DEF Callback, sending, history, CountTypes, Off
<1>5. ProbeTypes'
  BY <1>1, <1>2, <1>3 DEF Callback, sending, history, ProbeTypes, CallbackTypes, CountTypes
<1>6. WaitingTypes'
  BY <1>1, <1>2, <1>3 DEF Callback, sending, history, WaitingTypes, CallbackTypes, None
<1>7. MainTypes'
  BY <1>1, <1>2 DEF Callback, sending, history, MainTypes, AtRest, Kinds, ShapeOK
<1>8. CallbackTypes'
  BY <1>1, <1>2, <1>3 DEF Callback, sending, history, CallbackTypes, NoCallback
<1>9. AirTypes'
  BY <1>1 DEF Callback, sending, history, AirTypes
<1>10. BoundTypes'
  BY <1>1, <1>2 DEF Callback, sending, history, BoundTypes
<1>11. OutcomeTypes'
  BY <1>1 DEF Callback, sending, history, OutcomeTypes, Doubts
<1>12. Armed'
  BY <1>1 DEF Callback, sending, history, Armed, AtRest
<1>13. ShapeOK'
  BY <1>1, <1>2 DEF Callback, sending, history, ShapeOK, MainTypes, AtRest, NoCallback, Kinds, Reporting
<1> QED
  BY <1>4, <1>5, <1>6, <1>7, <1>8, <1>9, <1>10, <1>11, <1>12, <1>13
  DEF TypeShape, TrackerTypeOK, CountTypes, ProbeTypes, WaitingTypes, MainTypes, CallbackTypes,
      AirTypes, BoundTypes, OutcomeTypes, Armed

LEMMA SeePendingTyped ==
  ASSUME TypeShape, SeePending
  PROVE  TypeShape'
<1>1. /\ CountTypes /\ ProbeTypes /\ WaitingTypes /\ MainTypes /\ CallbackTypes
      /\ AirTypes /\ BoundTypes /\ OutcomeTypes /\ Armed /\ ShapeOK
  BY TypesAre DEF TypeShape
<1>2. /\ issued \in Int /\ completed \in Int /\ probe.first \in Int /\ 1 + OpenSpan \in Int
      /\ Peers \in Nat \ {0} /\ LostAfter \in Nat /\ MaxSends \in Nat /\ MaxLost \in Nat
  BY <1>1, ConstantFacts DEF CountTypes, ProbeTypes, Numbers
<1>3. \A n, d \in Int : Plus(n, d) \in Numbers /\ n % TrackSize \in 0 .. TrackSize - 1
  BY NumbersClosed
<1>4. CountTypes'
  BY <1>1, <1>2, <1>3 DEF SeePending, sending, history, CountTypes, Off
<1>5. ProbeTypes'
  BY <1>1, <1>2, <1>3 DEF SeePending, sending, history, ProbeTypes, CallbackTypes, CountTypes
<1>6. WaitingTypes'
  BY <1>1, <1>2, <1>3 DEF SeePending, sending, history, WaitingTypes, CallbackTypes, None
<1>7. MainTypes'
  BY <1>1, <1>2 DEF SeePending, sending, history, MainTypes, AtRest, Kinds, ShapeOK
<1>8. CallbackTypes'
  BY <1>1, <1>2, <1>3 DEF SeePending, sending, history, CallbackTypes, NoCallback
<1>9. AirTypes'
  BY <1>1 DEF SeePending, sending, history, AirTypes
<1>10. BoundTypes'
  BY <1>1, <1>2 DEF SeePending, sending, history, BoundTypes
<1>11. OutcomeTypes'
  BY <1>1 DEF SeePending, sending, history, OutcomeTypes, Doubts
<1>12. Armed'
  BY <1>1 DEF SeePending, sending, history, Armed, AtRest
<1>13. ShapeOK'
  BY <1>1, <1>2 DEF SeePending, sending, history, ShapeOK, MainTypes, AtRest, NoCallback, Kinds, Reporting
<1> QED
  BY <1>4, <1>5, <1>6, <1>7, <1>8, <1>9, <1>10, <1>11, <1>12, <1>13
  DEF TypeShape, TrackerTypeOK, CountTypes, ProbeTypes, WaitingTypes, MainTypes, CallbackTypes,
      AirTypes, BoundTypes, OutcomeTypes, Armed

LEMMA SeeRangeTyped ==
  ASSUME TypeShape, SeeRange
  PROVE  TypeShape'
<1>1. /\ CountTypes /\ ProbeTypes /\ WaitingTypes /\ MainTypes /\ CallbackTypes
      /\ AirTypes /\ BoundTypes /\ OutcomeTypes /\ Armed /\ ShapeOK
  BY TypesAre DEF TypeShape
<1>2. /\ issued \in Int /\ completed \in Int /\ probe.first \in Int /\ 1 + OpenSpan \in Int
      /\ Peers \in Nat \ {0} /\ LostAfter \in Nat /\ MaxSends \in Nat /\ MaxLost \in Nat
  BY <1>1, ConstantFacts DEF CountTypes, ProbeTypes, Numbers
<1>3. \A n, d \in Int : Plus(n, d) \in Numbers /\ n % TrackSize \in 0 .. TrackSize - 1
  BY NumbersClosed
<1>4. CountTypes'
  BY <1>1, <1>2, <1>3 DEF SeeRange, sending, history, CountTypes, Off
<1>5. ProbeTypes'
  BY <1>1, <1>2, <1>3 DEF SeeRange, sending, history, ProbeTypes, CallbackTypes, CountTypes
<1>6. WaitingTypes'
  BY <1>1, <1>2, <1>3 DEF SeeRange, sending, history, WaitingTypes, CallbackTypes, None
<1>7. MainTypes'
  BY <1>1, <1>2 DEF SeeRange, sending, history, MainTypes, AtRest, Kinds, ShapeOK
<1>8. CallbackTypes'
  BY <1>1, <1>2, <1>3 DEF SeeRange, sending, history, CallbackTypes, NoCallback
<1>9. AirTypes'
  BY <1>1 DEF SeeRange, sending, history, AirTypes
<1>10. BoundTypes'
  BY <1>1, <1>2 DEF SeeRange, sending, history, BoundTypes
<1>11. OutcomeTypes'
  BY <1>1 DEF SeeRange, sending, history, OutcomeTypes, Doubts
<1>12. Armed'
  BY <1>1 DEF SeeRange, sending, history, Armed, AtRest
<1>13. ShapeOK'
  BY <1>1, <1>2 DEF SeeRange, sending, history, ShapeOK, MainTypes, AtRest, NoCallback, Kinds, Reporting
<1> QED
  BY <1>4, <1>5, <1>6, <1>7, <1>8, <1>9, <1>10, <1>11, <1>12, <1>13
  DEF TypeShape, TrackerTypeOK, CountTypes, ProbeTypes, WaitingTypes, MainTypes, CallbackTypes,
      AirTypes, BoundTypes, OutcomeTypes, Armed

LEMMA StoreAckTyped ==
  ASSUME TypeShape, StoreAck
  PROVE  TypeShape'
<1>1. /\ CountTypes /\ ProbeTypes /\ WaitingTypes /\ MainTypes /\ CallbackTypes
      /\ AirTypes /\ BoundTypes /\ OutcomeTypes /\ Armed /\ ShapeOK
  BY TypesAre DEF TypeShape
<1>2. /\ issued \in Int /\ completed \in Int /\ probe.first \in Int /\ 1 + OpenSpan \in Int
      /\ Peers \in Nat \ {0} /\ LostAfter \in Nat /\ MaxSends \in Nat /\ MaxLost \in Nat
  BY <1>1, ConstantFacts DEF CountTypes, ProbeTypes, Numbers
<1>3. \A n, d \in Int : Plus(n, d) \in Numbers /\ n % TrackSize \in 0 .. TrackSize - 1
  BY NumbersClosed
<1>4. CountTypes'
  BY <1>1, <1>2, <1>3 DEF StoreAck, sending, history, CountTypes, Off
<1>5. ProbeTypes'
  BY <1>1, <1>2, <1>3 DEF StoreAck, sending, history, ProbeTypes, CallbackTypes, CountTypes
<1>6. WaitingTypes'
  BY <1>1, <1>2, <1>3 DEF StoreAck, sending, history, WaitingTypes, CallbackTypes, None
<1>7. MainTypes'
  BY <1>1, <1>2 DEF StoreAck, sending, history, MainTypes, AtRest, Kinds, ShapeOK
<1>8. CallbackTypes'
  BY <1>1, <1>2, <1>3 DEF StoreAck, sending, history, CallbackTypes, NoCallback
<1>9. AirTypes'
  BY <1>1 DEF StoreAck, sending, history, AirTypes
<1>10. BoundTypes'
  BY <1>1, <1>2 DEF StoreAck, sending, history, BoundTypes
<1>11. OutcomeTypes'
  BY <1>1 DEF StoreAck, sending, history, OutcomeTypes, Doubts
<1>12. Armed'
  BY <1>1 DEF StoreAck, sending, history, Armed, AtRest
<1>13. ShapeOK'
  BY <1>1, <1>2 DEF StoreAck, sending, history, ShapeOK, MainTypes, AtRest, NoCallback, Kinds, Reporting
<1> QED
  BY <1>4, <1>5, <1>6, <1>7, <1>8, <1>9, <1>10, <1>11, <1>12, <1>13
  DEF TypeShape, TrackerTypeOK, CountTypes, ProbeTypes, WaitingTypes, MainTypes, CallbackTypes,
      AirTypes, BoundTypes, OutcomeTypes, Armed

LEMMA SettleTyped ==
  ASSUME TypeShape, Settle
  PROVE  TypeShape'
<1>1. /\ CountTypes /\ ProbeTypes /\ WaitingTypes /\ MainTypes /\ CallbackTypes
      /\ AirTypes /\ BoundTypes /\ OutcomeTypes /\ Armed /\ ShapeOK
  BY TypesAre DEF TypeShape
<1>2. /\ issued \in Int /\ completed \in Int /\ probe.first \in Int /\ 1 + OpenSpan \in Int
      /\ Peers \in Nat \ {0} /\ LostAfter \in Nat /\ MaxSends \in Nat /\ MaxLost \in Nat
  BY <1>1, ConstantFacts DEF CountTypes, ProbeTypes, Numbers
<1>3. \A n, d \in Int : Plus(n, d) \in Numbers /\ n % TrackSize \in 0 .. TrackSize - 1
  BY NumbersClosed
<1>4. CountTypes'
  BY <1>1, <1>2, <1>3 DEF Settle, Settles, Track, sending, history, CountTypes, Off
<1>5. ProbeTypes'
  BY <1>1, <1>2, <1>3 DEF Settle, Settles, Track, sending, history, ProbeTypes, CallbackTypes, CountTypes
<1>6. WaitingTypes'
  BY <1>1, <1>2, <1>3 DEF Settle, Settles, Track, sending, history, WaitingTypes, CallbackTypes, None
<1>7. MainTypes'
  BY <1>1, <1>2 DEF Settle, Settles, Track, sending, history, MainTypes, AtRest, Kinds, ShapeOK
<1>8. CallbackTypes'
  <2>1. 0 \in Numbers /\ cb' = NoCallback
    BY ConstantFacts DEF Settle, Numbers
  <2> QED
    BY <2>1 DEF CallbackTypes, NoCallback
<1>9. AirTypes'
  BY <1>1 DEF Settle, Settles, Track, sending, history, AirTypes
<1>10. BoundTypes'
  BY <1>1, <1>2 DEF Settle, Settles, Track, sending, history, BoundTypes
<1>11. OutcomeTypes'
  BY <1>1 DEF Settle, Settles, Track, sending, history, OutcomeTypes, Doubts
<1>12. Armed'
  BY <1>1 DEF Settle, Settles, Track, sending, history, Armed, AtRest
<1>13. ShapeOK'
  BY <1>1, <1>2 DEF Settle, Settles, Track, sending, history, ShapeOK, MainTypes, AtRest, NoCallback, Kinds, Reporting
<1> QED
  BY <1>4, <1>5, <1>6, <1>7, <1>8, <1>9, <1>10, <1>11, <1>12, <1>13
  DEF TypeShape, TrackerTypeOK, CountTypes, ProbeTypes, WaitingTypes, MainTypes, CallbackTypes,
      AirTypes, BoundTypes, OutcomeTypes, Armed

LEMMA LoseCallbackTyped ==
  ASSUME TypeShape, LoseCallback
  PROVE  TypeShape'
<1>1. /\ CountTypes /\ ProbeTypes /\ WaitingTypes /\ MainTypes /\ CallbackTypes
      /\ AirTypes /\ BoundTypes /\ OutcomeTypes /\ Armed /\ ShapeOK
  BY TypesAre DEF TypeShape
<1>2. /\ issued \in Int /\ completed \in Int /\ probe.first \in Int /\ 1 + OpenSpan \in Int
      /\ Peers \in Nat \ {0} /\ LostAfter \in Nat /\ MaxSends \in Nat /\ MaxLost \in Nat
  BY <1>1, ConstantFacts DEF CountTypes, ProbeTypes, Numbers
<1>3. \A n, d \in Int : Plus(n, d) \in Numbers /\ n % TrackSize \in 0 .. TrackSize - 1
  BY NumbersClosed
<1>4. CountTypes'
  BY <1>1, <1>2, <1>3 DEF LoseCallback, sending, history, CountTypes, Off
<1>5. ProbeTypes'
  BY <1>1, <1>2, <1>3 DEF LoseCallback, sending, history, ProbeTypes, CallbackTypes, CountTypes
<1>6. WaitingTypes'
  BY <1>1, <1>2, <1>3 DEF LoseCallback, sending, history, WaitingTypes, CallbackTypes, None
<1>7. MainTypes'
  BY <1>1, <1>2 DEF LoseCallback, sending, history, MainTypes, AtRest, Kinds, ShapeOK
<1>8. CallbackTypes'
  BY <1>1, <1>2, <1>3 DEF LoseCallback, sending, history, CallbackTypes, NoCallback
<1>9. AirTypes'
  BY <1>1 DEF LoseCallback, sending, history, AirTypes
<1>10. BoundTypes'
  BY <1>1, <1>2 DEF LoseCallback, sending, history, BoundTypes
<1>11. OutcomeTypes'
  BY <1>1 DEF LoseCallback, sending, history, OutcomeTypes, Doubts
<1>12. Armed'
  BY <1>1 DEF LoseCallback, sending, history, Armed, AtRest
<1>13. ShapeOK'
  BY <1>1, <1>2 DEF LoseCallback, sending, history, ShapeOK, MainTypes, AtRest, NoCallback, Kinds, Reporting
<1> QED
  BY <1>4, <1>5, <1>6, <1>7, <1>8, <1>9, <1>10, <1>11, <1>12, <1>13
  DEF TypeShape, TrackerTypeOK, CountTypes, ProbeTypes, WaitingTypes, MainTypes, CallbackTypes,
      AirTypes, BoundTypes, OutcomeTypes, Armed

LEMMA TickTyped ==
  ASSUME TypeShape, Tick
  PROVE  TypeShape'
<1>1. /\ CountTypes /\ ProbeTypes /\ WaitingTypes /\ MainTypes /\ CallbackTypes
      /\ AirTypes /\ BoundTypes /\ OutcomeTypes /\ Armed /\ ShapeOK
  BY TypesAre DEF TypeShape
<1>2. /\ issued \in Int /\ completed \in Int /\ probe.first \in Int /\ 1 + OpenSpan \in Int
      /\ Peers \in Nat \ {0} /\ LostAfter \in Nat /\ MaxSends \in Nat /\ MaxLost \in Nat
  BY <1>1, ConstantFacts DEF CountTypes, ProbeTypes, Numbers
<1>3. \A n, d \in Int : Plus(n, d) \in Numbers /\ n % TrackSize \in 0 .. TrackSize - 1
  BY NumbersClosed
<1>4. CountTypes'
  <2>1. completed' = completed /\ issued' = issued
    BY DEF Tick
  <2>2. lag' \in Off .. LostAfter
    BY <1>1, <1>2 DEF Tick, CountTypes, Off
  <2> QED
    BY <1>1, <2>1, <2>2 DEF CountTypes
<1>5. ProbeTypes'
  BY <1>1, <1>2, <1>3 DEF Tick, sending, history, ProbeTypes, CallbackTypes, CountTypes
<1>6. WaitingTypes'
  BY <1>1, <1>2, <1>3 DEF Tick, sending, history, WaitingTypes, CallbackTypes, None
<1>7. MainTypes'
  BY <1>1, <1>2 DEF Tick, sending, history, MainTypes, AtRest, Kinds, ShapeOK
<1>8. CallbackTypes'
  BY <1>1, <1>2, <1>3 DEF Tick, sending, history, CallbackTypes, NoCallback
<1>9. AirTypes'
  BY <1>1 DEF Tick, sending, history, AirTypes
<1>10. BoundTypes'
  BY <1>1, <1>2 DEF Tick, sending, history, BoundTypes
<1>11. OutcomeTypes'
  BY <1>1 DEF Tick, sending, history, OutcomeTypes, Doubts
<1>12. Armed'
  BY <1>1 DEF Tick, sending, history, Armed, AtRest
<1>13. ShapeOK'
  BY <1>1, <1>2 DEF Tick, sending, history, ShapeOK, MainTypes, AtRest, NoCallback, Kinds, Reporting
<1> QED
  BY <1>4, <1>5, <1>6, <1>7, <1>8, <1>9, <1>10, <1>11, <1>12, <1>13
  DEF TypeShape, TrackerTypeOK, CountTypes, ProbeTypes, WaitingTypes, MainTypes, CallbackTypes,
      AirTypes, BoundTypes, OutcomeTypes, Armed

-----------------------------------------------------------------------------
(* The counts.                                                             *)
LEMMA CountFacts ==
  ASSUME TypeShape, CountsOK
  PROVE  /\ Issued \in Nat /\ Completed \in Nat /\ CalledBack \in Nat /\ InAir \in Nat
         /\ Uncounted \in {0, 1} /\ Budget \in Nat /\ Budget + main.left <= MaxFrames
         /\ main.left \in 0 .. Peers
         /\ Issued + Uncounted <= MaxFrames
         /\ Completed + InAir <= 2 * MaxFrames /\ 2 * MaxFrames < SeqSize
         /\ Completed - (Issued + Uncounted) <= OpenSpan /\ Issued - Completed <= OpenSpan
         /\ Called => /\ CalledBack - (Issued + Uncounted) <= OpenSpan
                      /\ (Issued + Uncounted) - CalledBack <= OpenSpan
<1>1. /\ issued \in Int /\ completed \in Int /\ cb.n \in Int /\ Len(radio) \in Nat
      /\ main.left \in 0 .. Peers /\ begun \in 0 .. MaxSends
  <2>1. /\ issued \in Numbers /\ completed \in Numbers /\ cb.n \in Numbers /\ Len(radio) \in Nat
        /\ main.left \in 0 .. Peers /\ begun \in 0 .. MaxSends
    BY TypeFacts DEF TypeShape
  <2>2. \A n \in Numbers : n \in Int
    BY ConstantFacts
  <2> QED
    BY <2>1, <2>2
<1>2. /\ MaxFrames \in Nat /\ OpenSpan \in Nat /\ MaxFrames <= OpenSpan
      /\ SeqSize = 2 * OpenSpan + 2 /\ Peers \in Nat /\ MaxSends \in Nat
  BY ConstantFacts
<1>3. Issued \in Nat /\ Completed \in Nat /\ CalledBack \in Nat
  BY <1>1, PlaceNat DEF Issued, Completed, CalledBack
<1>4. InAir \in Nat /\ Uncounted \in {0, 1}
  BY <1>1 DEF InAir, Uncounted
<1>5. Peers * begun \in Int /\ Peers * begun <= MaxFrames
  BY <1>1, <1>2 DEF MaxFrames
<1>6. Budget \in Int /\ Budget + main.left <= MaxFrames
  BY <1>1, <1>5 DEF Budget
<1>7. /\ Issued + Uncounted <= Budget /\ InAir <= Budget
      /\ Completed + InAir <= Issued + Uncounted + Budget
      /\ Called => CalledBack <= Issued + Uncounted + Budget
  BY DEF CountsOK
<1> HIDE DEF Issued
<1>8. Budget \in Nat /\ Issued + Uncounted <= MaxFrames
      /\ Completed + InAir <= 2 * MaxFrames /\ 2 * MaxFrames < SeqSize
  BY <1>1, <1>2, <1>3, <1>4, <1>6, <1>7
<1>9. Completed - (Issued + Uncounted) <= OpenSpan
  BY <1>1, <1>2, <1>3, <1>4, <1>6, <1>7
<1>10. Issued - Completed <= OpenSpan
  BY <1>2, <1>3, <1>4, <1>8
<1>11. Called => /\ CalledBack - (Issued + Uncounted) <= OpenSpan
                 /\ (Issued + Uncounted) - CalledBack <= OpenSpan
  BY <1>1, <1>2, <1>3, <1>4, <1>6, <1>7, <1>8
<1> QED
  BY <1>1, <1>3, <1>4, <1>6, <1>8, <1>9, <1>10, <1>11

\* Agreement of the counts is that of the places.
LEMMA AgreeIs ==
  ASSUME TypeShape, NEW i \in Numbers, NEW c \in Numbers, NEW u \in {0, 1},
         NEW frames, Len(frames) \in Nat,
         Place(i) + u < SeqSize, Place(c) + Len(frames) < SeqSize,
         Called => /\ CalledBack - (Place(i) + u) <= OpenSpan
                   /\ (Place(i) + u) - CalledBack <= OpenSpan
  PROVE  Agree(i, c, frames, u) <=> /\ Place(c) + Len(frames) = Place(i) + u
                                    /\ Called => CalledBack <= Place(i) + u
<1>1. i \in Int /\ c \in Int /\ cb.n \in Int /\ SeqSize \in Nat
  <2>1. cb.n \in Numbers /\ \A n \in Numbers : n \in Int
    BY TypeFacts, ConstantFacts DEF TypeShape
  <2> QED
    BY <2>1, ConstantFacts
<1>2. Place(i) \in Nat /\ Place(c) \in Nat /\ Place(cb.n) \in Nat
  BY <1>1, PlaceNat
<1>3. Place(Plus(i, u)) = Place(i) + u /\ Plus(i, u) \in Numbers
  BY <1>1, <1>2, PlacePlus
<1>4. Place(Plus(c, Len(frames))) = Place(c) + Len(frames) /\ Plus(c, Len(frames)) \in Numbers
  BY <1>1, <1>2, PlacePlus
<1>5. Plus(c, Len(frames)) = Plus(i, u) <=> Place(c) + Len(frames) = Place(i) + u
  BY <1>3, <1>4, PlaceOfOne
<1>6. Called => (Ahead(cb.n, Plus(i, u)) <=> CalledBack > Place(i) + u)
  <2>1. Plus(i, u) \in Int
    BY <1>3, ConstantFacts DEF Numbers
  <2> QED
    BY <1>1, <1>2, <1>3, <2>1, AheadPlaces DEF CalledBack
<1>7. Called => (~Ahead(cb.n, Plus(i, u)) <=> CalledBack <= Place(i) + u)
  <2>1. CalledBack \in Int /\ Place(i) + u \in Int
    BY <1>2 DEF CalledBack
  <2> QED
    BY <1>6, <2>1
<1> QED
  BY <1>5, <1>7 DEF Agree, Called

LEMMA AlignedIs ==
  ASSUME TypeShape, CountsOK, main.at # "count"
  PROVE  Aligned <=> CountsTrue
<1>1. Uncounted = 0 /\ issued \in Numbers /\ completed \in Numbers /\ Len(radio) \in Nat
  BY TypeFacts DEF Uncounted, TypeShape
<1>2. /\ Issued + 0 < SeqSize /\ Completed + InAir < SeqSize
      /\ Called => /\ CalledBack - (Issued + 0) <= OpenSpan
                   /\ (Issued + 0) - CalledBack <= OpenSpan
  <2>1. /\ Issued \in Nat /\ Completed \in Nat /\ CalledBack \in Nat /\ InAir \in Nat
        /\ MaxFrames \in Nat /\ SeqSize \in Nat
    BY CountFacts, ConstantFacts
  <2>2. /\ Issued + Uncounted <= MaxFrames /\ Completed + InAir <= 2 * MaxFrames
        /\ 2 * MaxFrames < SeqSize
    BY CountFacts
  <2>3. Called => /\ CalledBack - (Issued + Uncounted) <= OpenSpan
                  /\ (Issued + Uncounted) - CalledBack <= OpenSpan
    BY CountFacts
  <2> QED
    BY <1>1, <2>1, <2>2, <2>3
<1>3. Agree(issued, completed, radio, 0)
        <=> /\ Completed + InAir = Issued + 0
            /\ Called => CalledBack <= Issued + 0
  BY <1>1, <1>2, AgreeIs DEF Issued, Completed, InAir
<1> QED
  BY <1>1, <1>3 DEF Aligned, CountsTrue

\* Neither count moves.
Still ==
  /\ Issued' = Issued /\ Completed' = Completed /\ InAir' = InAir
  /\ Uncounted' = Uncounted
  /\ Called' => Called /\ CalledBack' = CalledBack

\* Nothing more has been used up, and a frame refused was counted before.
Spent ==
  /\ Budget' >= Budget
  /\ main'.at = "end" /\ ~main'.got => main.at = "end" /\ ~main.got

Quiet ==
  \/ SetRange \/ Arm \/ EndProbe \/ EndTracked \/ EndPlain
  \/ ClearProbe \/ TakeTracked \/ SeePending \/ SeeRange \/ StoreAck \/ Settle \/ Tick

LEMMA QuietMoves ==
  ASSUME TypeShape, Quiet
  PROVE  Still /\ Spent
<1>1. issued' = issued /\ completed' = completed /\ radio' = radio /\ begun' = begun
  BY DEF Quiet, SetRange, Arm, EndProbe, EndTracked, EndPlain, ClearProbe, TakeTracked,
         SeePending, SeeRange, StoreAck, Settle, Tick, sending
<1>2. /\ main.at \in {"rest", "range", "arm", "hand", "count", "end"} /\ main.left \in 0 .. Peers
      /\ begun \in 0 .. MaxSends /\ cb.at \in {"rest", "pending", "range", "ack", "track"}
      /\ (main.at = "end" => main.left = 0)
  BY TypeFacts DEF TypeShape, ShapeOK
<1>3. main \in [at : {"rest", "range", "arm", "hand", "count", "end"}, kind : Kinds,
                left : 0 .. Peers, got : BOOLEAN]
      /\ cb \in [at : {"rest", "pending", "range", "ack", "track"}, n : Numbers, ok : BOOLEAN]
  BY DEF TypeShape, TrackerTypeOK
<1>4. main'.left = main.left /\ (main'.at = "count" <=> main.at = "count")
      /\ (main'.at = "end" => main.at = "end" /\ main'.got = main.got)
  BY <1>2, <1>3 DEF Quiet, SetRange, Arm, EndProbe, EndTracked, EndPlain, ClearProbe, TakeTracked,
         SeePending, SeeRange, StoreAck, Settle, Tick, sending, AtRest
<1>5. cb'.at # "rest" => cb.at # "rest" /\ cb'.n = cb.n
  BY <1>2, <1>3 DEF Quiet, SetRange, Arm, EndProbe, EndTracked, EndPlain, ClearProbe, TakeTracked,
         SeePending, SeeRange, StoreAck, Settle, Tick, NoCallback
<1>6. Still
  BY <1>1, <1>4, <1>5 DEF Still, Issued, Completed, InAir, Uncounted, Called, CalledBack
<1>7. Budget' = Budget /\ Budget \in Int
  <2>1. Peers * begun - main.left \in Int
    BY <1>2, ConstantFacts
  <2> QED
    BY <1>1, <1>4, <2>1 DEF Budget
<1>8. Spent
  BY <1>4, <1>7 DEF Spent
<1> QED
  BY <1>6, <1>8

\* A send begins: it may use up no more than a probe does.
LEMMA BeginMoves ==
  ASSUME TypeShape, NEW kind \in Kinds, NEW at \in {"range", "hand"}, NEW left \in 0 .. Peers,
         Begin(kind, at, left)
  PROVE  /\ Spent /\ Uncounted = 0 /\ Uncounted' = 0
         /\ main' = [at |-> at, kind |-> kind, left |-> left, got |-> FALSE]
         /\ Budget' = Budget + (Peers - left)
<1>1. main = AtRest /\ begun \in Nat /\ Peers \in Nat
  BY TypeFacts, ConstantFacts DEF TypeShape, ShapeOK, Begin
<1>2. main' = [at |-> at, kind |-> kind, left |-> left, got |-> FALSE] /\ begun' = begun + 1
  BY DEF Begin
<1>3. main.left = 0 /\ main'.left = left /\ main.at = "rest" /\ main'.at = at
  BY <1>1, <1>2 DEF AtRest
<1>4. Peers * (begun + 1) = Peers * begun + Peers /\ Peers * begun \in Nat
  BY <1>1
<1>5. Budget = Peers * begun - 0 /\ Budget' = Peers * (begun + 1) - left
  BY <1>2, <1>3 DEF Budget
<1>6. Budget' = Budget + (Peers - left) /\ Budget' >= Budget
  BY <1>1, <1>4, <1>5
<1> QED
  BY <1>2, <1>3, <1>6 DEF Spent, Uncounted

LEMMA SendMoves ==
  ASSUME TypeShape, SendPlain \/ SendTracked
  PROVE  Still /\ Spent
<1>1. 1 \in 0 .. Peers /\ "plain" \in Kinds /\ "tracked" \in Kinds
  BY ConstantFacts DEF Kinds
<1>2. Begin("plain", "hand", 1) \/ Begin("tracked", "hand", 1)
  BY DEF SendPlain, SendTracked
<1>3. Spent /\ Uncounted = 0 /\ Uncounted' = 0
  <2>1. CASE Begin("plain", "hand", 1)
    BY <1>1, <2>1, BeginMoves
  <2>2. CASE Begin("tracked", "hand", 1)
    BY <1>1, <2>2, BeginMoves
  <2> QED
    BY <1>2, <2>1, <2>2
<1>4. issued' = issued /\ completed' = completed /\ cb' = cb
  BY DEF SendPlain, SendTracked
<1>5. Len(radio') = Len(radio)
  <2>1. CASE SendPlain
    BY <2>1 DEF SendPlain
  <2>2. CASE SendTracked
    <3>1. Len(Superseded("tracked")) = Len(radio)
      BY <1>1, TypeFacts, SupersededIs DEF TypeShape
    <3> QED
      BY <2>2, <3>1 DEF SendTracked
  <2> QED
    BY <2>1, <2>2
<1> QED
  BY <1>3, <1>4, <1>5 DEF Still, Issued, Completed, InAir, Called, CalledBack

LEMMA SendProbeMoves ==
  ASSUME TypeShape, CountsOK, SendProbe
  PROVE  /\ Spent /\ Issued' = Issued /\ InAir' = InAir /\ Uncounted = 0 /\ Uncounted' = 0
         /\ Called' = Called /\ CalledBack' = CalledBack
         /\ Completed' = IF Completed > Issued THEN Issued ELSE Completed
<1>1. Peers \in 0 .. Peers /\ "probe" \in Kinds
  BY ConstantFacts DEF Kinds
<1>2. Begin("probe", "range", Peers)
  BY DEF SendProbe
<1>3. Spent /\ Uncounted = 0 /\ Uncounted' = 0
  BY <1>1, <1>2, BeginMoves
<1>4. /\ issued' = issued /\ cb' = cb /\ radio' = Superseded("probe")
      /\ completed' = IF Ahead(completed, issued) THEN issued ELSE completed
  BY DEF SendProbe
<1>5. Len(radio') = Len(radio)
  BY <1>1, <1>4, TypeFacts, SupersededIs DEF TypeShape
<1>6. Ahead(completed, issued) <=> Completed > Issued
  <2>1. issued \in Int /\ completed \in Int
    BY TypeFacts, ConstantFacts DEF TypeShape, Numbers
  <2>2. Completed - Issued <= OpenSpan /\ Issued - Completed <= OpenSpan
    BY <1>3, CountFacts
  <2> QED
    BY <2>1, <2>2, AheadPlaces DEF Issued, Completed
<1> QED
  BY <1>3, <1>4, <1>5, <1>6 DEF Issued, Completed, InAir, Called, CalledBack

\* ESP-NOW takes the frame, or refuses it.
LEMMA HandMoves ==
  ASSUME TypeShape, Hand
  PROVE  /\ Issued' = Issued /\ Completed' = Completed /\ Called' = Called
         /\ CalledBack' = CalledBack /\ Budget' = Budget + 1 /\ Budget \in Int /\ Uncounted = 0
         /\ main.at = "hand" /\ main'.kind = main.kind
         /\ \/ /\ radio' = Append(radio, main.kind) /\ InAir' = InAir + 1 /\ Uncounted' = 1
               /\ main'.at = "count" /\ main'.got
            \/ /\ radio' = radio /\ InAir' = InAir /\ Uncounted' = 0
               /\ main'.at \in {"hand", "end"} /\ main'.got = main.got
<1>1. /\ main \in [at : {"rest", "range", "arm", "hand", "count", "end"}, kind : Kinds,
                   left : 0 .. Peers, got : BOOLEAN]
      /\ radio \in Seq(Kinds) /\ Len(radio) \in Nat /\ begun \in Nat /\ Peers \in Nat
      /\ main.kind \in Kinds
  BY TypeFacts, ConstantFacts DEF TypeShape, TrackerTypeOK
<1>2. issued' = issued /\ completed' = completed /\ cb' = cb /\ begun' = begun /\ main.at = "hand"
  BY DEF Hand
<1>3. \/ /\ radio' = Append(radio, main.kind)
         /\ main' = [main EXCEPT !.at = "count", !.left = @ - 1, !.got = TRUE]
      \/ /\ radio' = radio
         /\ main' = [main EXCEPT !.at = IF main.left = 1 THEN "end" ELSE "hand",
                                 !.left = @ - 1]
  BY DEF Hand
<1>4. main'.left = main.left - 1 /\ main.left \in Int /\ main'.kind = main.kind
  <2>1. main.left \in Int
    BY <1>1
  <2>2. main'.left = main.left - 1
    BY <1>1, <1>3
  <2>3. main'.kind = main.kind
    BY <1>1, <1>3
  <2> QED
    BY <2>1, <2>2, <2>3
<1>5. Budget' = Budget + 1 /\ Budget \in Int
  <2>1. Peers * begun \in Int
    BY <1>1
  <2> QED
    BY <1>2, <1>4, <2>1 DEF Budget
<1>6. CASE /\ radio' = Append(radio, main.kind)
           /\ main' = [main EXCEPT !.at = "count", !.left = @ - 1, !.got = TRUE]
  <2>1. Len(Append(radio, main.kind)) = Len(radio) + 1
    BY <1>1
  <2>2. main'.at = "count" /\ main'.got = TRUE
    BY <1>1, <1>6
  <2> QED
    BY <1>2, <1>4, <1>5, <1>6, <2>1, <2>2
    DEF Issued, Completed, InAir, Called, CalledBack, Uncounted
<1>7. CASE /\ radio' = radio
           /\ main' = [main EXCEPT !.at = IF main.left = 1 THEN "end" ELSE "hand",
                                   !.left = @ - 1]
  <2>1. main'.at \in {"hand", "end"} /\ main'.got = main.got
    BY <1>1, <1>7
  <2> QED
    BY <1>2, <1>4, <1>5, <1>7, <2>1
    DEF Issued, Completed, InAir, Called, CalledBack, Uncounted
<1> QED
  BY <1>3, <1>6, <1>7

LEMMA CountMoves ==
  ASSUME TypeShape, CountsOK, Count
  PROVE  /\ Issued' = Issued + 1 /\ Completed' = Completed /\ InAir' = InAir /\ Called' = Called
         /\ CalledBack' = CalledBack /\ Budget' = Budget /\ Uncounted = 1 /\ Uncounted' = 0
         /\ main.at = "count" /\ main'.kind = main.kind /\ main'.got = main.got /\ main.got
         /\ main'.at = IF main.left = 0 THEN "end" ELSE "hand"
<1>1. /\ main \in [at : {"rest", "range", "arm", "hand", "count", "end"}, kind : Kinds,
                   left : 0 .. Peers, got : BOOLEAN]
      /\ issued \in Int
  BY TypeFacts, ConstantFacts DEF TypeShape, TrackerTypeOK, Numbers
<1>2. /\ completed' = completed /\ radio' = radio /\ cb' = cb /\ begun' = begun
      /\ main.at = "count" /\ issued' = Plus(issued, 1)
      /\ main' = [main EXCEPT !.at = IF main.left = 0 THEN "end" ELSE "hand"]
  BY DEF Count
<1>3. /\ main'.left = main.left /\ main'.kind = main.kind /\ main'.got = main.got
      /\ main'.at = IF main.left = 0 THEN "end" ELSE "hand"
  BY <1>1, <1>2
<1>4. main.got
  BY <1>2 DEF TypeShape, ShapeOK
<1>5. Place(Plus(issued, 1)) = Place(issued) + 1
  <2>1. Place(issued) + 1 \in 0 .. SeqSize - 1
    BY <1>2, CountFacts, ConstantFacts DEF Issued, Uncounted
  <2> QED
    BY <1>1, <2>1, PlacePlus
<1>6. Budget' = Budget /\ Called' = Called /\ CalledBack' = CalledBack
  BY <1>2, <1>3 DEF Budget, Called, CalledBack
<1>7. Issued' = Issued + 1 /\ Completed' = Completed /\ InAir' = InAir
  BY <1>2, <1>5 DEF Issued, Completed, InAir
<1>8. Uncounted = 1 /\ Uncounted' = 0
  BY <1>2, <1>3 DEF Uncounted
<1> QED
  BY <1>2, <1>3, <1>4, <1>6, <1>7, <1>8

LEMMA CallbackMoves ==
  ASSUME TypeShape, CountsOK, Callback
  PROVE  /\ Issued' = Issued /\ Completed' = Completed + 1 /\ InAir' = InAir - 1
         /\ InAir \in Nat \ {0} /\ ~Called /\ Called' /\ CalledBack' = Completed + 1
         /\ Budget' = Budget /\ Uncounted' = Uncounted /\ main' = main
         /\ radio' \in Seq(Kinds) /\ \A k \in 1 .. InAir' : radio'[k] = radio[k + 1]
         /\ Head(radio) = radio[1]
<1>1. /\ issued' = issued /\ completed' = Plus(completed, 1) /\ main' = main /\ begun' = begun
      /\ cb.at = "rest" /\ radio' = Tail(radio) /\ radio # <<>>
  BY DEF Callback, sending
<1>2. cb'.n = completed' /\ cb'.at # "rest"
  BY DEF Callback
<1>3. radio \in Seq(Kinds) /\ completed \in Int
  BY TypeFacts, ConstantFacts DEF TypeShape, Numbers
<1>4. /\ Tail(radio) \in Seq(Kinds) /\ Len(Tail(radio)) = Len(radio) - 1
      /\ Len(radio) \in Nat \ {0} /\ Head(radio) = radio[1]
      /\ \A k \in 1 .. Len(Tail(radio)) : Tail(radio)[k] = radio[k + 1]
  BY <1>1, <1>3
<1>5. Place(Plus(completed, 1)) = Place(completed) + 1
  <2>1. Place(completed) + 1 \in 0 .. SeqSize - 1
    <3>1. /\ Completed \in Nat /\ MaxFrames \in Nat /\ SeqSize \in Nat
          /\ Completed + InAir <= 2 * MaxFrames /\ 2 * MaxFrames < SeqSize
      BY CountFacts, ConstantFacts
    <3>2. InAir \in Nat \ {0}
      BY <1>4 DEF InAir
    <3>3. Completed + 1 \in 0 .. SeqSize - 1
      BY <3>1, <3>2
    <3> QED
      BY <3>3 DEF Completed
  <2> QED
    BY <1>3, <2>1, PlacePlus
<1> QED
  BY <1>1, <1>2, <1>4, <1>5
  DEF Issued, Completed, InAir, Called, CalledBack, Budget, Uncounted

LEMMA LoseMoves ==
  ASSUME TypeShape, LoseCallback
  PROVE  /\ Issued' = Issued /\ Completed' = Completed /\ InAir' = InAir - 1 /\ InAir \in Nat \ {0}
         /\ Called' = Called /\ Budget' = Budget /\ Uncounted' = Uncounted /\ main' = main
         /\ CalledBack' = CalledBack
<1>1. /\ issued' = issued /\ completed' = completed /\ main' = main /\ begun' = begun
      /\ cb' = cb /\ radio' = Tail(radio) /\ radio # <<>> /\ radio \in Seq(Kinds)
  BY TypeFacts DEF LoseCallback, sending, TypeShape
<1>2. Len(Tail(radio)) = Len(radio) - 1 /\ Len(radio) \in Nat \ {0}
  BY <1>1
<1> QED
  BY <1>1, <1>2 DEF Issued, Completed, InAir, Called, CalledBack, Budget, Uncounted

\* The counts are made equal, with the frames in the air or without them.
LEMMA ResyncMoves ==
  ASSUME TypeShape, CheckLost \/ RestartEspNow
  PROVE  /\ Issued' = Issued /\ InAir' \in {0, InAir} /\ Called' = Called /\ Budget' = Budget
         /\ (Completed' = Completed /\ radio' = radio) \/ Completed' = Issued
         /\ Uncounted = 0 /\ Uncounted' = 0 /\ main' = main /\ CalledBack' = CalledBack
<1>1. main.at = "rest" /\ main' = main /\ begun' = begun /\ cb' = cb /\ issued' = issued
  BY DEF CheckLost, RestartEspNow, sending
<1>2. radio' = radio \/ radio' = <<>>
  BY DEF CheckLost, RestartEspNow
<1>3. (completed' = completed /\ radio' = radio) \/ completed' = issued
  BY DEF CheckLost, RestartEspNow, Resync
<1> QED
  BY <1>1, <1>2, <1>3 DEF Issued, Completed, InAir, Called, CalledBack, Budget, Uncounted

LEMMA CountsStep ==
  ASSUME TypeShape, TypeShape', CountsOK, Next
  PROVE  CountsOK'
<1>1. /\ Issued \in Nat /\ Completed \in Nat /\ CalledBack \in Nat /\ InAir \in Nat
      /\ Uncounted \in {0, 1} /\ Budget \in Nat
      /\ Issued + Uncounted <= Budget /\ InAir <= Budget
      /\ Completed + InAir <= Issued + Uncounted + Budget
      /\ Called => CalledBack <= Issued + Uncounted + Budget
      /\ main.at = "end" /\ ~main.got => Issued < Budget
  BY CountFacts DEF CountsOK
<1>2. Budget' \in Int
  <2>1. main'.left \in 0 .. Peers /\ begun' \in 0 .. MaxSends /\ Peers \in Nat
    BY ConstantFacts DEF TypeShape, TrackerTypeOK
  <2>2. Peers * begun' \in Int
    BY <2>1, ConstantFacts
  <2> QED
    BY <2>1, <2>2 DEF Budget
<1>3. CASE Quiet \/ SendPlain \/ SendTracked
  <2>1. Still /\ Spent
    BY <1>3, QuietMoves, SendMoves
  <2>2. main'.at = "end" /\ ~main'.got => Issued' < Budget'
    BY <1>1, <1>2, <2>1 DEF Still, Spent
  <2>3. /\ Issued' = Issued /\ Completed' = Completed /\ InAir' = InAir
        /\ Uncounted' = Uncounted /\ Budget' >= Budget
    BY <2>1 DEF Still, Spent
  <2>4. Called' => Called /\ CalledBack' = CalledBack
    BY <2>1 DEF Still
  <2>5. /\ Issued + Uncounted <= Budget' /\ InAir <= Budget'
        /\ Completed + InAir <= Issued + Uncounted + Budget'
        /\ Called => CalledBack <= Issued + Uncounted + Budget'
    <3> DEFINE b == Budget
               c == Budget'
    <3>1. b \in Int /\ c \in Int /\ b <= c
      BY <1>1, <1>2, <2>3
    <3>2. /\ Issued \in Int /\ Completed \in Int /\ CalledBack \in Int /\ InAir \in Int
          /\ Uncounted \in Int
          /\ Issued + Uncounted <= b /\ InAir <= b /\ Completed + InAir <= Issued + Uncounted + b
          /\ Called => CalledBack <= Issued + Uncounted + b
      BY <1>1
    <3> HIDE DEF b, c
    <3>3. /\ Issued + Uncounted <= c /\ InAir <= c
          /\ Completed + InAir <= Issued + Uncounted + c
          /\ Called => CalledBack <= Issued + Uncounted + c
      BY <3>1, <3>2
    <3> QED
      BY <3>3 DEF c
  <2>6. /\ Issued' + Uncounted' <= Budget' /\ InAir' <= Budget'
        /\ Completed' + InAir' <= Issued' + Uncounted' + Budget'
    BY <2>3, <2>5
  <2>7. Called' => CalledBack' <= Issued' + Uncounted' + Budget'
    BY <2>3, <2>4, <2>5
  <2> QED
    BY <2>2, <2>6, <2>7 DEF CountsOK
<1>4. CASE SendProbe
  BY <1>1, <1>2, <1>4, SendProbeMoves DEF Spent, CountsOK
<1>5. CASE Hand
  BY <1>1, <1>5, HandMoves DEF CountsOK
<1>6. CASE Count
  BY <1>1, <1>6, CountMoves DEF CountsOK
<1>7. CASE Callback
  BY <1>1, <1>7, CallbackMoves DEF CountsOK
<1>8. CASE LoseCallback
  BY <1>1, <1>8, LoseMoves DEF CountsOK
<1>9. CASE CheckLost \/ RestartEspNow
  BY <1>1, <1>9, ResyncMoves DEF CountsOK
<1> QED
  BY <1>3, <1>4, <1>5, <1>6, <1>7, <1>8, <1>9
  DEF Next, Sends, Progress, WifiTask, Quiet

-----------------------------------------------------------------------------
(* The counts are true for a frame, or a probe, of which there is no       *)
(* doubt.                                                                  *)
Sure(kind) == ~doubt[kind]
TruthOK == Sure("probe") \/ Sure("tracked") => CountsTrue

LEMMA TruthKept ==
  ASSUME TypeShape, CountsOK, CountsTrue,
         Quiet \/ SendPlain \/ SendTracked \/ SendProbe \/ Hand \/ Count \/ Callback
  PROVE  CountsTrue'
<1>1. /\ Issued \in Nat /\ Completed \in Nat /\ CalledBack \in Nat /\ InAir \in Nat
      /\ Uncounted \in {0, 1}
      /\ Completed + InAir = Issued + Uncounted
      /\ Called => CalledBack <= Issued + Uncounted
  BY CountFacts DEF CountsTrue
<1>2. CASE Quiet \/ SendPlain \/ SendTracked
  <2>1. Still
    BY <1>2, QuietMoves, SendMoves
  <2>2. Completed' + InAir' = Issued' + Uncounted'
    BY <1>1, <2>1 DEF Still
  <2>3. Called' => CalledBack' <= Issued' + Uncounted'
    BY <1>1, <2>1 DEF Still
  <2> QED
    BY <2>2, <2>3 DEF CountsTrue
<1>3. CASE SendProbe
  BY <1>1, <1>3, SendProbeMoves DEF CountsTrue
<1>4. CASE Hand
  BY <1>1, <1>4, HandMoves DEF CountsTrue
<1>5. CASE Count
  BY <1>1, <1>5, CountMoves DEF CountsTrue
<1>6. CASE Callback
  BY <1>1, <1>6, CallbackMoves DEF CountsTrue
<1> QED
  BY <1>2, <1>3, <1>4, <1>5, <1>6

LEMMA DoubtOne ==
  ASSUME NEW d \in [Doubts -> BOOLEAN], NEW kind \in Doubts, NEW b \in BOOLEAN,
         NEW e, e = [d EXCEPT ![kind] = b]
  PROVE  e[kind] = b /\ \A k \in Doubts : k # kind => e[k] = d[k]
OBVIOUS

\* A tracked frame begins: there is no doubt of it if the counts are true.
LEMMA SendTrackedSure ==
  ASSUME TypeShape, CountsOK, SendTracked
  PROVE  /\ Sure("tracked")' => CountsTrue
         /\ Sure("probe")' => Sure("probe")
<1>1. doubt \in [Doubts -> BOOLEAN] /\ main.at = "rest" /\ "tracked" \in Doubts /\ "probe" \in Doubts
  BY DEF TypeShape, TrackerTypeOK, SendTracked, Begin, Doubts
<1>2. doubt' = [doubt EXCEPT !["tracked"] = ~Aligned] /\ (~Aligned) \in BOOLEAN
  BY DEF SendTracked
<1>3. doubt'["tracked"] = ~Aligned /\ doubt'["probe"] = doubt["probe"]
  BY <1>1, <1>2, DoubtOne
<1>4. Aligned <=> CountsTrue
  BY <1>1, AlignedIs
<1> QED
  BY <1>3, <1>4 DEF Sure

\* A probe begins: likewise, and a doubt of the counts is one of the tracked frame too.
LEMMA SendProbeSure ==
  ASSUME TypeShape, TypeShape', CountsOK, SendProbe
  PROVE  /\ Sure("probe")' => CountsTrue'
         /\ Sure("tracked")' => CountsTrue' /\ Sure("tracked")
<1> DEFINE agree == Agree(issued, completed', radio, 0)
<1>1. doubt \in [Doubts -> BOOLEAN] /\ agree \in BOOLEAN
  BY DEF TypeShape, TrackerTypeOK, Agree
<1>2. doubt' = [doubt EXCEPT !["probe"] = ~agree, !["tracked"] = @ \/ ~agree]
  BY DEF SendProbe
<1>3. agree <=> CountsTrue'
  <2>1. /\ Issued' = Issued /\ InAir' = InAir /\ Uncounted = 0 /\ Uncounted' = 0
        /\ Called' = Called /\ CalledBack' = CalledBack
        /\ Completed' = IF Completed > Issued THEN Issued ELSE Completed
    BY SendProbeMoves
  <2>2. /\ Issued \in Nat /\ Completed \in Nat /\ InAir \in Nat
        /\ Issued + 0 < SeqSize /\ Completed + InAir < SeqSize
        /\ Called => CalledBack - (Issued + 0) <= OpenSpan /\ (Issued + 0) - CalledBack <= OpenSpan
    BY <2>1, CountFacts, ConstantFacts
  <2>3. Completed' + InAir < SeqSize
    <3> DEFINE c == Completed'
    <3>1. c \in Nat /\ c <= Completed /\ SeqSize \in Nat
      BY <2>1, <2>2, ConstantFacts
    <3> HIDE DEF c
    <3>2. c + InAir < SeqSize
      BY <2>2, <3>1
    <3> QED
      BY <3>2 DEF c
  <2>4. issued \in Numbers /\ completed' \in Numbers /\ Len(radio) \in Nat
    BY TypeFacts DEF TypeShape, TrackerTypeOK
  <2>5. Place(completed') = Completed'
    BY DEF Completed
  <2>6. agree <=> /\ Completed' + InAir = Issued + 0
                  /\ Called => CalledBack <= Issued + 0
    BY <2>2, <2>3, <2>4, <2>5, AgreeIs DEF Issued, InAir
  <2> QED
    BY <2>1, <2>6 DEF CountsTrue
<1> DEFINE off == ~agree
<1>4. off \in BOOLEAN /\ doubt' = [doubt EXCEPT !["probe"] = off, !["tracked"] = @ \/ off]
  BY <1>2
<1>5. off <=> ~CountsTrue'
  BY <1>3
<1> HIDE DEF agree, off
<1>6. doubt'["probe"] = off /\ doubt'["tracked"] = (doubt["tracked"] \/ off)
  BY <1>1, <1>4 DEF Doubts
<1> QED
  BY <1>5, <1>6 DEF Sure

\* A resync: what it leaves in the air is a doubt.
LEMMA ResyncSure ==
  ASSUME TypeShape, CountsOK, TruthOK, CheckLost \/ RestartEspNow, NEW kind \in {"probe", "tracked"},
         Sure(kind)'
  PROVE  Sure(kind) /\ CountsTrue'
<1>1. kind \in Doubts /\ doubt \in [Doubts -> BOOLEAN]
  BY DEF Doubts, TypeShape, TrackerTypeOK
<1>2. /\ Issued' = Issued /\ Called' = Called /\ Uncounted = 0 /\ Uncounted' = 0
      /\ CalledBack' = CalledBack
  BY ResyncMoves
<1>3. CASE Resync(radio')
  <2>1. completed' = issued
    BY <1>3 DEF Resync
  <2>2. doubt'[kind] <=> (doubt[kind] \/ ~Agree(issued, issued, radio', 0))
    BY <1>1, <1>3 DEF Resync
  <2>3. Agree(issued, issued, radio', 0) /\ Sure(kind)
    BY <2>2 DEF Sure
  <2>4. /\ Issued \in Nat /\ InAir \in Nat
        /\ Issued + 0 < SeqSize /\ Issued + InAir < SeqSize
        /\ Called => CalledBack - (Issued + 0) <= OpenSpan /\ (Issued + 0) - CalledBack <= OpenSpan
    <3>1. /\ Issued \in Nat /\ InAir \in Nat /\ Budget \in Nat /\ Uncounted = 0
          /\ Issued + Uncounted <= MaxFrames /\ Budget + main.left <= MaxFrames
          /\ main.left \in 0 .. Peers /\ InAir <= Budget
          /\ 2 * MaxFrames < SeqSize /\ MaxFrames \in Nat
      BY <1>2, CountFacts, ConstantFacts DEF CountsOK
    <3>2. main.left \in Nat /\ SeqSize \in Nat
      BY <3>1, ConstantFacts
    <3>3. Issued <= MaxFrames /\ InAir <= MaxFrames
      BY <3>1, <3>2
    <3>4. Issued + 0 < SeqSize /\ Issued + InAir < SeqSize
      BY <3>1, <3>2, <3>3
    <3>5. Called => CalledBack - (Issued + 0) <= OpenSpan /\ (Issued + 0) - CalledBack <= OpenSpan
      BY <3>1, CountFacts
    <3> QED
      BY <3>1, <3>4, <3>5
  <2>5. InAir' \in {0, InAir} /\ Len(radio') = InAir'
    BY ResyncMoves DEF InAir
  <2>6. issued \in Numbers /\ Place(issued) = Issued /\ Place(completed') = Completed'
    BY TypeFacts DEF TypeShape, Issued, Completed
  <2>7. Len(radio') \in Nat /\ Issued + Len(radio') < SeqSize
    BY <2>4, <2>5
  <2>8. Agree(issued, issued, radio', 0)
         <=> /\ Issued + Len(radio') = Issued + 0
             /\ Called => CalledBack <= Issued + 0
    BY <2>4, <2>6, <2>7, AgreeIs
  <2> QED
    BY <1>2, <2>1, <2>3, <2>5, <2>6, <2>8 DEF CountsTrue
<1>4. CASE completed' = completed /\ radio' = radio /\ doubt' = doubt
  <2>1. Sure(kind) /\ CountsTrue
    BY <1>4 DEF Sure, TruthOK
  <2>2. Completed' = Completed /\ InAir' = InAir
    BY <1>4 DEF Completed, InAir
  <2> QED
    BY <1>2, <2>1, <2>2 DEF CountsTrue
<1>5. Resync(radio') \/ (completed' = completed /\ radio' = radio /\ doubt' = doubt)
  <2>1. CASE CheckLost
    <3>1. radio' = radio
      BY <2>1 DEF CheckLost
    <3>2. Resync(radio) \/ (completed' = completed /\ doubt' = doubt)
      BY <2>1 DEF CheckLost
    <3> QED
      BY <3>1, <3>2
  <2>2. CASE RestartEspNow
    <3>1. radio' = <<>> /\ Resync(<<>>)
      BY <2>2 DEF RestartEspNow
    <3> QED
      BY <3>1
  <2> QED
    BY <2>1, <2>2
<1> QED
  BY <1>3, <1>4, <1>5

LEMMA LoseDoubts ==
  ASSUME TypeShape, LoseCallback
  PROVE  ~Sure("probe")' /\ ~Sure("tracked")'
<1>1. doubt \in [Doubts -> BOOLEAN] /\ "probe" \in Doubts /\ "tracked" \in Doubts
  BY DEF TypeShape, TrackerTypeOK, Doubts
<1>2. doubt' = [doubt EXCEPT !["probe"] = TRUE, !["tracked"] = TRUE]
  BY DEF LoseCallback
<1> QED
  BY <1>1, <1>2 DEF Sure

LEMMA TruthStep ==
  ASSUME TypeShape, TypeShape', CountsOK, TruthOK, Next
  PROVE  TruthOK'
<1>1. CASE Quiet \/ SendPlain \/ Hand \/ Count \/ Callback
  <2>1. doubt' = doubt
    BY <1>1 DEF Quiet, SetRange, Arm, EndProbe, EndTracked, EndPlain, ClearProbe, TakeTracked,
         SeePending, SeeRange, StoreAck, Settle, Tick, SendPlain, Hand, Count, Callback, history
  <2> QED
    BY <1>1, <2>1, TruthKept DEF TruthOK, Sure
<1>2. CASE SendTracked
  BY <1>2, SendTrackedSure, TruthKept DEF TruthOK
<1>3. CASE SendProbe
  BY <1>3, SendProbeSure DEF TruthOK
<1>4. CASE CheckLost \/ RestartEspNow
  BY <1>4, ResyncSure DEF TruthOK
<1>5. CASE LoseCallback
  BY <1>5, LoseDoubts DEF TruthOK
<1> QED
  BY <1>1, <1>2, <1>3, <1>4, <1>5
  DEF Next, Sends, Progress, WifiTask, Quiet

-----------------------------------------------------------------------------
(* What is true of the tracked frame when there is no doubt of it.         *)

\* It waits for the callback of its own place, which is the next number while it is
\* being sent, and nothing else in the air is taken for it.
Sending == main.kind = "tracked" /\ ~(main.at = "end" /\ main.got)
Awaited == Waiting >= 1 /\ IF Sending THEN Waiting = Issued + 1 ELSE Waiting <= Issued
Marked == \A k \in 1 .. InAir : radio[k] = "tracked" <=> Completed + k = Waiting
PendingTrue ==
  /\ Awaited /\ Marked
  /\ fate # "GivenUp" /\ (fate = "Out" \/ Waiting <= Completed)
  /\ Called /\ CalledBack = Waiting =>
       Waiting <= Completed /\ fate = (IF cb.ok THEN "Delivered" ELSE "Failed")

\* It has the outcome it was given, and is no longer in the air unless given up.
Landed == fate = "GivenUp" \/ \A k \in 1 .. InAir : radio[k] # "tracked"
SettledTrue ==
  /\ Landed
  /\ tracked.state = "Delivered" => fate = "Delivered"
  /\ tracked.state = "Failed" => fate # "Delivered"

WaitingTrue ==
  /\ main.kind = "tracked" /\ main.at = "hand" => tracked.state = "Pending"
  /\ tracked.state = "Pending" => PendingTrue
  /\ tracked.state \in {"Delivered", "Failed"} => SettledTrue

WaitingOK == Sure("tracked") => WaitingTrue

LEMMA WaitingFacts ==
  ASSUME TypeShape, CountsOK, CountsTrue
  PROVE  /\ Issued \in Nat /\ Completed \in Nat /\ CalledBack \in Nat /\ InAir \in Nat
         /\ Uncounted \in {0, 1} /\ Completed + InAir = Issued + Uncounted
         /\ Called => CalledBack <= Issued + Uncounted
         /\ Issued + Uncounted < TrackSize
         /\ tracked.state # "None" => Waiting \in Nat
<1>1. Issued + Uncounted < TrackSize
  BY CountFacts, ConstantFacts
<1>2. tracked.state # "None" => Waiting \in Nat
  <2>1. ASSUME tracked.state # "None"
        PROVE  tracked.n \in Nat
    BY <2>1, ConstantFacts DEF TypeShape, TrackerTypeOK, None
  <2>2. ASSUME tracked.n \in Nat
        PROVE  Waiting \in Nat
    <3>1. tracked.n - FirstSend \in Int /\ TrackSize \in Nat \ {0}
      BY <2>2, ConstantFacts DEF Numbers
    <3> QED
      BY <3>1, DivMod DEF Waiting, TrackPlace
  <2> QED
    BY <2>1, <2>2
<1> QED
  BY <1>1, <1>2, CountFacts DEF CountsTrue

\* A step that concerns neither the tracked frame nor the counts.
LEMMA WaitingKept ==
  ASSUME TypeShape, CountsOK, CountsTrue, WaitingTrue, Still, tracked' = tracked, fate' = fate,
         \A k \in 1 .. InAir : radio'[k] = "tracked" <=> radio[k] = "tracked",
         Called' => cb'.ok = cb.ok,
         main' = main \/ (main.kind # "tracked" /\ main'.kind # "tracked")
  PROVE  WaitingTrue'
<1>1. /\ Issued' = Issued /\ Completed' = Completed /\ InAir' = InAir
      /\ Called' => Called /\ CalledBack' = CalledBack
  BY DEF Still
<1>2. Waiting' = Waiting /\ tracked'.state = tracked.state
  BY DEF Waiting
<1>3. main'.kind = "tracked" /\ main'.at = "hand" => tracked'.state = "Pending"
  BY <1>2 DEF WaitingTrue
<1>4. ASSUME tracked.state = "Pending"
      PROVE  PendingTrue'
  <2>1. PendingTrue
    BY <1>4 DEF WaitingTrue
  <2>2. Sending' <=> Sending
    BY DEF Sending
  <2>3. Awaited'
    BY <1>1, <1>2, <2>1, <2>2 DEF PendingTrue, Awaited
  <2>4. Marked'
    BY <1>1, <1>2, <2>1 DEF PendingTrue, Marked
  <2>5. Called' /\ CalledBack' = Waiting' =>
          Waiting' <= Completed' /\ fate' = (IF cb'.ok THEN "Delivered" ELSE "Failed")
    BY <1>1, <1>2, <2>1 DEF PendingTrue
  <2> QED
    BY <1>1, <1>2, <2>1, <2>3, <2>4, <2>5 DEF PendingTrue
<1>5. ASSUME tracked.state \in {"Delivered", "Failed"}
      PROVE  SettledTrue'
  <2>1. SettledTrue
    BY <1>5 DEF WaitingTrue
  <2>2. Landed'
    BY <1>1, <2>1 DEF SettledTrue, Landed
  <2> QED
    BY <1>2, <2>1, <2>2 DEF SettledTrue
<1> QED
  BY <1>2, <1>3, <1>4, <1>5 DEF WaitingTrue

LEMMA WaitingQuiet ==
  ASSUME TypeShape, CountsOK, CountsTrue, WaitingTrue,
         \/ SetRange \/ Arm \/ EndProbe \/ EndPlain \/ ClearProbe
         \/ SeePending \/ SeeRange \/ StoreAck \/ Tick \/ SendPlain
  PROVE  WaitingTrue'
<1>1. Still
  BY QuietMoves, SendMoves DEF Quiet
<1>2. tracked' = tracked /\ fate' = fate /\ radio' = radio
  BY DEF SetRange, Arm, EndProbe, EndPlain, ClearProbe, SeePending, SeeRange, StoreAck, Tick,
         SendPlain, history
<1>3. Called' => cb'.ok = cb.ok
  <2>1. cb \in [at : {"rest", "pending", "range", "ack", "track"}, n : Numbers, ok : BOOLEAN]
    BY DEF TypeShape, TrackerTypeOK
  <2> QED
    BY <2>1 DEF SetRange, Arm, EndProbe, EndPlain, ClearProbe, SeePending, SeeRange, StoreAck,
         Tick, SendPlain, Called
<1>4. main' = main \/ (main.kind # "tracked" /\ main'.kind # "tracked")
  <2>1. main \in [at : {"rest", "range", "arm", "hand", "count", "end"}, kind : Kinds,
                  left : 0 .. Peers, got : BOOLEAN]
        /\ (main.at = "rest" => main = AtRest)
        /\ (main.at \in {"range", "arm"} => main.kind = "probe")
    BY DEF TypeShape, TrackerTypeOK, ShapeOK
  <2>2. CASE SetRange \/ Arm
    BY <2>1, <2>2 DEF SetRange, Arm
  <2>3. CASE EndProbe \/ EndPlain
    BY <2>1, <2>3 DEF EndProbe, EndPlain, AtRest
  <2>4. CASE SendPlain
    BY <2>1, <2>4 DEF SendPlain, Begin, AtRest
  <2>5. CASE ClearProbe \/ SeePending \/ SeeRange \/ StoreAck \/ Tick
    BY <2>5 DEF ClearProbe, SeePending, SeeRange, StoreAck, Tick, sending
  <2> QED
    BY <2>2, <2>3, <2>4, <2>5
<1> QED
  BY <1>1, <1>2, <1>3, <1>4, WaitingKept

LEMMA WaitingSendProbe ==
  ASSUME TypeShape, CountsOK, CountsTrue, WaitingTrue, SendProbe
  PROVE  WaitingTrue'
<1>1. /\ Issued' = Issued /\ InAir' = InAir /\ Uncounted = 0 /\ Uncounted' = 0
      /\ Called' = Called /\ CalledBack' = CalledBack
      /\ Completed' = IF Completed > Issued THEN Issued ELSE Completed
  BY SendProbeMoves
<1>2. Completed' = Completed
  BY <1>1, WaitingFacts
<1>3. Still
  BY <1>1, <1>2 DEF Still
<1>4. tracked' = tracked /\ fate' = fate /\ cb' = cb /\ radio' = Superseded("probe")
  BY DEF SendProbe
<1>5. \A k \in 1 .. InAir : radio'[k] = "tracked" <=> radio[k] = "tracked"
  <2>1. radio \in Seq(Kinds) /\ "probe" \in Kinds
    BY TypeFacts DEF TypeShape, Kinds
  <2>2. \A k \in 1 .. InAir : radio'[k] = IF radio[k] = "probe" THEN "plain" ELSE radio[k]
    BY <1>4, <2>1, SupersededIs DEF InAir
  <2> QED
    BY <2>2
<1>6. main.kind # "tracked" /\ main'.kind # "tracked"
  BY DEF SendProbe, Begin, TypeShape, ShapeOK, AtRest
<1> QED
  BY <1>3, <1>4, <1>5, <1>6, WaitingKept

\* A new tracked frame waits for the next number.
LEMMA WaitingSendTracked ==
  ASSUME TypeShape, CountsOK, CountsTrue, SendTracked
  PROVE  WaitingTrue'
<1>1. Still /\ main.at = "rest" /\ begun < MaxSends /\ main = AtRest
  BY SendMoves DEF SendTracked, Begin, TypeShape, ShapeOK
<1>2. /\ Issued' = Issued /\ Completed' = Completed /\ InAir' = InAir
      /\ Called' => Called /\ CalledBack' = CalledBack
  BY <1>1 DEF Still
<1>3. Issued + 1 <= MaxFrames
  <2>1. begun \in Nat /\ Peers \in Nat \ {0} /\ MaxSends \in Nat /\ main.left = 0
    BY <1>1, TypeFacts, ConstantFacts DEF TypeShape, AtRest
  <2>2. Peers * (begun + 1) <= MaxFrames /\ Peers * (begun + 1) = Peers * begun + Peers
    BY <1>1, <2>1 DEF MaxFrames
  <2>3. Issued <= Peers * begun /\ Peers * begun \in Nat /\ Issued \in Nat
    <3>1. Issued + Uncounted <= Budget /\ Uncounted = 0 /\ Issued \in Nat
      BY <1>1, CountFacts DEF CountsOK, Uncounted
    <3>2. Budget = Peers * begun /\ Peers * begun \in Nat
      BY <2>1 DEF Budget
    <3> QED
      BY <3>1, <3>2
  <2> QED
    BY <2>1, <2>2, <2>3, ConstantFacts
<1>4. Waiting' = Issued + 1
  <2>1. issued \in Int /\ Issued \in Nat /\ Issued + 1 \in 0 .. SeqSize - 1 /\ Issued + 1 < TrackSize
    <3>1. issued \in Int /\ Issued \in Nat /\ MaxFrames <= OpenSpan /\ SeqSize = 2 * OpenSpan + 2
          /\ OpenSpan \in Nat /\ MaxFrames < TrackSize /\ MaxFrames \in Nat /\ TrackSize \in Nat
      BY TypeFacts, ConstantFacts, CountFacts DEF TypeShape, Numbers
    <3> QED
      BY <1>3, <3>1
  <2>2. Place(Plus(issued, 1)) = Issued + 1 /\ Plus(issued, 1) \in Numbers
    BY <2>1, PlacePlus DEF Issued
  <2>3. TrackPlace(Plus(issued, 1) % TrackSize) = Issued + 1
    BY <2>1, <2>2, TrackPlaces
  <2>4. tracked'.n = Plus(issued, 1) % TrackSize
    BY DEF SendTracked, Track
  <2> QED
    BY <2>3, <2>4 DEF Waiting
<1>5. tracked'.state = "Pending" /\ fate' = "Out" /\ cb' = cb
  BY DEF SendTracked, Track
<1>6. main'.kind = "tracked" /\ main'.at = "hand"
  BY DEF SendTracked, Begin
<1>7. /\ Issued \in Nat /\ Completed \in Nat /\ CalledBack \in Nat /\ InAir \in Nat
      /\ Completed + InAir = Issued /\ (Called => CalledBack <= Issued)
  BY <1>1, WaitingFacts DEF Uncounted
<1>8. Awaited'
  <2>1. Issued + 1 >= 1
    BY <1>7
  <2> QED
    BY <1>2, <1>4, <1>6, <2>1 DEF Awaited, Sending
<1>9. Marked'
  <2>1. radio \in Seq(Kinds) /\ "tracked" \in Kinds /\ radio' = Superseded("tracked")
    BY TypeFacts DEF TypeShape, Kinds, SendTracked
  <2>2. \A k \in 1 .. InAir : radio'[k] = IF radio[k] = "tracked" THEN "plain" ELSE radio[k]
    BY <2>1, SupersededIs DEF InAir
  <2>3. \A k \in 1 .. InAir : radio'[k] # "tracked" /\ Completed + k # Issued + 1
    BY <1>7, <2>2
  <2> QED
    BY <1>2, <1>4, <2>3 DEF Marked
<1>10. ~(Called' /\ CalledBack' = Waiting')
  BY <1>2, <1>4, <1>7
<1>11. PendingTrue'
  BY <1>5, <1>8, <1>9, <1>10 DEF PendingTrue
<1> QED
  BY <1>5, <1>11 DEF WaitingTrue

LEMMA WaitingHand ==
  ASSUME TypeShape, CountsOK, CountsTrue, WaitingTrue, Hand
  PROVE  WaitingTrue'
<1>1. /\ Issued' = Issued /\ Completed' = Completed /\ Called' = Called
      /\ CalledBack' = CalledBack /\ Uncounted = 0 /\ main.at = "hand" /\ main'.kind = main.kind
      /\ \/ /\ radio' = Append(radio, main.kind) /\ InAir' = InAir + 1
            /\ main'.at = "count"
         \/ /\ radio' = radio /\ InAir' = InAir
            /\ main'.at \in {"hand", "end"} /\ main'.got = main.got
  BY HandMoves
<1>2. tracked' = tracked /\ fate' = fate /\ cb' = cb /\ Waiting' = Waiting
  BY DEF Hand, history, Waiting
<1>3. /\ Issued \in Nat /\ Completed \in Nat /\ CalledBack \in Nat /\ InAir \in Nat
      /\ Completed + InAir = Issued
      /\ radio \in Seq(Kinds) /\ main.kind \in Kinds /\ InAir = Len(radio)
  BY <1>1, WaitingFacts, TypeFacts DEF TypeShape, InAir
<1>4. Append(radio, main.kind)[InAir + 1] = main.kind
      /\ \A k \in 1 .. InAir : Append(radio, main.kind)[k] = radio[k]
  BY <1>3
<1>5. main.kind = "tracked" => tracked.state = "Pending" /\ main.got = FALSE
  BY <1>1 DEF WaitingTrue, TypeShape, ShapeOK
<1>6. \/ radio' = radio /\ InAir' = InAir
      \/ radio' = Append(radio, main.kind) /\ InAir' = InAir + 1
  BY HandMoves
<1>7. Completed' = Completed /\ Waiting' = Waiting
  BY <1>1, <1>2
<1>8. ASSUME tracked.state = "Pending"
      PROVE  PendingTrue'
  <2>1. PendingTrue
    BY <1>8 DEF WaitingTrue
  <2>2. Sending' <=> Sending
    BY <1>1, <1>5 DEF Sending
  <2>3. Awaited'
    BY <1>1, <1>2, <2>1, <2>2 DEF PendingTrue, Awaited
  <2>4. IF main.kind = "tracked" THEN Waiting = Issued + 1 ELSE Waiting <= Issued
    BY <1>1, <2>1 DEF PendingTrue, Awaited, Sending
  <2>5. main.kind = "tracked" <=> Completed + (InAir + 1) = Waiting
    BY <1>3, <1>8, <2>4, WaitingFacts
  <2>6. Marked
    BY <2>1 DEF PendingTrue
  <2>7. ASSUME radio' = radio, InAir' = InAir
        PROVE  Marked'
    BY <1>7, <2>6, <2>7 DEF Marked
  <2>8. ASSUME radio' = Append(radio, main.kind), InAir' = InAir + 1
        PROVE  Marked'
    <3>1. ASSUME NEW k \in 1 .. InAir + 1
          PROVE  radio'[k] = "tracked" <=> Completed + k = Waiting
      <4>1. CASE k = InAir + 1
        BY <1>4, <2>5, <2>8, <4>1
      <4>2. CASE k # InAir + 1
        <5>1. k \in 1 .. InAir
          BY <1>3, <4>2
        <5> QED
          BY <1>4, <2>6, <2>8, <5>1 DEF Marked
      <4> QED
        BY <4>1, <4>2
    <3> QED
      BY <1>7, <2>8, <3>1 DEF Marked
  <2>9. Marked'
    BY <1>6, <2>7, <2>8
  <2> QED
    BY <1>1, <1>2, <2>1, <2>3, <2>9 DEF PendingTrue
<1>9. ASSUME tracked.state \in {"Delivered", "Failed"}
      PROVE  SettledTrue'
  <2>1. SettledTrue /\ main.kind # "tracked"
    BY <1>5, <1>9 DEF WaitingTrue
  <2>2. ASSUME fate # "GivenUp", NEW k \in 1 .. InAir'
        PROVE  radio'[k] # "tracked"
    <3>1. \A i \in 1 .. InAir : radio[i] # "tracked"
      BY <2>1, <2>2 DEF SettledTrue, Landed
    <3>2. CASE radio' = radio /\ InAir' = InAir
      BY <2>2, <3>1, <3>2
    <3>3. CASE radio' = Append(radio, main.kind) /\ InAir' = InAir + 1
      <4>1. k = InAir + 1 \/ k \in 1 .. InAir
        BY <1>3, <2>2, <3>3
      <4> QED
        BY <1>4, <2>1, <3>1, <3>3, <4>1
    <3> QED
      BY <1>6, <3>2, <3>3
  <2>3. Landed'
    BY <1>2, <2>2 DEF Landed
  <2> QED
    BY <1>2, <2>1, <2>3 DEF SettledTrue
<1> QED
  BY <1>1, <1>2, <1>5, <1>8, <1>9 DEF WaitingTrue

LEMMA WaitingCount ==
  ASSUME TypeShape, CountsOK, CountsTrue, WaitingTrue, Count
  PROVE  WaitingTrue'
<1>1. /\ Issued' = Issued + 1 /\ Completed' = Completed /\ InAir' = InAir /\ Called' = Called
      /\ CalledBack' = CalledBack /\ main.at = "count" /\ main'.kind = main.kind
      /\ main'.got = main.got /\ main.got
      /\ main'.at = IF main.left = 0 THEN "end" ELSE "hand"
  BY CountMoves
<1>2. tracked' = tracked /\ fate' = fate /\ cb' = cb /\ radio' = radio /\ Waiting' = Waiting
  BY DEF Count, history, Waiting
<1>3. main.kind = "tracked" => main'.at = "end"
  BY <1>1 DEF TypeShape, ShapeOK
<1>4. ASSUME tracked.state = "Pending"
      PROVE  PendingTrue'
  <2>1. PendingTrue
    BY <1>4 DEF WaitingTrue
  <2>2. ~Sending' /\ (Sending <=> main.kind = "tracked")
    BY <1>1, <1>3 DEF Sending
  <2>3. Waiting <= Issued + 1
    <3>1. Waiting = Issued + 1 \/ Waiting <= Issued
      BY <2>1 DEF PendingTrue, Awaited
    <3> QED
      BY <1>4, <3>1, WaitingFacts
  <2>4. Awaited'
    BY <1>1, <1>2, <2>1, <2>2, <2>3 DEF PendingTrue, Awaited
  <2>5. Marked'
    BY <1>1, <1>2, <2>1 DEF PendingTrue, Marked
  <2> QED
    BY <1>1, <1>2, <2>1, <2>4, <2>5 DEF PendingTrue
<1>5. tracked.state \in {"Delivered", "Failed"} => SettledTrue'
  BY <1>1, <1>2 DEF WaitingTrue, SettledTrue, Landed
<1> QED
  BY <1>1, <1>2, <1>3, <1>4, <1>5 DEF WaitingTrue

\* A frame refused has the next number still; one taken has not, also when the shorter
\* number of the tracked word wraps.
LEMMA WaitingEndTracked ==
  ASSUME TypeShape, CountsOK, CountsTrue, WaitingTrue, EndTracked
  PROVE  WaitingTrue'
<1> DEFINE next == Plus(issued, 1) % TrackSize
<1>1. Still
  BY QuietMoves DEF Quiet
<1>2. /\ Issued' = Issued /\ Completed' = Completed /\ InAir' = InAir
      /\ Called' => Called /\ CalledBack' = CalledBack
  BY <1>1 DEF Still
<1>3. /\ main.at = "end" /\ main.kind = "tracked" /\ main' = AtRest
      /\ fate' = fate /\ cb' = cb /\ radio' = radio
      /\ IF tracked.state = "Pending" /\ tracked.n = next
         THEN tracked' \in {[tracked EXCEPT !.state = "Failed"], None}
         ELSE tracked' = tracked
  BY DEF EndTracked, history
<1>4. /\ Issued \in Nat /\ Completed \in Nat /\ CalledBack \in Nat /\ InAir \in Nat
      /\ Completed + InAir = Issued /\ Issued < TrackSize
      /\ TrackSize \in Nat /\ TrackSize > 1
  <2>1. Uncounted = 0
    BY <1>3 DEF Uncounted
  <2> QED
    BY <2>1, WaitingFacts, ConstantFacts
<1>5. main'.kind = "plain" /\ ~Sending'
  BY <1>3 DEF AtRest, Sending
<1>6. TrackPlace(next) = (Issued + 1) % TrackSize /\ next \in 0 .. TrackSize - 1
  <2>1. issued \in Int /\ Issued + 1 \in 0 .. SeqSize - 1
    <3>1. issued \in Int /\ SeqSize \in Nat /\ Issued <= MaxFrames /\ 2 * MaxFrames < SeqSize
          /\ MaxFrames \in Nat \ {0} /\ Uncounted = 0
      BY <1>3, TypeFacts, CountFacts, ConstantFacts DEF TypeShape, Numbers, Uncounted
    <3> QED
      BY <1>4, <3>1
  <2>2. Place(Plus(issued, 1)) = Issued + 1 /\ Plus(issued, 1) \in Numbers
    BY <2>1, PlacePlus DEF Issued
  <2> QED
    BY <2>2, TrackPlaces
<1>7. Issued + 1 < TrackSize => (Issued + 1) % TrackSize = Issued + 1
  BY <1>4, ConstantFacts, ModSmall
<1>8. Issued + 1 = TrackSize => (Issued + 1) % TrackSize = 0
  <2>1. TrackSize % TrackSize = 0
    <3>1. TrackSize = TrackSize * 1 + 0 /\ 0 \in 0 .. TrackSize - 1 /\ TrackSize \in Nat \ {0}
      BY <1>4
    <3> QED
      BY <3>1, ModUnique
  <2> QED
    BY <2>1
<1>9. ~main.got => Issued + 1 < TrackSize
  <2>1. ASSUME ~main.got
        PROVE  Issued + 1 < TrackSize
    <3>1. Issued < Budget /\ Budget + main.left <= MaxFrames /\ main.left \in 0 .. Peers
          /\ MaxFrames < TrackSize /\ Budget \in Nat /\ MaxFrames \in Nat
      BY <1>3, <2>1, CountFacts, ConstantFacts DEF CountsOK
    <3>2. main.left \in Nat
      BY <3>1, ConstantFacts
    <3> QED
      BY <1>4, <3>1, <3>2
  <2> QED
    BY <2>1
<1>10. ASSUME tracked.state = "Pending"
       PROVE  PendingTrue /\ Waiting \in Nat
              /\ (tracked.n = next => Waiting = Issued + 1)
              /\ (tracked.n # next => Waiting <= Issued)
  <2>1. PendingTrue /\ Waiting \in Nat
    BY <1>10, WaitingFacts DEF WaitingTrue
  <2>2. tracked.n \in 0 .. TrackSize - 1
    BY <1>10 DEF TypeShape, TrackerTypeOK, None
  <2>3. CASE main.got
    <3>1. Waiting <= Issued
      BY <1>3, <2>1, <2>3 DEF PendingTrue, Awaited, Sending
    <3>2. ASSUME tracked.n = next
          PROVE  Waiting = Issued + 1
      <4>1. Waiting = (Issued + 1) % TrackSize
        BY <1>6, <3>2 DEF Waiting
      <4>2. Issued + 1 = TrackSize \/ Issued + 1 < TrackSize
        BY <1>4
      <4>3. CASE Issued + 1 < TrackSize
        BY <1>7, <4>1, <4>3
      <4>4. CASE Issued + 1 = TrackSize
        <5>1. Waiting = 0 /\ Issued # 0
          BY <1>4, <1>8, <4>1, <4>4
        <5>2. Waiting >= 1
          BY <2>1 DEF PendingTrue, Awaited
        <5> QED
          BY <5>1, <5>2
      <4> QED
        BY <4>2, <4>3, <4>4
    <3> QED
      BY <2>1, <3>1, <3>2
  <2>4. CASE ~main.got
    <3>1. Waiting = Issued + 1
      BY <1>3, <2>1, <2>4 DEF PendingTrue, Awaited, Sending
    <3>2. TrackPlace(tracked.n) = TrackPlace(next)
      BY <1>6, <1>7, <1>9, <2>4, <3>1 DEF Waiting
    <3>3. tracked.n = next
      BY <1>6, <2>2, <3>2, TrackPlaceOfOne
    <3> QED
      BY <2>1, <3>1, <3>3
  <2> QED
    BY <2>3, <2>4
<1>11. CASE tracked.state = "Pending" /\ tracked.n = next /\ tracked' = [tracked EXCEPT !.state = "Failed"]
  <2>1. PendingTrue /\ Waiting = Issued + 1
    BY <1>10, <1>11
  <2>2. tracked'.state = "Failed"
    BY <1>11 DEF TypeShape, TrackerTypeOK, None
  <2>3. fate = "Out"
    <3>1. ~(Waiting <= Completed)
      BY <1>4, <2>1
    <3> QED
      BY <2>1, <3>1 DEF PendingTrue
  <2>4. \A k \in 1 .. InAir : radio[k] # "tracked"
    <3>1. \A k \in 1 .. InAir : Completed + k # Waiting
      BY <1>4, <2>1
    <3> QED
      BY <2>1, <3>1 DEF PendingTrue, Marked
  <2>5. SettledTrue'
    BY <1>2, <1>3, <2>2, <2>3, <2>4 DEF SettledTrue, Landed
  <2> QED
    BY <1>5, <2>2, <2>5 DEF WaitingTrue
<1>12. CASE tracked' = None
  BY <1>5, <1>12 DEF WaitingTrue, None
<1>13. CASE tracked' = tracked /\ ~(tracked.state = "Pending" /\ tracked.n = next)
  <2>1. Waiting' = Waiting
    BY <1>13 DEF Waiting
  <2>2. ASSUME tracked.state = "Pending"
        PROVE  PendingTrue'
    <3>1. PendingTrue /\ Waiting <= Issued
      BY <1>10, <1>13, <2>2
    <3>2. Awaited' /\ Marked'
      BY <1>2, <1>3, <1>5, <2>1, <3>1 DEF PendingTrue, Awaited, Marked
    <3> QED
      BY <1>2, <1>3, <2>1, <3>1, <3>2 DEF PendingTrue
  <2>3. tracked.state \in {"Delivered", "Failed"} => SettledTrue'
    BY <1>2, <1>3, <1>13 DEF WaitingTrue, SettledTrue, Landed
  <2> QED
    BY <1>5, <1>13, <2>2, <2>3 DEF WaitingTrue
<1> QED
  BY <1>3, <1>11, <1>12, <1>13

LEMMA WaitingTaken ==
  ASSUME TypeShape, TakeTracked
  PROVE  WaitingTrue'
BY DEF TakeTracked, Taken, None, sending, AtRest, TypeShape, ShapeOK, WaitingTrue

\* The outcome is that of the frame of the callback, if it is the one waiting.
LEMMA WaitingCallback ==
  ASSUME TypeShape, CountsOK, CountsTrue, WaitingTrue, Callback
  PROVE  WaitingTrue'
<1>1. /\ Issued' = Issued /\ Completed' = Completed + 1 /\ InAir' = InAir - 1
      /\ InAir \in Nat \ {0} /\ Called' /\ CalledBack' = Completed + 1 /\ main' = main
      /\ \A k \in 1 .. InAir' : radio'[k] = radio[k + 1]
      /\ Head(radio) = radio[1]
  BY CallbackMoves
<1>2. PICK ok \in BOOLEAN :
        /\ cb' = [at |-> IF ok THEN "pending" ELSE "track", n |-> completed', ok |-> ok]
        /\ fate' = IF Head(radio) # "tracked" \/ fate = "GivenUp" THEN fate
                   ELSE IF ok THEN "Delivered" ELSE "Failed"
  BY DEF Callback
<1>3. tracked' = tracked /\ Waiting' = Waiting /\ cb'.ok = ok
  BY <1>2 DEF Callback, Waiting
<1>4. Completed \in Nat /\ InAir \in Nat /\ Issued \in Nat
      /\ (tracked.state # "None" => Waiting \in Nat)
  BY WaitingFacts
<1>5. ASSUME tracked.state = "Pending"
      PROVE  PendingTrue'
  <2>1. PendingTrue /\ Waiting \in Nat
    BY <1>4, <1>5 DEF WaitingTrue
  <2>2. radio[1] = "tracked" <=> Completed + 1 = Waiting
    BY <1>1, <2>1 DEF PendingTrue, Marked
  <2>3. Awaited'
    BY <1>1, <1>3, <2>1 DEF PendingTrue, Awaited, Sending
  <2>4. Marked'
    <3>1. ASSUME NEW k \in 1 .. InAir - 1
          PROVE  radio'[k] = "tracked" <=> (Completed + 1) + k = Waiting
      <4>1. k + 1 \in 1 .. InAir /\ Completed + (k + 1) = (Completed + 1) + k
        BY <1>4, <3>1
      <4>2. radio'[k] = radio[k + 1]
        BY <1>1, <3>1
      <4>3. radio[k + 1] = "tracked" <=> Completed + (k + 1) = Waiting
        BY <2>1, <4>1 DEF PendingTrue, Marked
      <4> QED
        BY <4>1, <4>2, <4>3
    <3> QED
      BY <1>1, <1>3, <3>1 DEF Marked
  <2>5. CASE Completed + 1 = Waiting
    <3>1. fate' = IF ok THEN "Delivered" ELSE "Failed"
      BY <1>1, <1>2, <2>1, <2>2, <2>5 DEF PendingTrue
    <3>2. Waiting' <= Completed'
      BY <1>1, <1>3, <1>4, <2>5
    <3>3. fate' # "GivenUp" /\ fate' = IF cb'.ok THEN "Delivered" ELSE "Failed"
      BY <1>3, <3>1
    <3> QED
      BY <2>3, <2>4, <3>2, <3>3 DEF PendingTrue
  <2>6. CASE Completed + 1 # Waiting
    <3>1. fate' = fate
      BY <1>1, <1>2, <2>2, <2>6
    <3>2. fate # "GivenUp" /\ (fate = "Out" \/ Waiting <= Completed)
      BY <2>1 DEF PendingTrue
    <3>3. fate' = "Out" \/ Waiting' <= Completed'
      BY <1>1, <1>3, <1>4, <2>1, <3>1, <3>2
    <3>4. CalledBack' # Waiting'
      BY <1>1, <1>3, <2>6
    <3> QED
      BY <2>3, <2>4, <3>1, <3>2, <3>3, <3>4 DEF PendingTrue
  <2> QED
    BY <2>5, <2>6
<1>6. ASSUME tracked.state \in {"Delivered", "Failed"}
      PROVE  SettledTrue'
  <2>1. SettledTrue
    BY <1>6 DEF WaitingTrue
  <2>2. fate' = fate
    <3>1. fate = "GivenUp" \/ radio[1] # "tracked"
      BY <1>1, <2>1 DEF SettledTrue, Landed
    <3> QED
      BY <1>1, <1>2, <3>1
  <2>3. ASSUME fate # "GivenUp", NEW k \in 1 .. InAir'
        PROVE  radio'[k] # "tracked"
    <3>1. k + 1 \in 1 .. InAir /\ radio'[k] = radio[k + 1]
      BY <1>1, <1>4, <2>3
    <3> QED
      BY <2>1, <2>3, <3>1 DEF SettledTrue, Landed
  <2>4. Landed'
    BY <2>2, <2>3 DEF Landed
  <2> QED
    BY <1>3, <2>1, <2>2, <2>4 DEF SettledTrue
<1> QED
  BY <1>1, <1>3, <1>5, <1>6 DEF WaitingTrue

LEMMA WaitingSettle ==
  ASSUME TypeShape, CountsOK, CountsTrue, WaitingTrue, Settle
  PROVE  WaitingTrue'
<1>1. Still
  BY QuietMoves DEF Quiet
<1>2. /\ Issued' = Issued /\ Completed' = Completed /\ InAir' = InAir
  BY <1>1 DEF Still
<1>3. /\ cb.at = "track" /\ cb' = NoCallback /\ main' = main /\ radio' = radio /\ fate' = fate
      /\ tracked' = IF Settles THEN Track(cb.n, IF cb.ok THEN "Delivered" ELSE "Failed")
                    ELSE tracked
  BY DEF Settle, sending, history
<1>4. Called /\ ~Called'
  BY <1>3 DEF Called, NoCallback
<1>5. CASE ~Settles
  <2>1. tracked' = tracked /\ Waiting' = Waiting
    BY <1>3, <1>5 DEF Waiting
  <2>2. tracked.state = "Pending" => PendingTrue'
    BY <1>2, <1>3, <1>4, <2>1 DEF WaitingTrue, PendingTrue, Awaited, Sending, Marked
  <2>3. tracked.state \in {"Delivered", "Failed"} => SettledTrue'
    BY <1>2, <1>3, <2>1 DEF WaitingTrue, SettledTrue, Landed
  <2> QED
    BY <1>3, <2>1, <2>2, <2>3 DEF WaitingTrue
<1>6. CASE Settles
  <2>1. tracked.state = "Pending" /\ tracked.n = cb.n % TrackSize
    BY <1>6 DEF Settles, Track
  <2>2. PendingTrue
    BY <2>1 DEF WaitingTrue
  <2>3. /\ Issued \in Nat /\ Completed \in Nat /\ CalledBack \in Nat /\ InAir \in Nat
        /\ Uncounted \in {0, 1} /\ CalledBack <= Issued + Uncounted
        /\ Issued + Uncounted < TrackSize /\ TrackSize \in Nat /\ cb.n \in Numbers
    BY <1>4, WaitingFacts, TypeFacts, ConstantFacts DEF TypeShape
  <2>4. Waiting = CalledBack
    <3>1. CalledBack < TrackSize
      BY <2>3
    <3> QED
      BY <2>1, <2>3, <3>1, TrackPlaces DEF Waiting, CalledBack
  <2>5. Waiting <= Completed /\ fate = (IF cb.ok THEN "Delivered" ELSE "Failed")
    BY <1>4, <2>2, <2>4 DEF PendingTrue
  <2>6. tracked'.state = IF cb.ok THEN "Delivered" ELSE "Failed"
    BY <1>3, <1>6 DEF Track
  <2>7. \A k \in 1 .. InAir : radio[k] # "tracked"
    <3>1. \A k \in 1 .. InAir : Completed + k # Waiting
      BY <2>3, <2>4, <2>5
    <3> QED
      BY <2>2, <3>1 DEF PendingTrue, Marked
  <2>8. SettledTrue'
    BY <1>2, <1>3, <2>5, <2>6, <2>7 DEF SettledTrue, Landed
  <2>9. ~(main.kind = "tracked" /\ main.at = "hand")
    <3>1. ASSUME main.kind = "tracked", main.at = "hand"
          PROVE  FALSE
      <4>1. Waiting = Issued + 1 /\ Uncounted = 0
        BY <2>2, <3>1 DEF PendingTrue, Awaited, Sending, Uncounted
      <4> QED
        BY <2>3, <2>4, <4>1
    <3> QED
      BY <3>1
  <2> QED
    BY <1>3, <2>6, <2>8, <2>9 DEF WaitingTrue
<1> QED
  BY <1>5, <1>6

LEMMA WaitingResync ==
  ASSUME TypeShape, CountsOK, CountsTrue, WaitingTrue, CheckLost \/ RestartEspNow
  PROVE  WaitingTrue'
<1>1. /\ Issued' = Issued /\ InAir' \in {0, InAir} /\ Called' = Called
      /\ Uncounted = 0 /\ Uncounted' = 0 /\ main' = main /\ CalledBack' = CalledBack
  BY ResyncMoves
<1>2. /\ cb' = cb /\ (radio' = radio \/ radio' = <<>>) /\ main.at = "rest" /\ main.kind = "plain"
  BY DEF CheckLost, RestartEspNow, TypeShape, ShapeOK, AtRest
<1>3. \/ Resync(radio')
      \/ completed' = completed /\ radio' = radio /\ tracked' = tracked /\ fate' = fate
  <2>1. CASE CheckLost
    BY <2>1 DEF CheckLost
  <2>2. CASE RestartEspNow
    BY <2>2 DEF RestartEspNow
  <2> QED
    BY <2>1, <2>2
<1>4. CASE completed' = completed /\ radio' = radio /\ tracked' = tracked /\ fate' = fate
  <2>1. Still
    BY <1>1, <1>4 DEF Still, Completed, InAir
  <2> QED
    BY <1>1, <1>2, <1>4, <2>1, WaitingKept
<1>5. CASE Resync(radio')
  <2>1. /\ tracked' = GivenUp
        /\ fate' = IF tracked.state = "Pending" THEN "GivenUp" ELSE fate
    BY <1>5 DEF Resync
  <2>2. CASE tracked.state = "Pending"
    <3>1. tracked'.state = "Failed" /\ fate' = "GivenUp"
      BY <2>1, <2>2 DEF GivenUp, TypeShape, TrackerTypeOK, None
    <3>2. SettledTrue'
      BY <3>1 DEF SettledTrue, Landed
    <3> QED
      BY <1>1, <1>2, <3>1, <3>2 DEF WaitingTrue
  <2>3. CASE tracked.state # "Pending"
    <3>1. tracked' = tracked /\ fate' = fate
      BY <2>1, <2>3 DEF GivenUp
    <3>2. ASSUME tracked.state \in {"Delivered", "Failed"}
          PROVE  SettledTrue'
      <4>1. SettledTrue
        BY <3>2 DEF WaitingTrue
      <4>2. \A k \in 1 .. InAir' : k \in 1 .. InAir /\ radio'[k] = radio[k]
        BY <1>2 DEF InAir
      <4>3. Landed'
        BY <3>1, <4>1, <4>2 DEF SettledTrue, Landed
      <4> QED
        BY <3>1, <4>1, <4>3 DEF SettledTrue
    <3> QED
      BY <1>1, <1>2, <2>3, <3>1, <3>2 DEF WaitingTrue
  <2> QED
    BY <2>2, <2>3
<1> QED
  BY <1>3, <1>4, <1>5

LEMMA WaitingStep ==
  ASSUME TypeShape, TypeShape', CountsOK, TruthOK, WaitingOK, Next
  PROVE  WaitingOK'
<1> SUFFICES ASSUME Sure("tracked")' PROVE WaitingTrue'
  BY DEF WaitingOK
<1>1. CASE SendTracked
  BY <1>1, SendTrackedSure, WaitingSendTracked
<1>2. CASE SendProbe
  BY <1>2, SendProbeSure, WaitingSendProbe DEF WaitingOK, TruthOK
<1>3. CASE CheckLost \/ RestartEspNow
  BY <1>3, ResyncSure, WaitingResync DEF WaitingOK, TruthOK
<1>4. CASE LoseCallback
  BY <1>4, LoseDoubts
<1>5. ASSUME doubt' = doubt
      PROVE  WaitingTrue /\ CountsTrue
  BY <1>5 DEF WaitingOK, TruthOK, Sure
<1>6. CASE Hand
  BY <1>5, <1>6, WaitingHand DEF Hand, history
<1>7. CASE Count
  BY <1>5, <1>7, WaitingCount DEF Count, history
<1>8. CASE EndTracked
  BY <1>5, <1>8, WaitingEndTracked DEF EndTracked, history
<1>9. CASE TakeTracked
  BY <1>9, WaitingTaken
<1>10. CASE Callback
  BY <1>5, <1>10, WaitingCallback DEF Callback
<1>11. CASE Settle
  BY <1>5, <1>11, WaitingSettle DEF Settle, history
<1>12. CASE \/ SetRange \/ Arm \/ EndProbe \/ EndPlain \/ ClearProbe
            \/ SeePending \/ SeeRange \/ StoreAck \/ Tick \/ SendPlain
  <2>1. doubt' = doubt
    BY <1>12 DEF SetRange, Arm, EndProbe, EndPlain, ClearProbe, SeePending, SeeRange, StoreAck,
         Tick, SendPlain, history
  <2> QED
    BY <1>5, <1>12, <2>1, WaitingQuiet
<1> QED
  BY <1>1, <1>2, <1>3, <1>4, <1>6, <1>7, <1>8, <1>9, <1>10, <1>11, <1>12
  DEF Next, Sends, Progress, WifiTask

-----------------------------------------------------------------------------
(* What is true of the present probe when there is no doubt of it.         *)
InProbe(n) == First <= n /\ n <= Last
ReportingProbe == Reporting /\ InProbe(CalledBack)

\* While it is sent its end is open; afterwards it ends with a frame that was sent.
Spans ==
  /\ First >= 1
  /\ IF main.kind = "probe" THEN First <= Issued + 1 /\ Last = First + OpenSpan
     ELSE First <= Last /\ Last <= Issued
Probing == \A k \in 1 .. InAir : radio[k] = "probe" <=> InProbe(Completed + k)

\* An acknowledgement of the probe is stored, or the callback that will store it has begun;
\* what is stored of the probe was acknowledged; and a callback of an earlier frame, which
\* may overwrite it, comes before all of them.
Recorded ==
  /\ Stored <= Issued + Uncounted
  /\ InProbe(Stored) \/ ReportingProbe => acked
  /\ acked => First <= Completed /\ (InProbe(Stored) \/ ReportingProbe)
  /\ Called /\ CalledBack < First => ~acked
  /\ cb.at = "ack" => CalledBack <= Last
OpenTrue == Spans /\ Probing /\ Recorded

Unprobed == ~acked /\ \A k \in 1 .. InAir : radio[k] # "probe"
ProbeTrue ==
  /\ main.at \in {"range", "arm"} => Unprobed
  /\ main.at = "arm" => First = Issued + 1 /\ Last = First + OpenSpan
  /\ main.kind = "probe" /\ main.at \notin {"range", "arm"} => probe.pending
  /\ probe.pending => OpenTrue

ProbeOK == Sure("probe") => ProbeTrue

LEMMA ProbeFacts ==
  ASSUME TypeShape, CountsOK, CountsTrue
  PROVE  /\ Issued \in Nat /\ Completed \in Nat /\ CalledBack \in Nat /\ InAir \in Nat
         /\ First \in Nat /\ Last \in Nat /\ Stored \in Nat /\ OpenSpan \in Nat
         /\ Uncounted \in {0, 1} /\ Completed + InAir = Issued + Uncounted
         /\ Called => CalledBack <= Issued + Uncounted
         /\ Issued + Uncounted <= OpenSpan
         /\ main.at \in {"range", "arm", "hand"} => Issued + 1 <= OpenSpan
         /\ main.at # "count" => Uncounted = 0
<1>1. probe.first \in Int /\ probe.last \in Int /\ probe.ack \in Int
  BY TypeFacts, ConstantFacts DEF TypeShape, Numbers
<1>2. First \in Nat /\ Last \in Nat /\ Stored \in Nat
  BY <1>1, PlaceNat DEF First, Last, Stored
<1>3. /\ Issued \in Nat /\ Uncounted \in {0, 1} /\ Budget \in Nat /\ Budget + main.left <= MaxFrames
      /\ main.left \in 0 .. Peers /\ Issued + Uncounted <= Budget
      /\ OpenSpan \in Nat /\ MaxFrames \in Nat /\ MaxFrames <= OpenSpan /\ Peers \in Nat \ {0}
  BY CountFacts, ConstantFacts DEF CountsOK
<1>4. main.left \in Nat
  BY <1>3
<1>5. Issued + Uncounted <= OpenSpan
  BY <1>3, <1>4
<1>6. ASSUME main.at \in {"range", "arm", "hand"}
      PROVE  Issued + 1 <= OpenSpan
  <2>1. main.left >= 1 /\ Uncounted = 0
    BY <1>3, <1>6 DEF TypeShape, ShapeOK, Uncounted
  <2> QED
    BY <1>3, <1>4, <2>1
<1>7. main.at # "count" => Uncounted = 0
  BY DEF Uncounted
<1> QED
  BY <1>2, <1>3, <1>5, <1>6, <1>7, CountFacts DEF CountsTrue

\* A step that concerns neither the probe nor the counts.
LEMMA ProbeKept ==
  ASSUME ProbeTrue, Still, probe' = probe, acked' = acked,
         \A k \in 1 .. InAir : radio'[k] = "probe" <=> radio[k] = "probe",
         Reporting' <=> Reporting, Reporting => CalledBack' = CalledBack,
         cb'.at = "ack" => cb.at = "ack",
         main' = main \/ (main.kind # "probe" /\ main'.kind # "probe"
                            /\ main'.at \notin {"range", "arm"})
  PROVE  ProbeTrue'
<1>1. /\ Issued' = Issued /\ Completed' = Completed /\ InAir' = InAir /\ Uncounted' = Uncounted
      /\ Called' => Called /\ CalledBack' = CalledBack
  BY DEF Still
<1>2. First' = First /\ Last' = Last /\ Stored' = Stored
  BY DEF First, Last, Stored
<1>3. main'.at \in {"range", "arm"} => Unprobed'
  <2>1. main'.at \in {"range", "arm"} => Unprobed
    BY DEF ProbeTrue
  <2> QED
    BY <1>1, <2>1 DEF Unprobed
<1>4. main'.at = "arm" => First' = Issued' + 1 /\ Last' = First' + OpenSpan
  BY <1>1, <1>2 DEF ProbeTrue
<1>5. main'.kind = "probe" /\ main'.at \notin {"range", "arm"} => probe'.pending
  BY DEF ProbeTrue
<1>6. ASSUME probe.pending
      PROVE  OpenTrue'
  <2>1. OpenTrue
    BY <1>6 DEF ProbeTrue
  <2>2. Spans'
    BY <1>1, <1>2, <2>1 DEF OpenTrue, Spans
  <2>3. Probing'
    BY <1>1, <1>2, <2>1 DEF OpenTrue, Probing, InProbe
  <2>4. ReportingProbe' <=> ReportingProbe
    BY <1>2 DEF ReportingProbe, InProbe
  <2>5. InProbe(Stored)' <=> InProbe(Stored)
    BY <1>2 DEF InProbe
  <2>6. Called' /\ CalledBack' < First' => ~acked'
    BY <1>1, <1>2, <2>1 DEF OpenTrue, Recorded
  <2>7. cb'.at = "ack" => CalledBack' <= Last'
    BY <1>1, <1>2, <2>1 DEF OpenTrue, Recorded, Called
  <2>8. Recorded'
    BY <1>1, <1>2, <2>1, <2>4, <2>5, <2>6, <2>7 DEF OpenTrue, Recorded
  <2> QED
    BY <2>2, <2>3, <2>8 DEF OpenTrue
<1> QED
  BY <1>3, <1>4, <1>5, <1>6 DEF ProbeTrue

LEMMA ProbeQuiet ==
  ASSUME TypeShape, ProbeTrue,
         SendPlain \/ SendTracked \/ EndPlain \/ EndTracked \/ TakeTracked \/ Settle \/ Tick
  PROVE  ProbeTrue'
<1>1. Still
  BY QuietMoves, SendMoves DEF Quiet
<1>2. probe' = probe /\ acked' = acked
  BY DEF SendPlain, SendTracked, EndPlain, EndTracked, TakeTracked, Settle, Tick, history
<1>3. cb' = cb \/ (cb.at = "track" /\ cb'.at = "rest")
  BY DEF SendPlain, SendTracked, EndPlain, EndTracked, TakeTracked, Settle, Tick, NoCallback
<1>4. /\ Reporting' <=> Reporting
      /\ Reporting => CalledBack' = CalledBack
      /\ cb'.at = "ack" => cb.at = "ack"
  BY <1>3 DEF Reporting, CalledBack
<1>5. \A k \in 1 .. InAir : radio'[k] = "probe" <=> radio[k] = "probe"
  <2>1. CASE SendTracked
    <3>1. radio \in Seq(Kinds) /\ "tracked" \in Kinds /\ radio' = Superseded("tracked")
      BY <2>1, TypeFacts DEF TypeShape, Kinds, SendTracked
    <3>2. \A k \in 1 .. InAir : radio'[k] = IF radio[k] = "tracked" THEN "plain" ELSE radio[k]
      BY <3>1, SupersededIs DEF InAir
    <3> QED
      BY <3>2
  <2>2. CASE SendPlain \/ EndPlain \/ EndTracked \/ TakeTracked \/ Settle \/ Tick
    BY <2>2 DEF SendPlain, EndPlain, EndTracked, TakeTracked, Settle, Tick
  <2> QED
    BY <2>1, <2>2
<1>6. main' = main \/ (main.kind # "probe" /\ main'.kind # "probe"
                         /\ main'.at \notin {"range", "arm"})
  <2>1. CASE SendPlain \/ SendTracked
    BY <2>1 DEF SendPlain, SendTracked, Begin, AtRest, TypeShape, ShapeOK
  <2>2. CASE EndPlain \/ EndTracked
    BY <2>2 DEF EndPlain, EndTracked, AtRest
  <2>3. CASE TakeTracked \/ Settle \/ Tick
    BY <2>3 DEF TakeTracked, Settle, Tick, sending
  <2> QED
    BY <2>1, <2>2, <2>3
<1> QED
  BY <1>1, <1>2, <1>4, <1>5, <1>6, ProbeKept

LEMMA ProbeSend ==
  ASSUME TypeShape, CountsOK, SendProbe
  PROVE  ProbeTrue'
<1>1. main'.at = "range" /\ probe'.pending = FALSE /\ acked' = FALSE
  BY DEF SendProbe, Begin, TypeShape, TrackerTypeOK
<1>2. InAir' = InAir
  BY SendProbeMoves
<1>3. \A k \in 1 .. InAir : radio'[k] # "probe"
  <2>1. radio \in Seq(Kinds) /\ "probe" \in Kinds /\ radio' = Superseded("probe")
    BY TypeFacts DEF TypeShape, Kinds, SendProbe
  <2>2. \A k \in 1 .. InAir : radio'[k] = IF radio[k] = "probe" THEN "plain" ELSE radio[k]
    BY <2>1, SupersededIs DEF InAir
  <2> QED
    BY <2>2
<1>4. Unprobed'
  BY <1>1, <1>2, <1>3 DEF Unprobed
<1> QED
  BY <1>1, <1>4 DEF ProbeTrue

LEMMA ProbeSetRange ==
  ASSUME TypeShape, CountsOK, CountsTrue, ProbeTrue, SetRange
  PROVE  ProbeTrue'
<1>1. Still
  BY QuietMoves DEF Quiet
<1>2. /\ main.at = "range" /\ main' = [main EXCEPT !.at = "arm"] /\ radio' = radio /\ acked' = acked
      /\ probe' = [probe EXCEPT !.first = Plus(issued, 1), !.last = Plus(issued, 1 + OpenSpan)]
  BY DEF SetRange, history
<1>3. /\ main'.at = "arm"
      /\ probe'.first = Plus(issued, 1) /\ probe'.last = Plus(issued, 1 + OpenSpan)
      /\ probe'.pending = probe.pending
  BY <1>2 DEF TypeShape, TrackerTypeOK
<1>4. ~probe.pending
  BY <1>2 DEF TypeShape, TrackerTypeOK
<1>5. First' = Issued + 1 /\ Last' = Issued + (1 + OpenSpan)
  <2>1. /\ issued \in Int /\ Issued \in Nat /\ Issued + 1 <= OpenSpan /\ OpenSpan \in Nat
        /\ SeqSize = 2 * OpenSpan + 2
    BY <1>2, ProbeFacts, TypeFacts, ConstantFacts DEF TypeShape, Numbers
  <2>2. Issued + 1 \in 0 .. SeqSize - 1 /\ Issued + (1 + OpenSpan) \in 0 .. SeqSize - 1
        /\ 1 + OpenSpan \in Int
    BY <2>1
  <2> QED
    BY <1>3, <2>1, <2>2, PlacePlus DEF First, Last, Issued
<1>6. Issued' = Issued /\ Issued \in Nat /\ OpenSpan \in Nat /\ InAir' = InAir
  BY <1>1, ProbeFacts DEF Still
<1>7. First' = Issued' + 1 /\ Last' = First' + OpenSpan
  BY <1>5, <1>6
<1>8. Unprobed'
  BY <1>2, <1>6 DEF ProbeTrue, Unprobed
<1> QED
  BY <1>3, <1>4, <1>7, <1>8 DEF ProbeTrue

LEMMA ProbeArm ==
  ASSUME TypeShape, CountsOK, CountsTrue, ProbeTrue, Arm
  PROVE  ProbeTrue'
<1>1. Still
  BY QuietMoves DEF Quiet
<1>2. /\ main.at = "arm" /\ main' = [main EXCEPT !.at = "hand"] /\ radio' = radio /\ acked' = acked
      /\ cb' = cb
      /\ probe' = [probe EXCEPT !.ack = Plus(probe.first, -1), !.pending = TRUE]
  BY DEF Arm, history
<1>3. /\ main'.at = "hand" /\ main'.kind = "probe"
      /\ probe'.first = probe.first /\ probe'.last = probe.last
      /\ probe'.ack = Plus(probe.first, -1) /\ probe'.pending = TRUE
  BY <1>2 DEF TypeShape, TrackerTypeOK, ShapeOK
<1>4. First = Issued + 1 /\ Last = First + OpenSpan /\ Unprobed
  BY <1>2 DEF ProbeTrue
<1>5. /\ Issued \in Nat /\ Completed \in Nat /\ CalledBack \in Nat /\ InAir \in Nat
      /\ OpenSpan \in Nat /\ Uncounted = 0 /\ Completed + InAir = Issued
      /\ (Called => CalledBack <= Issued)
  BY <1>2, ProbeFacts DEF Uncounted
<1>6. First' = First /\ Last' = Last
  BY <1>3 DEF First, Last
<1>7. Stored' = Issued
  <2>1. probe.first \in Int /\ First - 1 \in 0 .. SeqSize - 1 /\ First + (-1) = Issued
    <3>1. probe.first \in Int /\ First \in Nat /\ First < SeqSize /\ SeqSize \in Nat
      <4>1. probe.first \in Int /\ SeqSize \in Nat
        BY TypeFacts, ConstantFacts DEF TypeShape, Numbers
      <4> QED
        BY <4>1, PlaceNat DEF First
    <3> QED
      BY <1>4, <1>5, <3>1
  <2>2. First + (-1) \in 0 .. SeqSize - 1
    BY <1>4, <1>5, <2>1
  <2> QED
    BY <1>3, <2>1, <2>2, PlacePlus DEF First, Stored
<1>8. /\ Issued' = Issued /\ Completed' = Completed /\ InAir' = InAir /\ Uncounted' = 0
      /\ (Called' => CalledBack' <= Issued)
  BY <1>1, <1>5 DEF Still
<1>9. Spans'
  BY <1>3, <1>4, <1>5, <1>6, <1>8 DEF Spans
<1>10. Probing'
  <2>1. \A k \in 1 .. InAir : radio[k] # "probe" /\ ~(First <= Completed + k)
    BY <1>4, <1>5 DEF Unprobed
  <2> QED
    BY <1>2, <1>6, <1>8, <2>1 DEF Probing, InProbe
<1>11. Recorded'
  <2>1. acked' = FALSE
    BY <1>2, <1>4 DEF Unprobed, TypeShape, TrackerTypeOK
  <2>2. ~InProbe(Stored)' /\ ~ReportingProbe'
    <3>1. ~(First <= Issued)
      BY <1>4, <1>5
    <3>2. Called' => ~(First' <= CalledBack')
      BY <1>4, <1>5, <1>6, <1>8, <1>1 DEF Still
    <3>3. Reporting' => Called'
      BY DEF Reporting, Called
    <3> QED
      BY <1>6, <1>7, <3>1, <3>2, <3>3 DEF InProbe, ReportingProbe
  <2>3. cb'.at = "ack" => CalledBack' <= Last'
    <3>1. Called' => CalledBack' <= Last'
      BY <1>1, <1>4, <1>5, <1>6, <1>8 DEF Still
    <3> QED
      BY <3>1 DEF Called
  <2>4. Stored' <= Issued' + Uncounted'
    BY <1>5, <1>7, <1>8
  <2> QED
    BY <2>1, <2>2, <2>3, <2>4 DEF Recorded
<1> QED
  BY <1>3, <1>9, <1>10, <1>11 DEF ProbeTrue, OpenTrue

LEMMA ProbeHand ==
  ASSUME TypeShape, CountsOK, CountsTrue, ProbeTrue, Hand
  PROVE  ProbeTrue'
<1>1. /\ Issued' = Issued /\ Completed' = Completed /\ Called' = Called
      /\ CalledBack' = CalledBack /\ Uncounted = 0 /\ main.at = "hand" /\ main'.kind = main.kind
      /\ main'.at \notin {"range", "arm"} /\ Uncounted' \in {0, 1}
  BY HandMoves
<1>2. \/ radio' = radio /\ InAir' = InAir
      \/ radio' = Append(radio, main.kind) /\ InAir' = InAir + 1
  BY HandMoves
<1>3. probe' = probe /\ acked' = acked /\ cb' = cb
  BY DEF Hand, history
<1>4. First' = First /\ Last' = Last /\ Stored' = Stored
  BY <1>3 DEF First, Last, Stored
<1>5. /\ Issued \in Nat /\ Completed \in Nat /\ CalledBack \in Nat /\ InAir \in Nat
      /\ First \in Nat /\ Last \in Nat /\ Stored \in Nat /\ OpenSpan \in Nat
      /\ Completed + InAir = Issued /\ Issued + 1 <= OpenSpan
      /\ radio \in Seq(Kinds) /\ main.kind \in Kinds /\ InAir = Len(radio)
  BY <1>1, ProbeFacts, TypeFacts DEF TypeShape, InAir
<1>6. Append(radio, main.kind)[InAir + 1] = main.kind
      /\ \A k \in 1 .. InAir : Append(radio, main.kind)[k] = radio[k]
  BY <1>5
<1>7. ASSUME probe.pending
      PROVE  OpenTrue'
  <2>1. Spans /\ Probing /\ Recorded
    BY <1>7 DEF ProbeTrue, OpenTrue
  <2>2. Spans'
    BY <1>1, <1>4, <2>1 DEF Spans
  <2>3. main.kind = "probe" <=> InProbe(Completed + (InAir + 1))
    <3>1. CASE main.kind = "probe"
      <4>1. First <= Issued + 1 /\ Issued + 1 <= Last
        BY <1>5, <2>1, <3>1 DEF Spans
      <4> QED
        BY <1>5, <3>1, <4>1 DEF InProbe
    <3>2. CASE main.kind # "probe"
      <4>1. ~(Issued + 1 <= Last)
        BY <1>5, <2>1, <3>2 DEF Spans
      <4>2. Completed + (InAir + 1) = Issued + 1
        BY <1>5
      <4> QED
        BY <3>2, <4>1, <4>2 DEF InProbe
    <3> QED
      BY <3>1, <3>2
  <2>4. ASSUME radio' = radio, InAir' = InAir
        PROVE  Probing'
    BY <1>1, <1>4, <2>1, <2>4 DEF Probing, InProbe
  <2>5. ASSUME radio' = Append(radio, main.kind), InAir' = InAir + 1
        PROVE  Probing'
    <3>1. ASSUME NEW k \in 1 .. InAir + 1
          PROVE  radio'[k] = "probe" <=> InProbe(Completed + k)
      <4>1. CASE k = InAir + 1
        BY <1>6, <2>3, <2>5, <4>1
      <4>2. CASE k # InAir + 1
        <5>1. k \in 1 .. InAir
          BY <1>5, <4>2
        <5> QED
          BY <1>6, <2>1, <2>5, <5>1 DEF Probing
      <4> QED
        BY <4>1, <4>2
    <3>2. Completed' = Completed /\ First' = First /\ Last' = Last
      BY <1>1, <1>4
    <3>3. ASSUME NEW k \in 1 .. InAir'
          PROVE  radio'[k] = "probe" <=> First' <= Completed' + k /\ Completed' + k <= Last'
      <4>1. k \in 1 .. InAir + 1
        BY <2>5, <3>3
      <4>2. radio'[k] = "probe" <=> InProbe(Completed + k)
        BY <3>1, <4>1
      <4> QED
        BY <3>2, <4>2 DEF InProbe
    <3> QED
      BY <3>3 DEF Probing, InProbe
  <2>6. Probing'
    BY <1>2, <2>4, <2>5
  <2>7. Stored' <= Issued' + Uncounted'
    <3> DEFINE u == Uncounted'
    <3>1. Stored <= Issued + 0 /\ u \in {0, 1}
      BY <1>1, <2>1 DEF Recorded
    <3> HIDE DEF u
    <3>2. Stored <= Issued + u
      BY <1>5, <3>1
    <3> QED
      BY <1>1, <1>4, <3>2 DEF u
  <2>8. (InProbe(Stored)' <=> InProbe(Stored)) /\ (ReportingProbe' <=> ReportingProbe)
    BY <1>1, <1>3, <1>4 DEF InProbe, ReportingProbe, Reporting
  <2>9. Recorded'
    BY <1>1, <1>3, <1>4, <2>1, <2>7, <2>8 DEF Recorded
  <2> QED
    BY <2>2, <2>6, <2>9 DEF OpenTrue
<1>8. main'.kind = "probe" => probe'.pending
  BY <1>1, <1>3 DEF ProbeTrue
<1> QED
  BY <1>1, <1>3, <1>7, <1>8 DEF ProbeTrue

LEMMA ProbeCount ==
  ASSUME TypeShape, CountsOK, CountsTrue, ProbeTrue, Count
  PROVE  ProbeTrue'
<1>1. /\ Issued' = Issued + 1 /\ Completed' = Completed /\ InAir' = InAir /\ Called' = Called
      /\ CalledBack' = CalledBack /\ Uncounted = 1 /\ Uncounted' = 0
      /\ main.at = "count" /\ main'.kind = main.kind /\ main'.at \notin {"range", "arm"}
  BY CountMoves
<1>2. probe' = probe /\ acked' = acked /\ cb' = cb /\ radio' = radio
  BY DEF Count, history
<1>3. First' = First /\ Last' = Last /\ Stored' = Stored
  BY <1>2 DEF First, Last, Stored
<1>4. /\ Issued \in Nat /\ First \in Nat /\ Last \in Nat /\ Stored \in Nat /\ OpenSpan \in Nat
  BY ProbeFacts
<1>5. ASSUME probe.pending
      PROVE  OpenTrue'
  <2>1. Spans /\ Probing /\ Recorded
    BY <1>5 DEF ProbeTrue, OpenTrue
  <2>2. Spans'
    <3>1. CASE main.kind = "probe"
      <4>1. First >= 1 /\ First <= Issued + 1 /\ Last = First + OpenSpan
        BY <2>1, <3>1 DEF Spans
      <4>2. First <= (Issued + 1) + 1
        BY <1>4, <4>1
      <4> QED
        BY <1>1, <1>3, <3>1, <4>1, <4>2 DEF Spans
    <3>2. CASE main.kind # "probe"
      <4>1. First >= 1 /\ First <= Last /\ Last <= Issued
        BY <2>1, <3>2 DEF Spans
      <4>2. Last <= Issued + 1
        BY <1>4, <4>1
      <4> QED
        BY <1>1, <1>3, <3>2, <4>1, <4>2 DEF Spans
    <3> QED
      BY <3>1, <3>2
  <2>3. Probing'
    BY <1>1, <1>2, <1>3, <2>1 DEF Probing, InProbe
  <2>4. Stored' <= Issued' + Uncounted'
    <3>1. Stored <= Issued + 1
      BY <1>1, <2>1 DEF Recorded
    <3> QED
      BY <1>1, <1>3, <1>4, <3>1
  <2>5. (InProbe(Stored)' <=> InProbe(Stored)) /\ (ReportingProbe' <=> ReportingProbe)
    BY <1>1, <1>2, <1>3 DEF InProbe, ReportingProbe, Reporting
  <2>6. Recorded'
    BY <1>1, <1>2, <1>3, <2>1, <2>4, <2>5 DEF Recorded
  <2> QED
    BY <2>2, <2>3, <2>6 DEF OpenTrue
<1>6. main'.kind = "probe" => probe'.pending
  BY <1>1, <1>2 DEF ProbeTrue
<1> QED
  BY <1>1, <1>2, <1>5, <1>6 DEF ProbeTrue

\* The range ends with the last frame sent, which is in it unless all were refused.
LEMMA ProbeEnd ==
  ASSUME TypeShape, CountsOK, CountsTrue, ProbeTrue, EndProbe
  PROVE  ProbeTrue'
<1>1. Still
  BY QuietMoves DEF Quiet
<1>2. /\ main.at = "end" /\ main.kind = "probe" /\ main' = AtRest
      /\ radio' = radio /\ acked' = acked /\ cb' = cb
      /\ probe' = IF issued = Plus(probe.first, -1) THEN [probe EXCEPT !.pending = FALSE]
                 ELSE [probe EXCEPT !.last = issued]
  BY DEF EndProbe, history
<1>3. main'.at = "rest" /\ main'.kind = "plain"
  BY <1>2 DEF AtRest
<1>4. /\ Issued \in Nat /\ Completed \in Nat /\ CalledBack \in Nat /\ InAir \in Nat
      /\ First \in Nat /\ Last \in Nat /\ Stored \in Nat /\ OpenSpan \in Nat
      /\ Uncounted = 0 /\ Completed + InAir = Issued
      /\ (Called => CalledBack <= Issued) /\ Issued <= OpenSpan
  BY <1>2, ProbeFacts DEF Uncounted
<1>5. probe.pending /\ Spans /\ Probing /\ Recorded
  BY <1>2 DEF ProbeTrue, OpenTrue
<1>6. First >= 1 /\ First <= Issued + 1 /\ Last = First + OpenSpan
  BY <1>2, <1>5 DEF Spans
<1>7. issued = Plus(probe.first, -1) <=> Issued = First - 1
  <2>1. probe.first \in Int /\ issued \in Numbers /\ SeqSize \in Nat
    BY TypeFacts, ConstantFacts DEF TypeShape, Numbers
  <2>2. First < SeqSize
    BY <2>1, PlaceNat DEF First
  <2>3. First + (-1) \in 0 .. SeqSize - 1 /\ First + (-1) = First - 1
    BY <1>4, <1>6, <2>1, <2>2
  <2>4. Place(Plus(probe.first, -1)) = First - 1 /\ Plus(probe.first, -1) \in Numbers
    BY <2>1, <2>3, PlacePlus DEF First
  <2> QED
    BY <2>1, <2>4, PlaceOfOne DEF Issued
<1>8. CASE Issued = First - 1
  <2>1. probe'.pending = FALSE
    BY <1>2, <1>7, <1>8 DEF TypeShape, TrackerTypeOK
  <2> QED
    BY <1>3, <2>1 DEF ProbeTrue
<1>9. CASE Issued # First - 1
  <2>1. probe' = [probe EXCEPT !.last = issued]
    BY <1>2, <1>7, <1>9
  <2>2. /\ probe'.first = probe.first /\ probe'.last = issued /\ probe'.ack = probe.ack
    BY <2>1 DEF TypeShape, TrackerTypeOK
  <2>3. First' = First /\ Last' = Issued /\ Stored' = Stored
    BY <2>2 DEF First, Last, Stored, Issued
  <2>4. First <= Issued /\ Issued <= Last
    BY <1>4, <1>6, <1>9
  <2>5. /\ Issued' = Issued /\ Completed' = Completed /\ InAir' = InAir /\ Uncounted' = Uncounted
        /\ Called' => Called /\ CalledBack' = CalledBack
    BY <1>1 DEF Still
  <2>6. Spans'
    BY <1>3, <1>4, <1>6, <2>3, <2>4, <2>5 DEF Spans
  <2>7. ASSUME NEW n \in Nat, n <= Issued
        PROVE  InProbe(n) <=> First <= n /\ n <= Issued
    BY <1>4, <2>4, <2>7 DEF InProbe
  <2>8. Probing'
    <3>1. ASSUME NEW k \in 1 .. InAir
          PROVE  radio[k] = "probe" <=> First <= Completed + k /\ Completed + k <= Issued
      <4>1. Completed + k \in Nat /\ Completed + k <= Issued
        BY <1>4, <3>1
      <4> QED
        BY <1>5, <2>7, <3>1, <4>1 DEF Probing
    <3> QED
      BY <1>2, <2>3, <2>5, <3>1 DEF Probing, InProbe
  <2>9. Stored <= Issued
    <3>1. Stored <= Issued + 0
      BY <1>4, <1>5 DEF Recorded
    <3> QED
      BY <1>4, <3>1
  <2>10. InProbe(Stored)' <=> InProbe(Stored)
    BY <1>4, <2>3, <2>7, <2>9 DEF InProbe
  <2>11. ReportingProbe' <=> ReportingProbe
    <3>1. CASE Reporting
      <4>1. CalledBack <= Issued /\ CalledBack' = CalledBack /\ Reporting'
        BY <1>2, <1>4, <3>1 DEF Reporting, Called, CalledBack
      <4> QED
        BY <1>4, <2>3, <2>7, <3>1, <4>1 DEF ReportingProbe, InProbe
    <3>2. CASE ~Reporting
      BY <1>2, <3>2 DEF ReportingProbe, Reporting
    <3> QED
      BY <3>1, <3>2
  <2>12. cb'.at = "ack" => CalledBack' <= Last'
    BY <1>2, <1>4, <2>3 DEF Called, CalledBack
  <2>13. Stored' <= Issued' + Uncounted'
    BY <1>4, <2>3, <2>5, <2>9
  <2>14. Recorded'
    BY <1>2, <1>5, <2>3, <2>5, <2>10, <2>11, <2>12, <2>13 DEF Recorded
  <2> QED
    BY <1>3, <2>6, <2>8, <2>14 DEF ProbeTrue, OpenTrue
<1> QED
  BY <1>8, <1>9

LEMMA ProbeClear ==
  ASSUME TypeShape, ClearProbe
  PROVE  ProbeTrue'
<1>1. main'.at = "rest" /\ main'.kind = "plain" /\ probe'.pending = FALSE
  BY DEF ClearProbe, sending, TypeShape, TrackerTypeOK, ShapeOK, AtRest
<1> QED
  BY <1>1 DEF ProbeTrue

\* A callback has the place of its frame, so it is of the probe exactly if its frame is.
LEMMA ProbeCallback ==
  ASSUME TypeShape, CountsOK, CountsTrue, ProbeTrue, Callback
  PROVE  ProbeTrue'
<1>1. /\ Issued' = Issued /\ Completed' = Completed + 1 /\ InAir' = InAir - 1
      /\ InAir \in Nat \ {0} /\ ~Called /\ CalledBack' = Completed + 1 /\ main' = main
      /\ Uncounted' = Uncounted
      /\ \A k \in 1 .. InAir' : radio'[k] = radio[k + 1]
      /\ Head(radio) = radio[1]
  BY CallbackMoves
<1>2. PICK ok \in BOOLEAN :
        /\ cb' = [at |-> IF ok THEN "pending" ELSE "track", n |-> completed', ok |-> ok]
        /\ acked' = (acked \/ (ok /\ Head(radio) = "probe"))
  BY DEF Callback
<1>3. probe' = probe /\ First' = First /\ Last' = Last /\ Stored' = Stored
  BY DEF Callback, First, Last, Stored
<1>4. (Reporting' <=> ok) /\ cb'.at # "ack" /\ ~Reporting
  BY <1>1, <1>2 DEF Reporting, Called
<1>5. /\ Issued \in Nat /\ Completed \in Nat /\ CalledBack \in Nat /\ InAir \in Nat
      /\ First \in Nat /\ Last \in Nat /\ Stored \in Nat
      /\ Completed + InAir = Issued + Uncounted /\ Uncounted \in {0, 1}
  BY ProbeFacts
<1>6. ASSUME probe.pending
      PROVE  OpenTrue'
  <2>1. Spans /\ Probing /\ Recorded
    BY <1>6 DEF ProbeTrue, OpenTrue
  <2>2. Spans'
    BY <1>1, <1>3, <2>1 DEF Spans
  <2>3. Probing'
    <3>1. ASSUME NEW k \in 1 .. InAir - 1
          PROVE  radio'[k] = "probe" <=> First <= (Completed + 1) + k /\ (Completed + 1) + k <= Last
      <4>1. k + 1 \in 1 .. InAir /\ Completed + (k + 1) = (Completed + 1) + k
        BY <1>5, <3>1
      <4>2. radio'[k] = radio[k + 1]
        BY <1>1, <3>1
      <4>3. radio[k + 1] = "probe" <=> InProbe(Completed + (k + 1))
        BY <2>1, <4>1 DEF Probing
      <4> QED
        BY <4>1, <4>2, <4>3 DEF InProbe
    <3> QED
      BY <1>1, <1>3, <3>1 DEF Probing, InProbe
  <2>4. Head(radio) = "probe" <=> InProbe(Completed + 1)
    BY <1>1, <2>1 DEF Probing
  <2>5. acked' <=> (acked \/ (ok /\ InProbe(Completed + 1)))
    BY <1>2, <2>4
  <2>6. InProbe(Stored)' <=> InProbe(Stored)
    BY <1>3 DEF InProbe
  <2>7. ReportingProbe' <=> (ok /\ InProbe(Completed + 1))
    BY <1>1, <1>3, <1>4 DEF ReportingProbe, InProbe
  <2>8. ~ReportingProbe
    BY <1>4 DEF ReportingProbe
  <2>9. acked <=> InProbe(Stored)
    BY <2>1, <2>8 DEF Recorded
  <2>10. InProbe(Stored)' \/ ReportingProbe' <=> acked'
    BY <2>5, <2>6, <2>7, <2>9
  <2>11. acked' => First' <= Completed'
    <3>1. acked => First <= Completed + 1
      <4>1. acked => First <= Completed
        BY <2>1 DEF Recorded
      <4> QED
        BY <1>5, <4>1
    <3>2. InProbe(Completed + 1) => First <= Completed + 1
      BY DEF InProbe
    <3> QED
      BY <1>1, <1>3, <2>5, <3>1, <3>2
  <2>12. CalledBack' < First' => ~acked'
    <3>1. Completed' = Completed + 1 /\ CalledBack' = Completed + 1 /\ First' = First
      BY <1>1, <1>3
    <3>2. Completed + 1 < First => ~(First <= Completed + 1)
      BY <1>5
    <3> QED
      BY <2>11, <3>1, <3>2
  <2>13. Stored' <= Issued' + Uncounted'
    BY <1>1, <1>3, <2>1 DEF Recorded
  <2>14. Recorded'
    BY <1>4, <2>10, <2>11, <2>12, <2>13 DEF Recorded
  <2> QED
    BY <2>2, <2>3, <2>14 DEF OpenTrue
<1>7. ASSUME main.at \in {"range", "arm"}
      PROVE  Unprobed'
  <2>1. Unprobed
    BY <1>7 DEF ProbeTrue
  <2>2. Head(radio) # "probe"
    <3>1. 1 \in 1 .. InAir
      BY <1>1
    <3> QED
      BY <1>1, <2>1, <3>1 DEF Unprobed
  <2>3. ~acked'
    BY <1>2, <2>1, <2>2, Zenon DEF Unprobed
  <2>4. ASSUME NEW k \in 1 .. InAir - 1
        PROVE  radio'[k] # "probe"
    <3>1. k + 1 \in 1 .. InAir /\ radio'[k] = radio[k + 1]
      BY <1>1, <1>5, <2>4
    <3> QED
      BY <2>1, <3>1 DEF Unprobed
  <2> QED
    BY <1>1, <2>3, <2>4 DEF Unprobed
<1>8. main.at = "arm" => First' = Issued' + 1 /\ Last' = First' + OpenSpan
  BY <1>1, <1>3 DEF ProbeTrue
<1> QED
  BY <1>1, <1>3, <1>6, <1>7, <1>8 DEF ProbeTrue

LEMMA ProbeSeePending ==
  ASSUME TypeShape, ProbeTrue, SeePending
  PROVE  ProbeTrue'
<1>1. Still
  BY QuietMoves DEF Quiet
<1>2. /\ cb.at = "pending" /\ cb' = [cb EXCEPT !.at = IF probe.pending THEN "range" ELSE "track"]
      /\ probe' = probe /\ acked' = acked /\ radio' = radio /\ main' = main
  BY DEF SeePending, sending, history
<1>3. cb'.at = (IF probe.pending THEN "range" ELSE "track") /\ cb'.n = cb.n
  BY <1>2 DEF TypeShape, TrackerTypeOK
<1>4. CASE probe.pending
  <2>1. Reporting' /\ Reporting /\ CalledBack' = CalledBack /\ cb'.at # "ack"
    BY <1>2, <1>3, <1>4 DEF Reporting, CalledBack
  <2> QED
    BY <1>1, <1>2, <2>1, ProbeKept
<1>5. CASE ~probe.pending
  <2>1. Issued' = Issued /\ InAir' = InAir /\ First' = First /\ Last' = Last
    BY <1>1, <1>2 DEF Still, First, Last
  <2> QED
    BY <1>2, <1>5, <2>1 DEF ProbeTrue, Unprobed
<1> QED
  BY <1>4, <1>5

\* The range holds the place of the callback exactly if it holds its number.
LEMMA RangeHolds ==
  ASSUME TypeShape, CountsOK, CountsTrue, Spans, NEW n \in Numbers
  PROVE  InRange(n) <=> InProbe(Place(n))
<1>1. n \in Int /\ probe.first \in Int /\ probe.last \in Int
  BY TypeFacts, ConstantFacts DEF TypeShape, Numbers
<1>2. /\ Issued \in Nat /\ First \in Nat /\ Last \in Nat /\ OpenSpan \in Nat
      /\ Issued + Uncounted <= OpenSpan /\ Uncounted \in {0, 1}
  BY ProbeFacts
<1>3. Place(n) \in Nat
  BY <1>1, PlaceNat
<1>4. First <= Last /\ Last - First <= OpenSpan /\ First - Place(n) <= OpenSpan + 1
  <2>1. Issued <= OpenSpan
    BY <1>2
  <2>2. CASE main.kind = "probe"
    <3>1. First <= Issued + 1 /\ Last = First + OpenSpan
      BY <2>2 DEF Spans
    <3> QED
      BY <1>2, <1>3, <2>1, <3>1
  <2>3. CASE main.kind # "probe"
    <3>1. First >= 1 /\ First <= Last /\ Last <= Issued
      BY <2>3 DEF Spans
    <3> QED
      BY <1>2, <1>3, <2>1, <3>1
  <2> QED
    BY <2>2, <2>3
<1> QED
  BY <1>1, <1>4, SpanPlaces DEF InRange, InProbe, First, Last

LEMMA ProbeSeeRange ==
  ASSUME TypeShape, CountsOK, CountsTrue, ProbeTrue, SeeRange
  PROVE  ProbeTrue'
<1>1. Still
  BY QuietMoves DEF Quiet
<1>2. /\ cb.at = "range" /\ cb' = [cb EXCEPT !.at = IF InRange(cb.n) THEN "ack" ELSE "track"]
      /\ probe' = probe /\ acked' = acked /\ radio' = radio /\ main' = main
  BY DEF SeeRange, sending, history
<1>3. cb'.at = (IF InRange(cb.n) THEN "ack" ELSE "track") /\ cb'.n = cb.n
  BY <1>2 DEF TypeShape, TrackerTypeOK
<1>4. /\ Issued' = Issued /\ Completed' = Completed /\ InAir' = InAir /\ Uncounted' = Uncounted
      /\ First' = First /\ Last' = Last /\ Stored' = Stored /\ CalledBack' = CalledBack
  BY <1>1, <1>2, <1>3 DEF Still, First, Last, Stored, CalledBack
<1>5. ASSUME probe.pending
      PROVE  OpenTrue'
  <2>1. Spans /\ Probing /\ Recorded
    BY <1>5 DEF ProbeTrue, OpenTrue
  <2>2. InRange(cb.n) <=> InProbe(CalledBack)
    <3>1. cb.n \in Numbers
      BY TypeFacts DEF TypeShape
    <3> QED
      BY <2>1, <3>1, RangeHolds DEF CalledBack
  <2>3. Spans'
    BY <1>2, <1>4, <2>1 DEF Spans
  <2>4. Probing'
    BY <1>2, <1>4, <2>1 DEF Probing, InProbe
  <2>5. InProbe(Stored)' <=> InProbe(Stored)
    BY <1>4 DEF InProbe
  <2>6. Reporting /\ Called /\ (Reporting' <=> InProbe(CalledBack))
    BY <1>2, <1>3, <2>2 DEF Reporting, Called
  <2>7. ReportingProbe' <=> ReportingProbe
    BY <1>4, <2>6 DEF ReportingProbe, InProbe
  <2>8. cb'.at = "ack" => CalledBack' <= Last'
    BY <1>3, <1>4, <2>2 DEF InProbe
  <2>9. CalledBack' < First' => ~acked'
    BY <1>2, <1>4, <2>1, <2>6 DEF Recorded
  <2>10. Recorded'
    BY <1>2, <1>4, <2>1, <2>5, <2>7, <2>8, <2>9 DEF Recorded
  <2> QED
    BY <2>3, <2>4, <2>10 DEF OpenTrue
<1> QED
  BY <1>2, <1>4, <1>5 DEF ProbeTrue, Unprobed

\* What is stored is of this probe, or nothing of it has been acknowledged yet.
LEMMA ProbeStoreAck ==
  ASSUME TypeShape, CountsOK, CountsTrue, ProbeTrue, StoreAck
  PROVE  ProbeTrue'
<1>1. Still
  BY QuietMoves DEF Quiet
<1>2. /\ cb.at = "ack" /\ cb' = [cb EXCEPT !.at = "track"] /\ probe' = [probe EXCEPT !.ack = cb.n]
      /\ acked' = acked /\ radio' = radio /\ main' = main
  BY DEF StoreAck, sending, history
<1>3. /\ cb'.at = "track" /\ cb'.n = cb.n
      /\ probe'.first = probe.first /\ probe'.last = probe.last /\ probe'.ack = cb.n
      /\ probe'.pending = probe.pending
  BY <1>2 DEF TypeShape, TrackerTypeOK
<1>4. /\ Issued' = Issued /\ Completed' = Completed /\ InAir' = InAir /\ Uncounted' = Uncounted
      /\ First' = First /\ Last' = Last /\ Stored' = CalledBack /\ CalledBack' = CalledBack
  BY <1>1, <1>3 DEF Still, First, Last, Stored, CalledBack
<1>5. /\ Called /\ Reporting /\ ~Reporting' /\ CalledBack <= Issued + Uncounted
      /\ CalledBack \in Nat /\ First \in Nat
  BY <1>2, <1>3, ProbeFacts DEF Called, Reporting
<1>6. ASSUME probe.pending
      PROVE  OpenTrue'
  <2>1. Spans /\ Probing /\ Recorded
    BY <1>6 DEF ProbeTrue, OpenTrue
  <2>2. Spans'
    BY <1>2, <1>4, <2>1 DEF Spans
  <2>3. Probing'
    BY <1>2, <1>4, <2>1 DEF Probing, InProbe
  <2>4. InProbe(Stored)' <=> InProbe(CalledBack)
    BY <1>4 DEF InProbe
  <2>5. ~ReportingProbe' /\ (ReportingProbe <=> InProbe(CalledBack))
    BY <1>5 DEF ReportingProbe
  <2>6. InProbe(CalledBack) => acked
    BY <2>1, <2>5 DEF Recorded
  <2>7. acked => InProbe(CalledBack)
    <3>1. CalledBack <= Last /\ (CalledBack < First => ~acked)
      BY <1>2, <1>5, <2>1 DEF Recorded
    <3>2. CalledBack < First \/ First <= CalledBack
      BY <1>5
    <3> QED
      BY <3>1, <3>2 DEF InProbe
  <2>8. acked => First <= Completed
    BY <2>1 DEF Recorded
  <2>9. CalledBack' < First' => ~acked'
    BY <1>2, <1>4, <1>5, <2>1 DEF Recorded
  <2>10. Stored' <= Issued' + Uncounted'
    BY <1>4, <1>5
  <2>11. Recorded'
    BY <1>2, <1>3, <1>4, <2>4, <2>5, <2>6, <2>7, <2>8, <2>9, <2>10 DEF Recorded
  <2> QED
    BY <2>2, <2>3, <2>11 DEF OpenTrue
<1> QED
  BY <1>2, <1>3, <1>4, <1>6 DEF ProbeTrue, Unprobed

LEMMA ProbeResync ==
  ASSUME TypeShape, ProbeTrue, CheckLost \/ RestartEspNow
  PROVE  ProbeTrue'
<1>1. /\ main' = main /\ main.at = "rest" /\ main.kind = "plain" /\ cb' = cb /\ acked' = acked
      /\ issued' = issued
  BY DEF CheckLost, RestartEspNow, TypeShape, ShapeOK, AtRest, sending
<1>2. \/ Resync(radio')
      \/ completed' = completed /\ radio' = radio /\ probe' = probe
  <2>1. CASE CheckLost
    BY <2>1 DEF CheckLost
  <2>2. CASE RestartEspNow
    BY <2>2 DEF RestartEspNow
  <2> QED
    BY <2>1, <2>2
<1>3. CASE Resync(radio')
  <2>1. probe'.pending = FALSE
    BY <1>3 DEF Resync, TypeShape, TrackerTypeOK
  <2> QED
    BY <1>1, <2>1 DEF ProbeTrue
<1>4. CASE completed' = completed /\ radio' = radio /\ probe' = probe
  <2>1. Still
    BY <1>1, <1>4 DEF Still, Issued, Completed, InAir, Uncounted, Called, CalledBack
  <2>2. /\ Reporting' <=> Reporting
        /\ Reporting => CalledBack' = CalledBack
        /\ cb'.at = "ack" => cb.at = "ack"
    BY <1>1 DEF Reporting, CalledBack
  <2> QED
    BY <1>1, <1>4, <2>1, <2>2, ProbeKept
<1> QED
  BY <1>2, <1>3, <1>4

LEMMA ProbeStep ==
  ASSUME TypeShape, TypeShape', CountsOK, TruthOK, ProbeOK, Next
  PROVE  ProbeOK'
<1> SUFFICES ASSUME Sure("probe")' PROVE ProbeTrue'
  BY DEF ProbeOK
<1>1. CASE SendProbe
  BY <1>1, ProbeSend
<1>2. CASE SendTracked
  BY <1>2, SendTrackedSure, ProbeQuiet DEF ProbeOK
<1>3. CASE CheckLost \/ RestartEspNow
  BY <1>3, ResyncSure, ProbeResync DEF ProbeOK
<1>4. CASE LoseCallback
  BY <1>4, LoseDoubts
<1>5. ASSUME doubt' = doubt
      PROVE  ProbeTrue /\ CountsTrue
  BY <1>5 DEF ProbeOK, TruthOK, Sure
<1>6. CASE SendPlain \/ EndPlain \/ EndTracked \/ TakeTracked \/ Settle \/ Tick
  <2>1. doubt' = doubt
    BY <1>6 DEF SendPlain, EndPlain, EndTracked, TakeTracked, Settle, Tick, history
  <2> QED
    BY <1>5, <1>6, <2>1, ProbeQuiet
<1>7. CASE SetRange
  BY <1>5, <1>7, ProbeSetRange DEF SetRange, history
<1>8. CASE Arm
  BY <1>5, <1>8, ProbeArm DEF Arm, history
<1>9. CASE Hand
  BY <1>5, <1>9, ProbeHand DEF Hand, history
<1>10. CASE Count
  BY <1>5, <1>10, ProbeCount DEF Count, history
<1>11. CASE EndProbe
  BY <1>5, <1>11, ProbeEnd DEF EndProbe, history
<1>12. CASE ClearProbe
  BY <1>12, ProbeClear
<1>13. CASE Callback
  BY <1>5, <1>13, ProbeCallback DEF Callback
<1>14. CASE SeePending
  BY <1>5, <1>14, ProbeSeePending DEF SeePending, history
<1>15. CASE SeeRange
  BY <1>5, <1>15, ProbeSeeRange DEF SeeRange, history
<1>16. CASE StoreAck
  BY <1>5, <1>16, ProbeStoreAck DEF StoreAck, history
<1> QED
  BY <1>1, <1>2, <1>3, <1>4, <1>6, <1>7, <1>8, <1>9, <1>10, <1>11, <1>12, <1>13, <1>14, <1>15,
     <1>16
  DEF Next, Sends, Progress, WifiTask

-----------------------------------------------------------------------------
(* The invariant of the specification, and what it says of the outcomes.   *)
TrackerInv == TypeShape /\ CountsOK /\ TruthOK /\ WaitingOK /\ ProbeOK

LEMMA InitTracker == Init => TrackerInv
<1> SUFFICES ASSUME Init PROVE TrackerInv
  OBVIOUS
<1>1. TypeShape
  BY InitTypeShape
<1>2. Issued = 0 /\ Completed = 0
  BY PlaceFirst DEF Init, Issued, Completed
<1>3. InAir = 0 /\ Uncounted = 0 /\ ~Called
  BY DEF Init, InAir, Uncounted, Called, AtRest, NoCallback
<1>4. Budget = 0
  BY ConstantFacts DEF Init, Budget, AtRest
<1>5. /\ main.at = "rest" /\ main.kind = "plain" /\ ~probe.pending
      /\ tracked.state = "None"
  BY DEF Init, AtRest, None
<1>6. CountsOK
  BY <1>2, <1>3, <1>4, <1>5 DEF CountsOK
<1>7. TruthOK
  BY <1>2, <1>3 DEF TruthOK, CountsTrue
<1>8. WaitingOK
  BY <1>5 DEF WaitingOK, WaitingTrue
<1>9. ProbeOK
  BY <1>5 DEF ProbeOK, ProbeTrue
<1> QED
  BY <1>1, <1>6, <1>7, <1>8, <1>9 DEF TrackerInv

LEMMA TypeShapeStep ==
  ASSUME TypeShape, Next
  PROVE  TypeShape'
<1>1. CASE Sends
  BY <1>1, SendPlainTyped, SendTrackedTyped, SendProbeTyped DEF Sends
<1>2. CASE Progress
  BY <1>2, SetRangeTyped, ArmTyped, HandTyped, CountTyped, EndProbeTyped, EndTrackedTyped,
     EndPlainTyped
  DEF Progress
<1>3. CASE WifiTask
  BY <1>3, CallbackTyped, SeePendingTyped, SeeRangeTyped, StoreAckTyped, SettleTyped DEF WifiTask
<1>4. CASE ClearProbe \/ TakeTracked \/ CheckLost \/ RestartEspNow \/ LoseCallback \/ Tick
  BY <1>4, ClearProbeTyped, TakeTrackedTyped, CheckLostTyped, RestartEspNowTyped,
     LoseCallbackTyped, TickTyped
<1> QED
  BY <1>1, <1>2, <1>3, <1>4 DEF Next

LEMMA TrackerStutter ==
  ASSUME TrackerInv, UNCHANGED vars
  PROVE  TrackerInv'
<1> USE DEF vars, sending, history
<1>1. TypeShape'
  BY DEF TrackerInv, TypeShape, TrackerTypeOK, ShapeOK, Reporting
<1>2. /\ Issued' = Issued /\ Completed' = Completed /\ CalledBack' = CalledBack
      /\ InAir' = InAir /\ Uncounted' = Uncounted /\ (Called' <=> Called) /\ Budget' = Budget
      /\ First' = First /\ Last' = Last /\ Stored' = Stored /\ Waiting' = Waiting
  BY DEF Issued, Completed, CalledBack, InAir, Uncounted, Called, Budget, First, Last, Stored,
         Waiting
<1>3. CountsOK'
  BY <1>2 DEF TrackerInv, CountsOK
<1>4. TruthOK'
  BY <1>2 DEF TrackerInv, TruthOK, Sure, CountsTrue
<1>5. WaitingOK'
  BY <1>2 DEF TrackerInv, WaitingOK, Sure, WaitingTrue, PendingTrue, Awaited, Marked, Sending,
              SettledTrue, Landed
<1>6. ProbeOK'
  BY <1>2 DEF TrackerInv, ProbeOK, Sure, ProbeTrue, Unprobed, OpenTrue, Spans, Probing,
              Recorded, InProbe, ReportingProbe, Reporting
<1> QED
  BY <1>1, <1>3, <1>4, <1>5, <1>6 DEF TrackerInv

LEMMA TrackerStep == TrackerInv /\ [Next]_vars => TrackerInv'
<1> SUFFICES ASSUME TrackerInv, [Next]_vars PROVE TrackerInv'
  OBVIOUS
<1>1. CASE Next
  <2>1. TypeShape /\ CountsOK /\ TruthOK /\ WaitingOK /\ ProbeOK
    BY DEF TrackerInv
  <2>2. TypeShape'
    BY <1>1, <2>1, TypeShapeStep
  <2>3. CountsOK'
    BY <1>1, <2>1, <2>2, CountsStep
  <2>4. TruthOK'
    BY <1>1, <2>1, <2>2, TruthStep
  <2>5. WaitingOK'
    BY <1>1, <2>1, <2>2, WaitingStep
  <2>6. ProbeOK'
    BY <1>1, <2>1, <2>2, ProbeStep
  <2> QED
    BY <2>2, <2>3, <2>4, <2>5, <2>6 DEF TrackerInv
<1>2. CASE UNCHANGED vars
  BY <1>2, TrackerStutter
<1> QED
  BY <1>1, <1>2

\* What is read of a probe and of a tracked frame between two sends.
LEMMA OutcomesFollow == TrackerInv => OutcomesTrue
<1> SUFFICES ASSUME TrackerInv PROVE OutcomesTrue
  OBVIOUS
<1>1. ASSUME ~doubt["probe"], main.at = "rest"
      PROVE  /\ Status = "Acked" => acked
             /\ Status = "Failed" /\ cb.at \in {"rest", "track"} => ~acked
  <2>1. TypeShape /\ CountsOK /\ CountsTrue /\ ProbeTrue
    BY <1>1 DEF TrackerInv, TruthOK, ProbeOK, Sure
  <2>2. CASE ~probe.pending
    BY <2>2 DEF Status
  <2>3. CASE probe.pending
    <3>1. Spans /\ Recorded
      BY <2>1, <2>3 DEF ProbeTrue, OpenTrue
    <3>2. probe.ack \in Numbers
      BY <2>1, TypeFacts DEF TypeShape
    <3>3. InRange(probe.ack) <=> InProbe(Stored)
      BY <2>1, <3>1, <3>2, RangeHolds DEF Stored
    <3>4. Status = "Acked" => InProbe(Stored)
      BY <2>3, <3>3 DEF Status
    <3>5. Status = "Failed" => ~InProbe(Stored)
      BY <2>3, <3>3 DEF Status
    <3>6. cb.at \in {"rest", "track"} => ~ReportingProbe
      BY DEF ReportingProbe, Reporting
    <3>7. /\ InProbe(Stored) => acked
          /\ acked => InProbe(Stored) \/ ReportingProbe
      BY <3>1 DEF Recorded
    <3> QED
      BY <3>4, <3>5, <3>6, <3>7
  <2> QED
    BY <2>2, <2>3
<1>2. ASSUME ~doubt["tracked"]
      PROVE  /\ tracked.state = "Delivered" => fate = "Delivered"
             /\ tracked.state = "Failed" => fate # "Delivered"
  BY <1>2 DEF TrackerInv, WaitingOK, Sure, WaitingTrue, SettledTrue
<1> QED
  BY <1>1, <1>2 DEF OutcomesTrue

-----------------------------------------------------------------------------
\* Every number and record of the tracker stays in its range, and the range of a probe
\* is never reset while the probe is open.
THEOREM TrackerTypeCorrect == Spec => []TrackerTypeOK
<1>1. TrackerInv => TrackerTypeOK
  BY DEF TrackerInv, TypeShape
<1> QED
  BY <1>1, InitTracker, TrackerStep, PTL DEF Spec

\* An outcome the tracker reports is that of the frame it reports it for (a probe's in
\* EspNowProbeTracker::status, a command word's in take_tracked), whichever of the other
\* task's accesses come between, and across the wrap of both counts, as long as no
\* callback has got lost since that frame was sent.
THEOREM OutcomesAlwaysTrue == Spec => []OutcomesTrue
BY InitTracker, TrackerStep, OutcomesFollow, PTL DEF Spec
=============================================================================
