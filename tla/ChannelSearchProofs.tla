------------------------ MODULE ChannelSearchProofs ------------------------
(***************************************************************************)
(* What holds of the channel policy and of the search of two devices for   *)
(* every rendezvous, list of channels, interval and number of faults.      *)
(***************************************************************************)
EXTENDS ChannelSearch, TLAPS, FiniteSetTheorems, WellFoundedInduction

\* The first of some places is one of them.
LEMMA FirstIs ==
    ASSUME NEW places, places \subseteq Nat, places # {}
    PROVE  First(places) \in places /\ \A j \in places : First(places) <= j
<1>1. \E i \in places : \A j \in places : ~(<<j, i>> \in OpToRel(<, Nat))
  BY NatLessThanWellFounded, WFMin
<1>2. \E i \in places : \A j \in places : i <= j
  <2>1. PICK i \in places : \A j \in places : ~(<<j, i>> \in OpToRel(<, Nat))
    BY <1>1
  <2>2. \A j \in places : ~(j < i)
    BY <2>1 DEF OpToRel
  <2> QED
    BY <2>2
<1> QED
  BY <1>2 DEF First

-----------------------------------------------------------------------------
\* One policy: a hold is kept only where its probe was answered, the candidate it stands
\* at is one of the array, and while it has left WiFi but is still on it it does not search.
Sound(p) ==
    /\ p.hold # Off => p.st = "Idle" /\ p.good = p.cur
    /\ p.st # "Idle" => p.next \in Candidates[p.good]

\* The probe under way is on the channel the policy believes in; an acknowledgement is
\* dealt with at the poll that learns of it.
ProbeTrue(d) ==
    /\ pol[d].st # "Acked"
    /\ pol[d].st = "Pending" /\ probe[d] \notin {None, Failed} => probe[d] = pol[d].cur

SuspendTrue(d) ==
    pol[d].suspended # Off => /\ d = "display" /\ wifi[d] # "joining"
                              /\ wifi[d] = "on" => pol[d].st = "Idle"

\* The clocks of the display against the times they stand for.
ClocksTrue ==
    /\ pol["display"].down <= mute
    /\ IF pol["display"].resumed = Off THEN back = ResumeWindow
       ELSE back = pol["display"].resumed

ChannelInv ==
    /\ ChannelTypeOK /\ ClocksTrue
    /\ \A d \in Roles : Sound(pol[d]) /\ ProbeTrue(d) /\ SuspendTrue(d)

-----------------------------------------------------------------------------
\* A clock that is stopped or has just been started is in its range.
LEMMA ClocksIn ==
    /\ {Off, 0} \subseteq Off..AckHold /\ {Off, 0} \subseteq Off..SuspendAfter
    /\ {Off, 0} \subseteq Off..ResumeInterval /\ {Off, 0} \subseteq Off..ResumeWindow
    /\ 0 \in 0..ResetGap
    /\ \A role \in Roles : {Off, 0} \subseteq Off..SearchInterval[role]
  BY ChannelAssumption DEF Off

LEMMA LimitsAre ==
    /\ AckHold \in Nat /\ SuspendAfter \in Nat \ {0} /\ ResetGap \in Nat \ {0}
    /\ ResumeInterval \in Nat \ {0} /\ ResumeWindow \in Nat \ {0} /\ AckHold \in Nat \ {0}
    /\ LinkTimeout \in Nat \ {0}
    /\ \A role \in Roles : SearchInterval[role] \in Nat \ {0}
    /\ Rendezvous \in Channels
  BY ChannelAssumption

\* The candidates of a pass: there is one, each is a place of the list on offer, and the
\* channel there is a channel.
LEMMA OfferedIs ==
    ASSUME NEW good \in Channels \union {NoChannel}
    PROVE  /\ Offered(good) \in Seq(Channels \union {NoChannel})
           /\ Len(Offered(good)) = Len(SearchChannels) + 2
           /\ Offered(good)[2] = Rendezvous
<1>1. SearchChannels \in Seq(Channels \union {NoChannel})
      /\ Rendezvous \in Channels \union {NoChannel} /\ Len(SearchChannels) \in Nat
  BY ChannelAssumption
<1>2. <<good, Rendezvous>> \in Seq(Channels \union {NoChannel})
  BY <1>1
<1> QED
  BY <1>1, <1>2 DEF Offered

LEMMA CandidatesAre ==
    ASSUME NEW good \in Channels \union {NoChannel}
    PROVE  /\ Candidates[good] \subseteq 1..(Len(SearchChannels) + 2)
           /\ Candidates[good] # {}
           /\ \A i \in Candidates[good] : Offered(good)[i] \in Channels
<1> DEFINE n == Len(SearchChannels) + 2
           valid == {i \in 1..n : Offered(good)[i] # NoChannel}
           first == First(valid)
<1>1. n \in Nat /\ Len(Offered(good)) = n /\ 2 \in 1..n
  BY OfferedIs, ChannelAssumption
<1>2. \A i \in valid : Offered(good)[i] \in Channels
  BY <1>1, OfferedIs
<1>3. 2 \in valid
  <2>1. Offered(good)[2] = Rendezvous
    BY OfferedIs
  <2>2. Rendezvous # NoChannel
    BY LimitsAre DEF Channels, NoChannel
  <2> QED
    BY <1>1, <2>1, <2>2
<1>4. valid \subseteq Nat /\ valid # {}
  BY <1>1, <1>3
<1>5. first \in valid /\ \A j \in valid : first <= j
  <2> HIDE DEF valid
  <2> QED
    BY <1>4, FirstIs
<1> HIDE DEF first
<1>6. Fresh(good) \subseteq valid
  BY <1>1 DEF Fresh
<1>7. first \in Fresh(good)
  <2>1. ASSUME NEW j \in 1..(first - 1) PROVE Offered(good)[j] # Offered(good)[first]
    <3>1. j \in 1..n /\ j < first
      BY <1>1, <1>5
    <3>2. j \notin valid
      BY <1>5, <3>1
    <3> QED
      BY <1>5, <3>1, <3>2
  <2> QED
    BY <1>1, <1>5, <2>1 DEF Fresh
<1>8. {j \in Fresh(good) : j < first} = {}
  <2>1. \A j \in Fresh(good) : ~(j < first)
    BY <1>1, <1>5, <1>6
  <2> QED
    BY <2>1
<1>9. Cardinality({j \in Fresh(good) : j < first}) < MaxCandidates
  BY <1>8, FS_EmptySet DEF MaxCandidates
<1>10. Candidates[good]
         = {i \in Fresh(good) : Cardinality({j \in Fresh(good) : j < i}) < MaxCandidates}
  BY DEF Candidates
<1> QED
  BY <1>2, <1>6, <1>7, <1>9, <1>10

-----------------------------------------------------------------------------
\* What a poll does to a policy, once its clocks have been brought up to date.
Outcome(role, p, in, to) ==
    /\ to.p \in PolicyType(role) /\ Sound(to.p) /\ to.p.st # "Acked"
    /\ to.do = "Probe" => to.p.st = "Pending"
    /\ p.hold = Off /\ to.p.hold # Off => p.st = "Acked" /\ to.p.cur = p.cur
    /\ to.p.down = p.down
    /\ to.p.resumed = IF to.do = "ResumeWifi" THEN 0 ELSE p.resumed
    /\ to.do = "ResumeWifi" => p.suspended # Off
    /\ \/ to.p.suspended \in {Off, p.suspended}
       \/ /\ role = "display" /\ in.associated /\ ~in.linked
          /\ p.suspended = Off /\ p.down = SuspendAfter /\ p.resumed = Off
    /\ to.p.suspended # Off /\ in.associated => to.p.st = "Idle"

LEMMA OnWifiOutcome ==
    ASSUME NEW role \in Roles, NEW p \in PolicyType(role), NEW in, in.role = role,
           Sound(p), p.suspended # Off => p.st = "Idle",
           in.associated, in.channel \in Channels
    PROVE  Outcome(role, p, in, OnWifi(p, in))
<1>1. CASE p.suspended # Off
  <2>1. OnWifi(p, in) = Did(p, "None")
    BY <1>1 DEF OnWifi
  <2> QED
    BY <1>1, <2>1 DEF Did, Outcome
<1>2. CASE p.suspended = Off
  <2> DEFINE good == IF in.linked THEN in.channel ELSE p.good
             q == [p EXCEPT !.st = "Idle", !.hold = Off, !.pass = Off,
                            !.cur = in.channel, !.good = good]
  <2>1. good \in Channels \union {NoChannel}
    BY DEF PolicyType
  <2> HIDE DEF good
  <2>2. /\ q \in PolicyType(role) /\ q.st = "Idle" /\ q.hold = Off
        /\ q.down = p.down /\ q.resumed = p.resumed /\ q.suspended = Off
    BY <1>2, <2>1, ClocksIn DEF PolicyType
  <2>3. [ResetSearch(p) EXCEPT !.cur = in.channel,
                               !.good = IF in.linked THEN in.channel ELSE @] = q
    BY DEF ResetSearch, PolicyType, good
  <2> DEFINE left == [q EXCEPT !.suspended = 0]
  <2>4. left \in PolicyType(role) /\ left.st = "Idle" /\ left.hold = Off
        /\ left.down = p.down /\ left.resumed = p.resumed
    <3> HIDE DEF q
    <3> QED
      BY <2>2, ClocksIn DEF PolicyType
  <2> HIDE DEF q, left
  <2>5. CASE /\ in.role = "display" /\ q.down = SuspendAfter /\ ~in.linked /\ q.resumed = Off
    <3>1. OnWifi(p, in) = Did(left, "SuspendWifi")
      BY <1>2, <2>3, <2>5 DEF OnWifi, left
    <3> QED
      BY <1>2, <2>2, <2>4, <2>5, <3>1 DEF Outcome, Did, Sound
  <2>6. CASE ~(/\ in.role = "display" /\ q.down = SuspendAfter /\ ~in.linked /\ q.resumed = Off)
    <3>1. OnWifi(p, in) = Did(q, "None")
      BY <1>2, <2>3, <2>6 DEF OnWifi
    <3> QED
      BY <1>2, <2>2, <3>1 DEF Outcome, Did, Sound
  <2> QED
    BY <2>5, <2>6
<1> QED
  BY <1>1, <1>2

LEMMA NeedSetIs ==
    ASSUME NEW role \in Roles, NEW p \in PolicyType(role), p.hold = Off,
           p.next \in Candidates[p.good], NEW to, to = NeedSet(p)
    PROVE  /\ to.p \in PolicyType(role) /\ Sound(to.p) /\ to.p.st \in {"NeedProbe", "Pending"}
           /\ to.do = "Probe" => to.p.st = "Pending"
           /\ to.do # "ResumeWifi" /\ to.p.hold = Off
           /\ to.p.down = p.down /\ to.p.resumed = p.resumed /\ to.p.suspended = p.suspended
<1> DEFINE channel == Offered(p.good)[p.next]
           set == [p EXCEPT !.st = "NeedProbe", !.cur = channel]
           sent == [p EXCEPT !.st = "Pending"]
<1>1. channel \in Channels
  <2>1. p.good \in Channels \union {NoChannel}
    BY DEF PolicyType
  <2> QED
    BY <2>1, CandidatesAre
<1> HIDE DEF channel
<1>2. /\ set \in PolicyType(role) /\ set.st = "NeedProbe" /\ set.hold = Off
      /\ set.good = p.good /\ set.next = p.next
      /\ set.down = p.down /\ set.resumed = p.resumed /\ set.suspended = p.suspended
  BY <1>1 DEF PolicyType
<1>3. /\ sent \in PolicyType(role) /\ sent.st = "Pending" /\ sent.hold = Off
      /\ sent.good = p.good /\ sent.next = p.next
      /\ sent.down = p.down /\ sent.resumed = p.resumed /\ sent.suspended = p.suspended
  BY DEF PolicyType, Waiting
<1>4. to = IF channel # p.cur THEN Did(set, "SetChannel") ELSE Did(sent, "Probe")
  BY DEF NeedSet, Probe, channel
<1> HIDE DEF set, sent
<1>5. to = [p |-> set, do |-> "SetChannel"] \/ to = [p |-> sent, do |-> "Probe"]
  BY <1>4 DEF Did
<1> QED
  BY <1>2, <1>3, <1>5 DEF Sound

LEMMA IdleOutcome ==
    ASSUME NEW role \in Roles, NEW p \in PolicyType(role), NEW in, in.role = role,
           Sound(p), ~in.associated, p.st = "Idle"
    PROVE  Outcome(role, p, in, Idle(p, in))
<1> DEFINE q == [p EXCEPT !.hold = IF @ = AckHold THEN Off ELSE @]
           home == [q EXCEPT !.cur = Rendezvous]
           begins == [q EXCEPT !.st = "NeedSet", !.next = First(Candidates[p.good]), !.pass = 0]
           waits == q.pass \notin {Off, SearchInterval[role]}
<1>1. /\ q \in PolicyType(role) /\ q.hold \in {Off, p.hold} /\ q.st = "Idle"
      /\ q.good = p.good /\ q.cur = p.cur
      /\ q.down = p.down /\ q.resumed = p.resumed /\ q.suspended = p.suspended
  BY ClocksIn DEF PolicyType
<1>2. /\ home \in PolicyType(role) /\ home.hold = q.hold /\ home.st = "Idle"
      /\ home.down = p.down /\ home.resumed = p.resumed /\ home.suspended = p.suspended
  <2> HIDE DEF q
  <2> QED
    BY <1>1, LimitsAre DEF PolicyType
<1>3. /\ begins \in PolicyType(role) /\ begins.hold = q.hold
      /\ begins.next \in Candidates[begins.good]
      /\ begins.down = p.down /\ begins.resumed = p.resumed /\ begins.suspended = p.suspended
  <2> DEFINE first == First(Candidates[p.good])
  <2>1. p.good \in Channels \union {NoChannel}
    BY DEF PolicyType
  <2>2. first \in Candidates[p.good] /\ first \in 1..(Len(SearchChannels) + 2)
    <3>1. Candidates[p.good] \subseteq 1..(Len(SearchChannels) + 2) /\ Candidates[p.good] # {}
      BY <2>1, CandidatesAre
    <3>2. Candidates[p.good] \subseteq Nat
      BY <3>1
    <3> QED
      BY <3>1, <3>2, FirstIs
  <2> HIDE DEF first, q
  <2> QED
    BY <1>1, <2>2, ClocksIn DEF PolicyType, first
<1>4. \/ q.hold # Off /\ Idle(p, in) = Did(q, "None")
      \/ q.hold = Off /\ Idle(p, in) = Did(q, "None")
      \/ q.hold = Off /\ Idle(p, in) = Did(home, "SetChannel")
      \/ q.hold = Off /\ Idle(p, in) = NeedSet(begins)
  BY DEF Idle
<1> HIDE DEF q, home, begins
<1>5. CASE Idle(p, in) = Did(q, "None")
  BY <1>1, <1>5 DEF Outcome, Did, Sound
<1>6. CASE q.hold = Off /\ Idle(p, in) = Did(home, "SetChannel")
  BY <1>2, <1>6 DEF Outcome, Did, Sound
<1>7. CASE q.hold = Off /\ Idle(p, in) = NeedSet(begins)
  <2> DEFINE to == NeedSet(begins)
  <2>1. /\ to.p \in PolicyType(role) /\ Sound(to.p) /\ to.p.st \in {"NeedProbe", "Pending"}
        /\ to.do = "Probe" => to.p.st = "Pending"
        /\ to.do # "ResumeWifi" /\ to.p.hold = Off
        /\ to.p.down = p.down /\ to.p.resumed = p.resumed /\ to.p.suspended = p.suspended
    BY <1>3, <1>7, NeedSetIs
  <2> HIDE DEF to
  <2> QED
    BY <1>7, <2>1 DEF Outcome, to
<1> QED
  BY <1>4, <1>5, <1>6, <1>7

LEMMA SearchOutcome ==
    ASSUME NEW role \in Roles, NEW p \in PolicyType(role), NEW in, in.role = role,
           Sound(p), ~in.associated
    PROVE  Outcome(role, p, in, Search(p, in))
<1>1. /\ p.good \in Channels \union {NoChannel} /\ p.cur \in Channels
      /\ p.st \in {"Idle", "NeedSet", "NeedProbe", "Pending", "Acked", "Failed"}
      /\ p.st # "Idle" => p.hold = Off /\ p.next \in Candidates[p.good]
  BY DEF PolicyType, Waiting, Sound
<1>2. CASE p.st = "Idle"
  BY <1>2, IdleOutcome DEF Search
<1>3. CASE p.st = "NeedSet"
  <2> DEFINE to == NeedSet(p)
  <2>1. /\ to.p \in PolicyType(role) /\ Sound(to.p) /\ to.p.st \in {"NeedProbe", "Pending"}
        /\ to.do = "Probe" => to.p.st = "Pending"
        /\ to.do # "ResumeWifi" /\ to.p.hold = Off
        /\ to.p.down = p.down /\ to.p.resumed = p.resumed /\ to.p.suspended = p.suspended
    BY <1>1, <1>3, NeedSetIs
  <2>2. Search(p, in) = to
    BY <1>3 DEF Search
  <2> HIDE DEF to
  <2> QED
    BY <2>1, <2>2 DEF Outcome
<1>4. CASE p.st = "NeedProbe"
  <2> DEFINE sent == [p EXCEPT !.st = "Pending"]
  <2>1. /\ sent \in PolicyType(role) /\ sent.st = "Pending" /\ sent.hold = Off
        /\ sent.good = p.good /\ sent.next = p.next
        /\ sent.down = p.down /\ sent.resumed = p.resumed /\ sent.suspended = p.suspended
    BY <1>1, <1>4 DEF PolicyType, Waiting
  <2>2. Search(p, in) = Did(sent, "Probe")
    BY <1>4 DEF Search, Probe
  <2> HIDE DEF sent
  <2> QED
    BY <1>1, <1>4, <2>1, <2>2 DEF Outcome, Did, Sound
<1>5. ASSUME p.st \in Waiting PROVE Outcome(role, p, in, NotAnswered(p))
  <2> DEFINE later == {i \in Candidates[p.good] : i > p.next}
             on == [p EXCEPT !.st = "NeedSet", !.next = First(later)]
             over == [p EXCEPT !.st = "Idle"]
  <2>1. p.hold = Off
    BY <1>1, <1>5 DEF Waiting
  <2>2. /\ over \in PolicyType(role) /\ over.st = "Idle" /\ over.hold = Off
        /\ over.down = p.down /\ over.resumed = p.resumed /\ over.suspended = p.suspended
    BY <2>1 DEF PolicyType
  <2>3. CASE later # {}
    <3>1. First(later) \in Candidates[p.good] /\ First(later) \in 1..(Len(SearchChannels) + 2)
      <4>1. Candidates[p.good] \subseteq 1..(Len(SearchChannels) + 2)
        BY <1>1, CandidatesAre
      <4>2. later \subseteq Nat
        BY <4>1
      <4>3. First(later) \in later
        <5> HIDE DEF later
        <5> QED
          BY <2>3, <4>2, FirstIs
      <4> QED
        BY <4>1, <4>3
    <3>2. NotAnswered(p) = Did(on, "None")
      BY <2>3 DEF NotAnswered
    <3> DEFINE first == First(later)
    <3>3. /\ on \in PolicyType(role) /\ on.st = "NeedSet" /\ on.hold = Off
          /\ on.good = p.good /\ on.next \in Candidates[p.good]
          /\ on.down = p.down /\ on.resumed = p.resumed /\ on.suspended = p.suspended
      <4> HIDE DEF later
      <4> QED
        BY <2>1, <3>1 DEF PolicyType
    <3> HIDE DEF on
    <3> QED
      BY <1>1, <3>2, <3>3 DEF Outcome, Did, Sound
  <2>4. CASE later = {}
    <3>1. NotAnswered(p) = Did(over, "None")
      BY <2>4 DEF NotAnswered
    <3> HIDE DEF over
    <3> QED
      BY <2>2, <3>1 DEF Outcome, Did, Sound
  <2> QED
    BY <2>3, <2>4
<1>6. CASE p.st = "Pending"
  <2>1. CASE in.timed_out
    BY <1>5, <1>6, <2>1 DEF Search, Waiting
  <2>2. CASE ~in.timed_out
    <3>1. Search(p, in) = Did(p, "None")
      BY <1>6, <2>2 DEF Search
    <3> QED
      BY <1>6, <3>1 DEF Outcome, Did
  <2> QED
    BY <2>1, <2>2
<1>7. CASE p.st = "Acked"
  <2> DEFINE held == [p EXCEPT !.st = "Idle", !.good = p.cur, !.hold = 0]
  <2>1. /\ held \in PolicyType(role) /\ held.st = "Idle" /\ held.good = held.cur
        /\ held.cur = p.cur
        /\ held.down = p.down /\ held.resumed = p.resumed /\ held.suspended = p.suspended
    BY <1>1, ClocksIn DEF PolicyType
  <2>2. Search(p, in) = Did(held, "None")
    BY <1>7 DEF Search, Answered
  <2> HIDE DEF held
  <2> QED
    BY <1>7, <2>1, <2>2 DEF Outcome, Did, Sound
<1>8. CASE p.st = "Failed"
  BY <1>5, <1>8 DEF Search, Waiting
<1> QED
  BY <1>1, <1>2, <1>3, <1>4, <1>6, <1>7, <1>8

\* The clocks at the head of a poll.
ClocksDone(role, p, in, c) ==
    /\ c \in PolicyType(role)
    /\ c.st = p.st /\ c.cur = p.cur /\ c.good = p.good /\ c.next = p.next
    /\ c.hold = p.hold /\ c.suspended = p.suspended
    /\ c.down \in {Off, 0, p.down} /\ (in.mqtt => c.down = Off)
    /\ c.resumed = IF p.resumed = ResumeWindow THEN Off ELSE p.resumed

LEMMA ClocksAre ==
    ASSUME NEW role \in Roles, NEW p \in PolicyType(role), NEW in
    PROVE  ClocksDone(role, p, in, Clocks(p, in))
<1> DEFINE resumed == IF p.resumed = ResumeWindow THEN Off ELSE p.resumed
           down == IF in.mqtt THEN Off
                   ELSE IF in.associated /\ (p.down = Off \/ p.gap = ResetGap) THEN 0 ELSE p.down
           gap == IF in.associated \/ in.mqtt THEN 0 ELSE p.gap
<1>1. /\ resumed \in Off..ResumeWindow /\ down \in Off..SuspendAfter /\ gap \in 0..ResetGap
      /\ down \in {Off, 0, p.down} /\ (in.mqtt => down = Off)
  BY ClocksIn DEF PolicyType
<1> DEFINE c == Clocks(p, in)
<1>2. c = [p EXCEPT !.resumed = resumed, !.down = down, !.gap = gap]
  BY DEF Clocks, PolicyType
<1>3. resumed = IF p.resumed = ResumeWindow THEN Off ELSE p.resumed
  OBVIOUS
<1> HIDE DEF resumed, down, gap, c
<1>4. ClocksDone(role, p, in, c)
  BY <1>1, <1>2, <1>3 DEF PolicyType, ClocksDone
<1> QED
  BY <1>4 DEF c

\* What a whole poll does.
PollDone(role, p, in, to) ==
    /\ to.p \in PolicyType(role) /\ Sound(to.p) /\ to.p.st # "Acked"
    /\ to.do = "Probe" => to.p.st = "Pending"
    /\ p.hold = Off /\ to.p.hold # Off => p.st = "Acked" /\ to.p.cur = p.cur
    /\ to.p.down \in {Off, 0, p.down} /\ (in.mqtt => to.p.down = Off)
    /\ to.p.resumed = IF to.do = "ResumeWifi" THEN 0
                      ELSE IF p.resumed = ResumeWindow THEN Off ELSE p.resumed
    /\ to.do = "ResumeWifi" => p.suspended # Off
    /\ \/ to.p.suspended \in {Off, p.suspended}
       \/ /\ role = "display" /\ in.associated /\ ~in.linked
          /\ p.suspended = Off /\ p.resumed \in {Off, ResumeWindow}
          /\ SuspendAfter \in {Off, 0, p.down}
    /\ to.p.suspended # Off /\ in.associated => to.p.st = "Idle"

LEMMA PollOutcome ==
    ASSUME NEW role \in Roles, NEW p \in PolicyType(role), NEW in, in.role = role, Sound(p),
           in.associated => in.channel \in Channels,
           p.suspended # Off /\ in.associated => p.st = "Idle"
    PROVE  PollDone(role, p, in, Poll(p, in))
<1> DEFINE c == Clocks(p, in)
           to == Poll(p, in)
<1>1. /\ c \in PolicyType(role)
      /\ c.st = p.st /\ c.cur = p.cur /\ c.good = p.good /\ c.next = p.next
      /\ c.hold = p.hold /\ c.suspended = p.suspended
      /\ c.down \in {Off, 0, p.down} /\ (in.mqtt => c.down = Off)
      /\ c.resumed = IF p.resumed = ResumeWindow THEN Off ELSE p.resumed
  <2>1. ClocksDone(role, p, in, c)
    BY ClocksAre
  <2> HIDE DEF c
  <2> QED
    BY <2>1 DEF ClocksDone
<1>2. Sound(c)
  BY <1>1 DEF Sound
<1> HIDE DEF c
<1> DEFINE resumes == [c EXCEPT !.st = "Idle", !.hold = Off, !.pass = Off,
                             !.suspended = Off, !.resumed = 0]
           met == [c EXCEPT !.st = "Idle", !.hold = Off, !.pass = Off, !.good = c.cur]
<1>3. to = IF c.suspended = ResumeInterval THEN Did(resumes, "ResumeWifi")
           ELSE IF in.associated THEN OnWifi(c, in)
           ELSE IF in.linked THEN Did(met, "None")
           ELSE Search(c, in)
  <2>1. /\ [ResetSearch(c) EXCEPT !.suspended = Off, !.resumed = 0] = resumes
        /\ [ResetSearch(c) EXCEPT !.good = c.cur] = met
    BY <1>1 DEF ResetSearch, PolicyType
  <2> QED
    BY <2>1 DEF Poll, c
<1>4. /\ resumes \in PolicyType(role) /\ resumes.st = "Idle" /\ resumes.hold = Off
      /\ resumes.down = c.down /\ resumes.resumed = 0 /\ resumes.suspended = Off
  BY <1>1, ClocksIn DEF PolicyType
<1>5. /\ met \in PolicyType(role) /\ met.st = "Idle" /\ met.hold = Off
      /\ met.down = c.down /\ met.resumed = c.resumed /\ met.suspended = c.suspended
  BY <1>1, ClocksIn DEF PolicyType
<1> HIDE DEF to, resumes, met
<1>6. ResumeInterval # Off
  BY LimitsAre DEF Off
<1>7. \/ Outcome(role, c, in, to)
      \/ to = Did(resumes, "ResumeWifi") /\ c.suspended # Off
  <2>1. CASE c.suspended = ResumeInterval
    BY <1>3, <1>6, <2>1
  <2>2. CASE c.suspended # ResumeInterval /\ in.associated
    <3>1. to = OnWifi(c, in)
      BY <1>3, <2>2
    <3> QED
      BY <1>1, <1>2, <2>2, <3>1, OnWifiOutcome
  <2>3. CASE c.suspended # ResumeInterval /\ ~in.associated /\ in.linked
    <3>1. to = Did(met, "None")
      BY <1>3, <2>3
    <3> QED
      BY <1>5, <2>3, <3>1 DEF Outcome, Did, Sound
  <2>4. CASE c.suspended # ResumeInterval /\ ~in.associated /\ ~in.linked
    <3>1. to = Search(c, in)
      BY <1>3, <2>4
    <3> QED
      BY <1>1, <1>2, <2>4, <3>1, SearchOutcome
  <2> QED
    BY <2>1, <2>2, <2>3, <2>4
<1>8. PollDone(role, p, in, to)
  <2>1. CASE Outcome(role, c, in, to)
    BY <1>1, <2>1 DEF Outcome, PollDone
  <2>2. CASE to = Did(resumes, "ResumeWifi") /\ c.suspended # Off
    BY <1>1, <1>4, <2>2 DEF Did, PollDone, Sound
  <2> QED
    BY <1>7, <2>1, <2>2
<1> QED
  BY <1>8 DEF to

-----------------------------------------------------------------------------
LEMMA FaultType ==
    ASSUME NEW happens \in BOOLEAN, faults \in 0..MaxFaults, Fault(happens)
    PROVE  faults' \in 0..MaxFaults
<1>1. MaxFaults \in Nat
  BY FaultAssumption
<1> QED
  BY <1>1 DEF Fault

\* The policy as the link manager polls it.
ReportedDone(d, r) ==
    /\ r \in PolicyType(d) /\ Sound(r)
    /\ r.hold = pol[d].hold /\ r.cur = pol[d].cur /\ r.down = pol[d].down
    /\ r.resumed = pol[d].resumed /\ r.suspended = pol[d].suspended
    /\ r.suspended # Off /\ wifi[d] = "on" => r.st = "Idle"
    /\ r.st = "Acked" => probe[d] = pol[d].cur

LEMMA ResultIs ==
    ASSUME NEW d \in Roles, NEW p \in PolicyType(d), Sound(p), NEW acked \in BOOLEAN,
           NEW r, r = OnProbeResult(p, acked)
    PROVE  /\ r \in PolicyType(d) /\ Sound(r)
           /\ r.hold = p.hold /\ r.cur = p.cur /\ r.down = p.down
           /\ r.resumed = p.resumed /\ r.suspended = p.suspended
           /\ p.st # "Pending" => r.st = p.st
           /\ r.st = "Acked" => p.st = "Acked" \/ acked
           /\ p.st = "Pending" => r.st \in {"Acked", "Failed"}
<1>1. CASE p.st # "Pending"
  BY <1>1 DEF OnProbeResult
<1>2. CASE p.st = "Pending"
  <2> DEFINE st == IF acked THEN "Acked" ELSE "Failed"
  <2>1. r = [p EXCEPT !.st = st]
    BY <1>2 DEF OnProbeResult, PolicyType
  <2>2. st \in {"Acked", "Failed"} /\ (st = "Acked" => acked)
    OBVIOUS
  <2> HIDE DEF st
  <2> QED
    BY <1>2, <2>1, <2>2 DEF PolicyType, Waiting, Sound
<1> QED
  BY <1>1, <1>2

LEMMA ReportedIs ==
    ASSUME ChannelInv, NEW d \in Roles
    PROVE  ReportedDone(d, Reported(d))
<1>1. /\ pol[d] \in PolicyType(d) /\ Sound(pol[d]) /\ ProbeTrue(d) /\ SuspendTrue(d)
      /\ probe[d] \in {None, Failed} \union Channels
  BY DEF ChannelInv, ChannelTypeOK
<1>2. CASE probe[d] = None
  <2>1. Reported(d) = pol[d]
    BY <1>2 DEF Reported
  <2> QED
    BY <1>1, <2>1 DEF ReportedDone, ProbeTrue, SuspendTrue
<1>3. CASE probe[d] # None
  <2> DEFINE acked == probe[d] # Failed
             r == OnProbeResult(pol[d], acked)
  <2>1. Reported(d) = r /\ acked \in BOOLEAN
    BY <1>3 DEF Reported
  <2> HIDE DEF acked
  <2>2. /\ r \in PolicyType(d) /\ Sound(r)
        /\ r.hold = pol[d].hold /\ r.cur = pol[d].cur /\ r.down = pol[d].down
        /\ r.resumed = pol[d].resumed /\ r.suspended = pol[d].suspended
        /\ pol[d].st # "Pending" => r.st = pol[d].st
        /\ r.st = "Acked" => pol[d].st = "Acked" \/ acked
        /\ pol[d].st = "Pending" => r.st \in {"Acked", "Failed"}
    BY <1>1, <2>1, ResultIs
  <2> HIDE DEF r
  <2> QED
    BY <1>1, <1>3, <2>1, <2>2 DEF ReportedDone, ProbeTrue, SuspendTrue, acked
<1> QED
  BY <1>2, <1>3

\* What a tick of the link manager does to its device, np being its policy afterwards.
LinkDone(d, np, resumes) ==
    /\ pol' = [pol EXCEPT ![d] = np]
    /\ np \in PolicyType(d) /\ Sound(np) /\ np.st # "Acked"
    /\ \E x \in {None, Failed} \union Channels :
         /\ probe' = [probe EXCEPT ![d] = x]
         /\ np.st = "Pending" /\ x \notin {None, Failed} => x = np.cur
    /\ pol[d].hold = Off /\ np.hold # Off => probe[d] = np.cur
    /\ np.down \in {Off, 0, pol[d].down} /\ (d = "display" /\ mqtt => np.down = Off)
    /\ np.resumed = IF resumes THEN 0
                    ELSE IF pol[d].resumed = ResumeWindow THEN Off ELSE pol[d].resumed
    /\ back' = IF resumes THEN 0 ELSE back
    /\ resumes => pol[d].suspended # Off
    /\ \/ np.suspended \in {Off, pol[d].suspended}
       \/ /\ d = "display" /\ wifi[d] = "on" /\ ~Linked(d)
          /\ pol[d].suspended = Off /\ pol[d].resumed \in {Off, ResumeWindow}
          /\ SuspendAfter \in {Off, 0, pol[d].down}
    /\ np.suspended # Off /\ wifi[d] = "on" => np.st = "Idle"
    /\ radio' \in [Roles -> Channels \union {NoChannel}]
    /\ \A e \in Roles : radio'[e] = NoChannel <=> radio[e] = NoChannel
    /\ heard' \in [Roles -> 0..LinkTimeout] /\ faults' \in 0..MaxFaults
    /\ mute' = IF d = "display" /\ mqtt THEN 0 ELSE mute
    /\ wifi[d] # "joining" /\ wifi' = wifi /\ ap' = ap /\ broker' = broker /\ mqtt' = mqtt

LEMMA LinkTickIs ==
    ASSUME ChannelInv, NEW d \in Roles, LinkTick(d)
    PROVE  \E np : \E resumes \in BOOLEAN : LinkDone(d, np, resumes)
<1> DEFINE r == Reported(d)
           in == Inputs(d)
           to == Poll(r, in)
           sets == to.do = "SetChannel"
           resumes == to.do = "ResumeWifi"
<1>1. /\ wifi[d] # "joining"
      /\ \E moves \in BOOLEAN :
            /\ radio' = IF moves /\ wifi[d] = "off" THEN [radio EXCEPT ![d] = to.p.cur]
                        ELSE radio
            /\ IF to.do = "Probe"
               THEN TryProbe(d, to.p)
               ELSE /\ pol' = [pol EXCEPT ![d] = to.p]
                    /\ probe' = [probe EXCEPT ![d] = None]
                    /\ Fault(sets /\ ~moves)
                    /\ UNCHANGED heard
      /\ back' = IF resumes THEN 0 ELSE back
      /\ mute' = IF d = "display" /\ mqtt THEN 0 ELSE mute
      /\ wifi' = wifi /\ ap' = ap /\ broker' = broker /\ mqtt' = mqtt
  BY DEF LinkTick, world
<1>2. ReportedDone(d, r)
  BY ReportedIs
<1>3. /\ in.role = d /\ in.channel = radio[d] /\ (in.associated <=> wifi[d] = "on")
      /\ (in.linked <=> Linked(d)) /\ (d = "display" /\ mqtt => in.mqtt)
  BY DEF Inputs
<1>4. /\ pol[d] \in PolicyType(d) /\ DOMAIN pol = Roles
      /\ radio \in [Roles -> Channels \union {NoChannel}]
      /\ probe \in [Roles -> {None, Failed} \union Channels]
      /\ wifi[d] = "joining" <=> radio[d] = NoChannel
      /\ heard \in [Roles -> 0..LinkTimeout] /\ faults \in 0..MaxFaults
  BY DEF ChannelInv, ChannelTypeOK
<1>5. in.associated => in.channel \in Channels
  BY <1>1, <1>3, <1>4
<1> HIDE DEF r, in
<1>6. PollDone(d, r, in, to)
  BY <1>2, <1>3, <1>5, PollOutcome DEF ReportedDone
<1> DEFINE np == to.p
<1> HIDE DEF to
<1>7. /\ np \in PolicyType(d) /\ Sound(np) /\ np.st # "Acked" /\ np.cur \in Channels
      /\ to.do = "Probe" => np.st = "Pending" /\ np.hold = Off
  BY <1>6 DEF PollDone, Sound, PolicyType
<1> DEFINE last == IF to.do = "Probe" /\ ~OnChannel(d, np) THEN OnProbeResult(np, FALSE) ELSE np
<1>8. /\ last \in PolicyType(d) /\ Sound(last) /\ last.st # "Acked"
      /\ last.cur = np.cur /\ last.down = np.down /\ last.resumed = np.resumed
      /\ last.suspended = np.suspended /\ last.hold = np.hold
      /\ last = np \/ np.st = "Pending"
  <2> DEFINE f == [np EXCEPT !.st = "Failed"]
  <2>1. CASE to.do = "Probe" /\ ~OnChannel(d, np)
    <3>1. np.st = "Pending" /\ np.hold = Off
      BY <1>7, <2>1
    <3>2. last = f
      BY <2>1, <3>1 DEF OnProbeResult
    <3> HIDE DEF last, np
    <3>3. /\ f \in PolicyType(d) /\ f.st = "Failed" /\ f.hold = np.hold
          /\ f.next = np.next /\ f.good = np.good
          /\ f.cur = np.cur /\ f.down = np.down
          /\ f.resumed = np.resumed /\ f.suspended = np.suspended
      BY <1>7 DEF PolicyType, Waiting
    <3> HIDE DEF f
    <3>4. Sound(f)
      BY <1>7, <3>1, <3>3 DEF Sound
    <3> QED
      BY <3>1, <3>2, <3>3, <3>4
  <2>2. CASE ~(to.do = "Probe" /\ ~OnChannel(d, np))
    <3>1. last = np
      BY <2>2
    <3> HIDE DEF last, np
    <3> QED
      BY <1>7, <3>1
  <2> QED
    BY <2>1, <2>2
<1>9. /\ pol' = [pol EXCEPT ![d] = last]
      /\ \E x \in {None, Failed} \union Channels :
            /\ probe' = [probe EXCEPT ![d] = x]
            /\ last.st = "Pending" /\ x \notin {None, Failed} => x = last.cur
      /\ heard' \in [Roles -> 0..LinkTimeout] /\ faults' \in 0..MaxFaults
  <2>1. CASE to.do = "Probe" /\ OnChannel(d, np)
    <3>1. PICK got \in BOOLEAN, acked \in BOOLEAN :
            /\ Fault(InRange /\ ~acked)
            /\ heard' = IF got THEN [heard EXCEPT ![Peer(d)] = 0] ELSE heard
            /\ probe' = [probe EXCEPT ![d] = IF acked THEN radio[d] ELSE Failed]
      BY <1>1, <2>1 DEF TryProbe
    <3>2. pol' = [pol EXCEPT ![d] = np] /\ last = np
      BY <1>1, <2>1 DEF TryProbe
    <3>3. radio[d] = np.cur /\ np.cur \in Channels
      BY <1>7, <2>1 DEF OnChannel
    <3>4. faults' \in 0..MaxFaults
      <4> DEFINE h == InRange /\ ~acked
      <4>1. h \in BOOLEAN /\ Fault(h)
        BY <3>1
      <4> HIDE DEF h
      <4> QED
        BY <1>4, <4>1, FaultType
    <3>5. heard' \in [Roles -> 0..LinkTimeout]
      <4>1. 0 \in 0..LinkTimeout
        BY LimitsAre
      <4>2. CASE got
        BY <1>4, <3>1, <4>1, <4>2
      <4>3. CASE ~got
        BY <1>4, <3>1, <4>3
      <4> QED
        BY <4>2, <4>3
    <3> HIDE DEF last, np
    <3> QED
      BY <3>1, <3>2, <3>3, <3>4, <3>5
  <2>2. CASE to.do = "Probe" /\ ~OnChannel(d, np)
    <3>1. /\ probe' = [probe EXCEPT ![d] = None] /\ pol' = [pol EXCEPT ![d] = last]
          /\ heard' = heard /\ faults' = faults
      BY <1>1, <2>2 DEF TryProbe
    <3> HIDE DEF last, np
    <3> QED
      BY <1>4, <3>1
  <2>3. CASE to.do # "Probe"
    <3>1. PICK moves \in BOOLEAN :
            /\ pol' = [pol EXCEPT ![d] = np] /\ probe' = [probe EXCEPT ![d] = None]
            /\ Fault(sets /\ ~moves) /\ heard' = heard
      BY <1>1, <2>3
    <3>2. faults' \in 0..MaxFaults
      <4> DEFINE h == sets /\ ~moves
      <4>1. h \in BOOLEAN /\ Fault(h)
        BY <3>1
      <4> HIDE DEF h
      <4> QED
        BY <1>4, <4>1, FaultType
    <3>3. last = np
      BY <2>3
    <3> HIDE DEF last, np
    <3> QED
      BY <1>4, <3>1, <3>2, <3>3
  <2> QED
    BY <2>1, <2>2, <2>3
<1>10. /\ radio' \in [Roles -> Channels \union {NoChannel}]
       /\ \A e \in Roles : radio'[e] = NoChannel <=> radio[e] = NoChannel
  <2>1. radio' = radio \/ radio' = [radio EXCEPT ![d] = np.cur]
    BY <1>1
  <2>2. np.cur # NoChannel
    BY <1>7 DEF Channels, NoChannel
  <2> HIDE DEF np
  <2> QED
    BY <1>1, <1>4, <1>7, <2>1, <2>2
<1> HIDE DEF np, last
<1>11. /\ pol[d].hold = Off /\ last.hold # Off => probe[d] = last.cur
       /\ last.down \in {Off, 0, pol[d].down} /\ (d = "display" /\ mqtt => last.down = Off)
       /\ last.resumed = IF resumes THEN 0
                         ELSE IF pol[d].resumed = ResumeWindow THEN Off ELSE pol[d].resumed
       /\ resumes => pol[d].suspended # Off
       /\ \/ last.suspended \in {Off, pol[d].suspended}
          \/ /\ d = "display" /\ wifi[d] = "on" /\ ~Linked(d)
             /\ pol[d].suspended = Off /\ pol[d].resumed \in {Off, ResumeWindow}
             /\ SuspendAfter \in {Off, 0, pol[d].down}
       /\ last.suspended # Off /\ wifi[d] = "on" => np.st = "Idle"
  BY <1>2, <1>3, <1>6, <1>8 DEF ReportedDone, PollDone, np
<1>12. last.suspended # Off /\ wifi[d] = "on" => last.st = "Idle"
  BY <1>8, <1>11
<1>13. resumes \in BOOLEAN
  OBVIOUS
<1>14. /\ wifi[d] # "joining" /\ back' = IF resumes THEN 0 ELSE back
       /\ mute' = IF d = "display" /\ mqtt THEN 0 ELSE mute
       /\ wifi' = wifi /\ ap' = ap /\ broker' = broker /\ mqtt' = mqtt
  BY <1>1
<1> HIDE DEF resumes
<1>15. LinkDone(d, last, resumes)
  BY <1>8, <1>9, <1>10, <1>11, <1>12, <1>14 DEF LinkDone
<1> QED
  BY <1>13, <1>15

-----------------------------------------------------------------------------
LEMMA NewPolicyIs ==
    ASSUME NEW d \in Roles
    PROVE  /\ NewPolicy \in PolicyType(d) /\ Sound(NewPolicy)
           /\ NewPolicy.st = "Idle" /\ NewPolicy.suspended = Off
           /\ NewPolicy.down = Off /\ NewPolicy.resumed = Off /\ NewPolicy.hold = Off
<1>1. /\ Off \in Off..AckHold /\ Off \in Off..SearchInterval[d] /\ Off \in Off..SuspendAfter
      /\ 0 \in 0..ResetGap /\ Off \in Off..ResumeInterval /\ Off \in Off..ResumeWindow
  BY ClocksIn
<1>2. 1 \in 1..(Len(SearchChannels) + 2) /\ Rendezvous \in Channels
  BY ChannelAssumption
<1> QED
  BY <1>1, <1>2 DEF NewPolicy, PolicyType, Sound

LEMMA ChannelStart == Init => ChannelInv
<1> SUFFICES ASSUME Init PROVE ChannelInv
  OBVIOUS
<1>1. \A d \in Roles : /\ NewPolicy \in PolicyType(d) /\ Sound(NewPolicy) /\ pol[d] = NewPolicy
                       /\ NewPolicy.st = "Idle" /\ NewPolicy.suspended = Off
                       /\ NewPolicy.down = Off /\ NewPolicy.resumed = Off
                       /\ NewPolicy.hold = Off
  BY NewPolicyIs DEF Init
<1>2. Rendezvous \in Channels /\ Rendezvous # NoChannel
  BY LimitsAre DEF Channels, NoChannel
<1>3. /\ 0 \in 0..MaxFaults /\ 0 \in 0..SuspendAfter /\ LinkTimeout \in 0..LinkTimeout
      /\ ResumeWindow \in 0..ResumeWindow
  BY LimitsAre, FaultAssumption
<1>4. ChannelTypeOK
  BY <1>1, <1>2, <1>3 DEF Init, ChannelTypeOK
<1>5. ClocksTrue
  BY <1>1 DEF Init, ClocksTrue, Roles, Off
<1>6. \A d \in Roles : Sound(pol[d]) /\ ProbeTrue(d) /\ SuspendTrue(d)
  BY <1>1 DEF ProbeTrue, SuspendTrue
<1> QED
  BY <1>4, <1>5, <1>6 DEF ChannelInv

LEMMA LinkStep ==
    ASSUME ChannelInv, NEW d \in Roles, NEW np, NEW resumes \in BOOLEAN,
           LinkDone(d, np, resumes)
    PROVE  ChannelInv'
<1>1. /\ pol'[d] = np /\ DOMAIN pol' = Roles
      /\ \A e \in Roles \ {d} : pol'[e] = pol[e] /\ probe'[e] = probe[e]
  BY DEF ChannelInv, ChannelTypeOK, LinkDone
<1>2. /\ np \in PolicyType(d) /\ Sound(np) /\ np.st # "Acked"
      /\ np.st = "Pending" /\ probe'[d] \notin {None, Failed} => probe'[d] = np.cur
      /\ probe' \in [Roles -> {None, Failed} \union Channels]
      /\ wifi[d] # "joining" /\ wifi' = wifi /\ ap' = ap /\ broker' = broker /\ mqtt' = mqtt
      /\ radio' \in [Roles -> Channels \union {NoChannel}]
      /\ \A e \in Roles : radio'[e] = NoChannel <=> radio[e] = NoChannel
      /\ heard' \in [Roles -> 0..LinkTimeout] /\ faults' \in 0..MaxFaults
  BY DEF ChannelInv, ChannelTypeOK, LinkDone
<1>3. \A e \in Roles : /\ pol'[e] \in PolicyType(e) /\ Sound(pol'[e])
                       /\ pol'[e].st # "Acked"
                       /\ pol'[e].st = "Pending" /\ probe'[e] \notin {None, Failed}
                             => probe'[e] = pol'[e].cur
                       /\ probe'[e] # None => wifi[e] # "joining"
  <2>1. \A e \in Roles \ {d} : /\ pol[e] \in PolicyType(e) /\ Sound(pol[e])
                               /\ ProbeTrue(e) /\ (probe[e] # None => wifi[e] # "joining")
    BY DEF ChannelInv, ChannelTypeOK
  <2> QED
    BY <1>1, <1>2, <2>1 DEF ProbeTrue
<1>4. mute' \in 0..SuspendAfter /\ back' \in 0..ResumeWindow
  <2>1. mute \in 0..SuspendAfter /\ back \in 0..ResumeWindow
    BY DEF ChannelInv, ChannelTypeOK
  <2>2. mute' \in {0, mute} /\ back' \in {0, back}
    BY DEF LinkDone
  <2> QED
    BY <2>1, <2>2, LimitsAre
<1>5. ChannelTypeOK'
  BY <1>1, <1>2, <1>3, <1>4 DEF ChannelInv, ChannelTypeOK, Sound
<1>6. ClocksTrue'
  <2>1. "display" \in Roles /\ 0 # Off /\ Off < 0 /\ mute \in Nat /\ ResumeWindow # Off
    BY LimitsAre DEF Roles, Off, ChannelInv, ChannelTypeOK
  <2>2. ClocksTrue /\ SuspendTrue(d)
    BY DEF ChannelInv
  <2>3. CASE d = "display"
    <3>1. /\ np.down \in {Off, 0, pol[d].down} /\ (mqtt => np.down = Off)
          /\ mute' = IF mqtt THEN 0 ELSE mute
          /\ np.resumed = IF resumes THEN 0
                          ELSE IF pol[d].resumed = ResumeWindow THEN Off ELSE pol[d].resumed
          /\ back' = IF resumes THEN 0 ELSE back
      BY <2>3 DEF LinkDone
    <3>2. pol'["display"] = np
      BY <1>1, <2>3
    <3>3. np.down <= mute'
      BY <2>1, <2>2, <2>3, <3>1 DEF ClocksTrue, Off
    <3>4. IF np.resumed = Off THEN back' = ResumeWindow ELSE back' = np.resumed
      BY <2>1, <2>2, <2>3, <3>1 DEF ClocksTrue
    <3> QED
      BY <3>2, <3>3, <3>4 DEF ClocksTrue
  <2>4. CASE d # "display"
    <3>1. ~resumes
      BY <2>2, <2>4 DEF LinkDone, SuspendTrue
    <3>2. mute' = mute /\ back' = back /\ pol'["display"] = pol["display"]
      BY <1>1, <2>1, <2>4, <3>1 DEF LinkDone
    <3> QED
      BY <2>2, <3>2 DEF ClocksTrue
  <2> QED
    BY <2>3, <2>4
<1>7. ASSUME NEW e \in Roles PROVE SuspendTrue(e)'
  <2>1. SuspendTrue(e) /\ SuspendTrue(d)
    BY DEF ChannelInv
  <2>2. CASE e # d
    BY <1>1, <1>2, <2>1, <2>2 DEF SuspendTrue
  <2>3. CASE e = d
    <3>1. np.suspended # Off => pol[d].suspended # Off \/ d = "display"
      BY DEF LinkDone
    <3>2. np.suspended # Off /\ wifi[d] = "on" => np.st = "Idle"
      BY DEF LinkDone
    <3> QED
      BY <1>1, <1>2, <2>1, <2>3, <3>1, <3>2 DEF SuspendTrue
  <2> QED
    BY <2>2, <2>3
<1> QED
  BY <1>3, <1>5, <1>6, <1>7 DEF ChannelInv, ProbeTrue

\* The actions of the world leave the policies alone, and what they tell of the clocks.
LEMMA WorldStep ==
    ASSUME ChannelInv, pol' = pol, history' = history, ChannelTypeOK',
           \A d \in Roles : ProbeTrue(d)' /\ SuspendTrue(d)'
    PROVE  ChannelInv'
<1>1. ClocksTrue'
  BY DEF ChannelInv, ClocksTrue, history
<1>2. \A d \in Roles : Sound(pol'[d])
  BY DEF ChannelInv
<1> QED
  BY <1>1, <1>2 DEF ChannelInv

LEMMA StartJoinStep ==
    ASSUME ChannelInv, NEW d \in Roles, StartJoin(d)
    PROVE  ChannelInv'
<1>1. /\ pol[d].suspended = Off /\ pol' = pol /\ wifi' = [wifi EXCEPT ![d] = "joining"]
      /\ probe' = [probe EXCEPT ![d] = None] /\ radio' = [radio EXCEPT ![d] = NoChannel]
      /\ ap' = ap /\ broker' = broker /\ heard' = heard /\ mqtt' = mqtt /\ history' = history
      /\ mute' = mute /\ back' = back /\ wifi[d] = "off"
  BY DEF StartJoin, world, history
<1>2. faults' \in 0..MaxFaults
  <2> DEFINE h == ap[d] = NoChannel
  <2>1. h \in BOOLEAN /\ Fault(h) /\ faults \in 0..MaxFaults
    BY DEF StartJoin, ChannelInv, ChannelTypeOK
  <2> HIDE DEF h
  <2> QED
    BY <2>1, FaultType
<1>3. ChannelTypeOK'
  BY <1>1, <1>2 DEF ChannelInv, ChannelTypeOK
<1>4. \A e \in Roles : ProbeTrue(e)' /\ SuspendTrue(e)'
  BY <1>1 DEF ChannelInv, ChannelTypeOK, ProbeTrue, SuspendTrue
<1> QED
  BY <1>1, <1>3, <1>4, WorldStep

LEMMA EndJoinStep ==
    ASSUME ChannelInv, NEW d \in Roles, EndJoin(d)
    PROVE  ChannelInv'
<1>1. /\ wifi[d] = "joining" /\ pol' = pol /\ probe' = probe /\ history' = history
      /\ ap' = ap /\ broker' = broker /\ heard' = heard /\ mqtt' = mqtt /\ faults' = faults
      /\ mute' = mute /\ back' = back
  BY DEF EndJoin, world, history
<1>2. PICK w \in {"off", "on"}, c \in Channels :
        wifi' = [wifi EXCEPT ![d] = w] /\ radio' = [radio EXCEPT ![d] = c]
  <2>1. CASE ap[d] # NoChannel
    <3>1. ap[d] \in Channels
      BY <2>1 DEF ChannelInv, ChannelTypeOK
    <3> QED
      BY <2>1, <3>1 DEF EndJoin
  <2>2. CASE ap[d] = NoChannel
    <3>1. {Rendezvous} \union Range(SearchChannels) \subseteq Channels
      BY ChannelAssumption DEF Range
    <3> QED
      BY <2>2, <3>1 DEF EndJoin
  <2> QED
    BY <2>1, <2>2
<1>3. c # NoChannel
  BY DEF Channels, NoChannel
<1>4. ~(mqtt /\ d = "display")
  BY <1>1 DEF ChannelInv, ChannelTypeOK
<1>5. ChannelTypeOK'
  BY <1>1, <1>2, <1>3, <1>4 DEF ChannelInv, ChannelTypeOK
<1>6. \A e \in Roles : ProbeTrue(e)' /\ SuspendTrue(e)'
  <2>1. pol[d].suspended = Off
    BY <1>1 DEF ChannelInv, SuspendTrue
  <2> QED
    BY <1>1, <1>2, <2>1 DEF ChannelInv, ChannelTypeOK, ProbeTrue, SuspendTrue
<1> QED
  BY <1>1, <1>5, <1>6, WorldStep

LEMMA LeaveStep ==
    ASSUME ChannelInv, Leave
    PROVE  ChannelInv'
<1>1. /\ wifi["display"] = "on" /\ wifi' = [wifi EXCEPT !["display"] = "off"]
      /\ mqtt' = FALSE
      /\ pol' = pol /\ probe' = probe /\ radio' = radio /\ history' = history
      /\ ap' = ap /\ broker' = broker /\ heard' = heard /\ faults' = faults
      /\ mute' = mute /\ back' = back /\ "display" \in Roles
  BY DEF Leave, LeavesWifi, world, history, Roles
<1>2. ChannelTypeOK'
  BY <1>1 DEF ChannelInv, ChannelTypeOK
<1>3. \A e \in Roles : ProbeTrue(e)' /\ SuspendTrue(e)'
  BY <1>1 DEF ChannelInv, ChannelTypeOK, ProbeTrue, SuspendTrue
<1> QED
  BY <1>1, <1>2, <1>3, WorldStep

\* A device that goes off WiFi takes its own connection to the broker with it.
LEMMA MqttWithout ==
    ASSUME ChannelTypeOK, NEW d \in Roles, wifi' = [wifi EXCEPT ![d] = "off"],
           mqtt' = (mqtt /\ d # "display"), broker' = broker
    PROVE  mqtt' \in BOOLEAN /\ (mqtt' => broker' /\ wifi'["display"] = "on")
<1>1. /\ mqtt \in BOOLEAN /\ (mqtt => broker /\ wifi["display"] = "on")
      /\ wifi \in [Roles -> {"off", "joining", "on"}] /\ "display" \in Roles
  BY DEF ChannelTypeOK, Roles
<1>2. CASE d = "display"
  BY <1>1, <1>2
<1>3. CASE d # "display"
  <2>1. wifi'["display"] = wifi["display"]
    BY <1>1, <1>3
  <2>2. mqtt' = mqtt
    BY <1>1, <1>3
  <2> QED
    BY <1>1, <2>1, <2>2
<1> QED
  BY <1>2, <1>3

LEMMA ApChangeStep ==
    ASSUME ChannelInv, NEW d \in Roles, NEW c \in AccessPoints[d] \union {NoChannel},
           ApChange(d, c)
    PROVE  ChannelInv'
<1>1. /\ ap' = [ap EXCEPT ![d] = c] /\ Fault(TRUE)
      /\ pol' = pol /\ probe' = probe /\ history' = history
      /\ broker' = broker /\ heard' = heard /\ mute' = mute /\ back' = back
  BY DEF ApChange, history
<1>2. faults' \in 0..MaxFaults
  BY <1>1, FaultType DEF ChannelInv, ChannelTypeOK
<1>3. \/ wifi' = wifi /\ mqtt' = mqtt /\ radio' = radio
      \/ /\ wifi[d] = "on" /\ wifi' = [wifi EXCEPT ![d] = "off"] /\ radio' = radio
         /\ mqtt' = (mqtt /\ d # "display")
      \/ /\ wifi[d] = "on" /\ c # NoChannel /\ radio' = [radio EXCEPT ![d] = c]
         /\ wifi' = wifi /\ mqtt' = mqtt
  BY DEF ApChange, LeavesWifi
<1>4. c \in Channels \union {NoChannel}
  BY FaultAssumption
<1>5. ChannelTypeOK'
  <2>1. ap' \in [Roles -> Channels \union {NoChannel}]
        /\ \A e \in Roles : ap'[e] \in AccessPoints[e] \union {NoChannel}
    BY <1>1, <1>4 DEF ChannelInv, ChannelTypeOK
  <2>2. CASE wifi' = wifi /\ mqtt' = mqtt /\ radio' = radio
    BY <1>1, <1>2, <2>1, <2>2 DEF ChannelInv, ChannelTypeOK
  <2>3. CASE /\ wifi[d] = "on" /\ wifi' = [wifi EXCEPT ![d] = "off"] /\ radio' = radio
             /\ mqtt' = (mqtt /\ d # "display")
    <3>1. mqtt' \in BOOLEAN /\ (mqtt' => broker' /\ wifi'["display"] = "on")
      BY <1>1, <2>3, MqttWithout DEF ChannelInv, ChannelTypeOK
    <3>2. wifi' = [wifi EXCEPT ![d] = "off"] /\ wifi[d] = "on" /\ radio' = radio
      BY <2>3
    <3> QED
      BY <1>1, <1>2, <2>1, <3>1, <3>2 DEF ChannelInv, ChannelTypeOK
  <2>4. CASE /\ wifi[d] = "on" /\ c # NoChannel /\ radio' = [radio EXCEPT ![d] = c]
             /\ wifi' = wifi /\ mqtt' = mqtt
    BY <1>1, <1>2, <1>4, <2>1, <2>4 DEF ChannelInv, ChannelTypeOK
  <2> QED
    BY <1>3, <2>2, <2>3, <2>4
<1>6. \A e \in Roles : ProbeTrue(e)' /\ SuspendTrue(e)'
  <2>1. \A e \in Roles : wifi'[e] = wifi[e] \/ wifi'[e] = "off"
    BY <1>3 DEF ChannelInv, ChannelTypeOK
  <2> QED
    BY <1>1, <2>1 DEF ChannelInv, ProbeTrue, SuspendTrue
<1> QED
  BY <1>1, <1>5, <1>6, WorldStep

LEMMA MqttStep ==
    ASSUME ChannelInv, BrokerChange \/ MqttConnects
    PROVE  ChannelInv'
<1>1. /\ pol' = pol /\ probe' = probe /\ radio' = radio /\ wifi' = wifi /\ ap' = ap
      /\ heard' = heard /\ history' = history /\ mute' = mute /\ back' = back
  BY DEF BrokerChange, MqttConnects, world, history
<1>2. faults' \in 0..MaxFaults
  <2>1. CASE BrokerChange
    BY <2>1, FaultType DEF BrokerChange, ChannelInv, ChannelTypeOK
  <2>2. CASE MqttConnects
    BY <2>2 DEF MqttConnects, ChannelInv, ChannelTypeOK
  <2> QED
    BY <2>1, <2>2
<1>3. /\ broker' \in BOOLEAN /\ mqtt' \in BOOLEAN
      /\ mqtt' => broker' /\ wifi["display"] = "on"
  <2>1. broker \in BOOLEAN /\ mqtt \in BOOLEAN /\ (mqtt => broker /\ wifi["display"] = "on")
    BY DEF ChannelInv, ChannelTypeOK
  <2>2. CASE BrokerChange
    BY <2>1, <2>2 DEF BrokerChange
  <2>3. CASE MqttConnects
    BY <2>1, <2>3 DEF MqttConnects, world
  <2> QED
    BY <2>2, <2>3
<1>4. ChannelTypeOK'
  BY <1>1, <1>2, <1>3 DEF ChannelInv, ChannelTypeOK
<1>5. \A e \in Roles : ProbeTrue(e)' /\ SuspendTrue(e)'
  BY <1>1 DEF ChannelInv, ProbeTrue, SuspendTrue
<1> QED
  BY <1>1, <1>4, <1>5, WorldStep

LEMMA RestartStep ==
    ASSUME ChannelInv, NEW d \in Roles, Restart(d)
    PROVE  ChannelInv'
<1>1. /\ pol' = [pol EXCEPT ![d] = NewPolicy] /\ probe' = [probe EXCEPT ![d] = None]
      /\ radio' = [radio EXCEPT ![d] = Rendezvous]
      /\ heard' = [heard EXCEPT ![d] = LinkTimeout]
      /\ wifi' = [wifi EXCEPT ![d] = "off"] /\ mqtt' = (mqtt /\ d # "display")
      /\ mute' = (IF d = "display" THEN 0 ELSE mute)
      /\ back' = (IF d = "display" THEN ResumeWindow ELSE back)
      /\ ap' = ap /\ broker' = broker /\ Fault(TRUE)
  BY DEF Restart, LeavesWifi, world
<1>2. /\ NewPolicy \in PolicyType(d) /\ Sound(NewPolicy)
      /\ NewPolicy.st = "Idle" /\ NewPolicy.suspended = Off
      /\ NewPolicy.down = Off /\ NewPolicy.resumed = Off /\ NewPolicy.hold = Off
  BY NewPolicyIs
<1>3. faults' \in 0..MaxFaults
  BY <1>1, FaultType DEF ChannelInv, ChannelTypeOK
<1>4. /\ Rendezvous \in Channels /\ Rendezvous # NoChannel /\ LinkTimeout \in 0..LinkTimeout
      /\ 0 \in 0..SuspendAfter /\ ResumeWindow \in 0..ResumeWindow
  BY LimitsAre DEF Channels, NoChannel
<1> HIDE DEF NewPolicy
<1>5. ChannelTypeOK'
  <2>1. mqtt' \in BOOLEAN /\ (mqtt' => broker' /\ wifi'["display"] = "on")
    BY <1>1, MqttWithout DEF ChannelInv, ChannelTypeOK
  <2>2. mute' \in 0..SuspendAfter /\ back' \in 0..ResumeWindow
    BY <1>1, <1>4 DEF ChannelInv, ChannelTypeOK
  <2>3. /\ pol' = [pol EXCEPT ![d] = NewPolicy] /\ probe' = [probe EXCEPT ![d] = None]
        /\ radio' = [radio EXCEPT ![d] = Rendezvous]
        /\ heard' = [heard EXCEPT ![d] = LinkTimeout]
        /\ wifi' = [wifi EXCEPT ![d] = "off"] /\ ap' = ap /\ broker' = broker
    BY <1>1
  <2> QED
    BY <1>2, <1>3, <1>4, <2>1, <2>2, <2>3 DEF ChannelInv, ChannelTypeOK
<1>6. ClocksTrue'
  BY <1>1, <1>2 DEF ChannelInv, ChannelTypeOK, ClocksTrue, Off, Roles
<1>7. \A e \in Roles : Sound(pol'[e]) /\ ProbeTrue(e)' /\ SuspendTrue(e)'
  BY <1>1, <1>2 DEF ChannelInv, ChannelTypeOK, ProbeTrue, SuspendTrue
<1> QED
  BY <1>5, <1>6, <1>7 DEF ChannelInv

-----------------------------------------------------------------------------
LEMMA AgedIs ==
    ASSUME NEW limit \in Nat, NEW age \in Off..limit
    PROVE  /\ Aged(age, limit) \in Off..limit
           /\ age = Off <=> Aged(age, limit) = Off
           /\ age \in 0..limit => Aged(age, limit) \in 0..limit
  BY DEF Aged, Off

LEMMA ElapseIs ==
    ASSUME NEW d \in Roles, NEW p \in PolicyType(d), Sound(p), NEW on,
           NEW q, q = Elapse(p, d, on)
    PROVE  /\ q \in PolicyType(d) /\ Sound(q) /\ q.st = p.st /\ q.cur = p.cur
           /\ q.suspended = Off <=> p.suspended = Off
           /\ q.resumed = Aged(p.resumed, ResumeWindow)
           /\ q.down = IF on THEN Aged(p.down, SuspendAfter) ELSE p.down
           /\ q.hold = Off <=> p.hold = Off
<1> DEFINE hold == Aged(p.hold, AckHold)
           pass == Aged(p.pass, SearchInterval[d])
           down == IF on THEN Aged(p.down, SuspendAfter) ELSE p.down
           gap == IF p.down = Off THEN p.gap ELSE Aged(p.gap, ResetGap)
           suspended == Aged(p.suspended, ResumeInterval)
           resumed == Aged(p.resumed, ResumeWindow)
<1>1. q = [p EXCEPT !.hold = hold, !.pass = pass, !.down = down, !.gap = gap,
                    !.suspended = suspended, !.resumed = resumed]
  BY DEF Elapse, PolicyType
<1>2. /\ p.hold \in Off..AckHold /\ p.pass \in Off..SearchInterval[d]
      /\ p.down \in Off..SuspendAfter /\ p.gap \in 0..ResetGap
      /\ p.suspended \in Off..ResumeInterval /\ p.resumed \in Off..ResumeWindow
      /\ p.gap \in Off..ResetGap
  BY LimitsAre DEF PolicyType, Off
<1>3. hold \in Off..AckHold /\ (hold = Off <=> p.hold = Off)
  BY <1>2, LimitsAre, AgedIs
<1>4. pass \in Off..SearchInterval[d]
  BY <1>2, LimitsAre, AgedIs
<1>5. down \in Off..SuspendAfter
  BY <1>2, LimitsAre, AgedIs
<1>6. gap \in 0..ResetGap
  BY <1>2, LimitsAre, AgedIs
<1>7. suspended \in Off..ResumeInterval /\ (suspended = Off <=> p.suspended = Off)
  BY <1>2, LimitsAre, AgedIs
<1>8. resumed \in Off..ResumeWindow
  BY <1>2, LimitsAre, AgedIs
<1>9. q.resumed = resumed /\ q.down = down
  BY <1>1 DEF PolicyType
<1> HIDE DEF hold, pass, down, gap, suspended, resumed
<1>10. /\ q \in PolicyType(d) /\ q.st = p.st /\ q.cur = p.cur /\ q.good = p.good
       /\ q.next = p.next /\ q.hold = hold /\ q.suspended = suspended
  BY <1>1, <1>3, <1>4, <1>5, <1>6, <1>7, <1>8 DEF PolicyType
<1>11. Sound(q)
  BY <1>3, <1>10 DEF Sound
<1> QED
  BY <1>3, <1>7, <1>9, <1>10, <1>11 DEF down, resumed

LEMMA TickStep ==
    ASSUME ChannelInv, Tick
    PROVE  /\ ChannelInv'
           /\ \A d \in Roles : /\ pol[d].hold = Off <=> pol'[d].hold = Off
                               /\ pol[d].suspended = Off <=> pol'[d].suspended = Off
<1>1. /\ probe' = probe /\ radio' = radio /\ wifi' = wifi /\ ap' = ap /\ broker' = broker
      /\ mqtt' = mqtt /\ pol' = [d \in Roles |-> Elapse(pol[d], d, wifi[d] = "on")]
      /\ mute' = (IF mqtt THEN 0 ELSE IF wifi["display"] = "on" THEN Aged(mute, SuspendAfter)
                  ELSE mute)
      /\ back' = Aged(back, ResumeWindow) /\ Quiet("display") /\ "display" \in Roles
  BY DEF Tick, world, Roles
<1>2. \A d \in Roles : /\ pol'[d] \in PolicyType(d) /\ Sound(pol'[d])
                       /\ pol'[d].st = pol[d].st /\ pol'[d].cur = pol[d].cur
                       /\ pol'[d].suspended = Off <=> pol[d].suspended = Off
                       /\ pol'[d].resumed = Aged(pol[d].resumed, ResumeWindow)
                       /\ pol'[d].down = IF wifi[d] = "on" THEN Aged(pol[d].down, SuspendAfter)
                                         ELSE pol[d].down
                       /\ pol'[d].hold = Off <=> pol[d].hold = Off
  <2> SUFFICES ASSUME NEW d \in Roles
               PROVE  /\ pol'[d] \in PolicyType(d) /\ Sound(pol'[d])
                      /\ pol'[d].st = pol[d].st /\ pol'[d].cur = pol[d].cur
                      /\ pol'[d].suspended = Off <=> pol[d].suspended = Off
                      /\ pol'[d].resumed = Aged(pol[d].resumed, ResumeWindow)
                      /\ pol'[d].down = IF wifi[d] = "on"
                                        THEN Aged(pol[d].down, SuspendAfter)
                                        ELSE pol[d].down
                      /\ pol'[d].hold = Off <=> pol[d].hold = Off
    OBVIOUS
  <2> DEFINE on == wifi[d] = "on"
  <2>1. pol[d] \in PolicyType(d) /\ Sound(pol[d]) /\ pol'[d] = Elapse(pol[d], d, on)
    BY <1>1 DEF ChannelInv, ChannelTypeOK
  <2>2. on <=> wifi[d] = "on"
    OBVIOUS
  <2> HIDE DEF on
  <2>3. /\ pol'[d] \in PolicyType(d) /\ Sound(pol'[d])
        /\ pol'[d].st = pol[d].st /\ pol'[d].cur = pol[d].cur
        /\ pol'[d].suspended = Off <=> pol[d].suspended = Off
        /\ pol'[d].resumed = Aged(pol[d].resumed, ResumeWindow)
        /\ pol'[d].down = IF on THEN Aged(pol[d].down, SuspendAfter) ELSE pol[d].down
        /\ pol'[d].hold = Off <=> pol[d].hold = Off
    BY <2>1, ElapseIs
  <2> QED
    BY <2>2, <2>3
<1>3. heard' \in [Roles -> 0..LinkTimeout] /\ faults' \in 0..MaxFaults
  <2>1. PICK lost \in SUBSET Roles :
          /\ Fault(lost # {})
          /\ heard' = [d \in Roles |-> IF InRange /\ Peer(d) \notin lost THEN 0
                                       ELSE Aged(heard[d], LinkTimeout)]
    BY DEF Tick
  <2>2. \A d \in Roles : 0 \in 0..LinkTimeout /\ Aged(heard[d], LinkTimeout) \in 0..LinkTimeout
    <3>1. \A d \in Roles : heard[d] \in 0..LinkTimeout /\ heard[d] \in Off..LinkTimeout
      BY LimitsAre DEF ChannelInv, ChannelTypeOK, Off
    <3> QED
      BY <3>1, LimitsAre, AgedIs
  <2>3. faults' \in 0..MaxFaults
    <3> DEFINE h == lost # {}
    <3>1. h \in BOOLEAN /\ Fault(h) /\ faults \in 0..MaxFaults
      BY <2>1 DEF ChannelInv, ChannelTypeOK
    <3> HIDE DEF h
    <3> QED
      BY <3>1, FaultType
  <2> QED
    BY <2>1, <2>2, <2>3
<1>4. /\ mute \in 0..SuspendAfter /\ back \in 0..ResumeWindow
      /\ mute' \in 0..SuspendAfter /\ back' \in 0..ResumeWindow
  <2>1. mute \in 0..SuspendAfter /\ back \in 0..ResumeWindow
    BY DEF ChannelInv, ChannelTypeOK
  <2>2. Aged(mute, SuspendAfter) \in 0..SuspendAfter /\ Aged(back, ResumeWindow) \in 0..ResumeWindow
        /\ 0 \in 0..SuspendAfter
    <3>1. mute \in Off..SuspendAfter /\ back \in Off..ResumeWindow
      BY <2>1, LimitsAre DEF Off
    <3> QED
      BY <2>1, <3>1, LimitsAre, AgedIs
  <2> QED
    BY <1>1, <2>1, <2>2
<1>5. ChannelTypeOK'
  <2>1. DOMAIN pol' = Roles
    BY <1>1
  <2>2. \A d \in Roles : /\ pol'[d] \in PolicyType(d)
                         /\ pol'[d].hold # Off => pol'[d].st = "Idle" /\ pol'[d].good = pol'[d].cur
                         /\ pol'[d].st # "Idle" => pol'[d].next \in Candidates[pol'[d].good]
    BY <1>2 DEF Sound
  <2>3. /\ probe' = probe /\ radio' = radio /\ wifi' = wifi /\ ap' = ap /\ broker' = broker
        /\ mqtt' = mqtt
    BY <1>1
  <2> QED
    BY <1>3, <1>4, <2>1, <2>2, <2>3 DEF ChannelInv, ChannelTypeOK
<1>6. ClocksTrue'
  <2> DEFINE p == pol["display"]
             d == "display"
  <2>1. /\ p \in PolicyType(d) /\ Sound(p) /\ ReportedDone(d, Reported(d))
        /\ SuspendTrue(d) /\ (mqtt => wifi[d] = "on")
    BY <1>1, ReportedIs DEF ChannelInv, ChannelTypeOK
  <2>2. p.resumed # ResumeWindow /\ (mqtt => p.down = Off)
    <3> DEFINE r == Reported(d)
               in == Inputs(d)
               to == Poll(r, in)
    <3>1. in.role = d /\ in.channel = radio[d] /\ (in.associated <=> wifi[d] = "on")
          /\ (mqtt => in.mqtt)
      BY DEF Inputs
    <3>2. in.associated => in.channel \in Channels
      BY <1>1, <3>1 DEF ChannelInv, ChannelTypeOK
    <3>3. /\ to = Did(p, "None")
          /\ r \in PolicyType(d) /\ Sound(r) /\ r.resumed = p.resumed
          /\ r.suspended # Off /\ in.associated => r.st = "Idle"
      BY <1>1, <2>1, <3>1 DEF Quiet, ReportedDone
    <3> HIDE DEF r, in, p, d
    <3>4. d \in Roles
      BY <1>1 DEF d
    <3>5. PollDone(d, r, in, to)
      BY <3>1, <3>2, <3>3, <3>4, PollOutcome
    <3>6. ResumeWindow # Off
      BY LimitsAre DEF Off
    <3> HIDE DEF to
    <3> QED
      BY <3>1, <3>3, <3>5, <3>6 DEF PollDone, Did
  <2>3. /\ p.down \in Off..SuspendAfter /\ p.resumed \in Off..ResumeWindow
        /\ pol'[d].resumed = Aged(p.resumed, ResumeWindow)
        /\ pol'[d].down = IF wifi[d] = "on" THEN Aged(p.down, SuspendAfter) ELSE p.down
        /\ p.down <= mute
        /\ IF p.resumed = Off THEN back = ResumeWindow ELSE back = p.resumed
    BY <1>1, <1>2, <2>1 DEF PolicyType, ChannelInv, ClocksTrue
  <2> HIDE DEF p
  <2>4. pol'[d].down <= mute'
    BY <1>1, <1>4, <2>2, <2>3, LimitsAre DEF Aged, Off
  <2>5. IF pol'[d].resumed = Off THEN back' = ResumeWindow ELSE back' = pol'[d].resumed
    BY <1>1, <1>4, <2>2, <2>3, LimitsAre DEF Aged, Off
  <2> QED
    BY <2>4, <2>5 DEF ClocksTrue
<1>7. \A d \in Roles : ProbeTrue(d)' /\ SuspendTrue(d)'
  BY <1>1, <1>2 DEF ChannelInv, ProbeTrue, SuspendTrue
<1> QED
  BY <1>2, <1>5, <1>6, <1>7 DEF ChannelInv

LEMMA ChannelStep ==
    ASSUME ChannelInv, [Next]_vars
    PROVE  ChannelInv'
<1>1. ASSUME NEW d \in Roles, LinkTick(d) PROVE ChannelInv'
  <2>0. PICK np : \E resumes \in BOOLEAN : LinkDone(d, np, resumes)
    BY <1>1, LinkTickIs
  <2>1. PICK resumes \in BOOLEAN : LinkDone(d, np, resumes)
    BY <2>0
  <2> QED
    BY <2>1, LinkStep
<1>2. CASE Tick
  BY <1>2, TickStep
<1>3. CASE UNCHANGED vars
  <2>1. ChannelTypeOK' /\ history' = history /\ pol' = pol
    BY <1>3 DEF vars, history, ChannelInv, ChannelTypeOK
  <2>2. \A d \in Roles : ProbeTrue(d)' /\ SuspendTrue(d)'
    BY <1>3 DEF vars, ChannelInv, ProbeTrue, SuspendTrue
  <2> QED
    BY <2>1, <2>2, WorldStep
<1> QED
  BY <1>1, <1>2, <1>3, StartJoinStep, EndJoinStep, RestartStep, ApChangeStep, LeaveStep,
     MqttStep DEF Next

\* Every state the two devices can reach is of the right type, keeps a hold only where the
\* last good channel is the current one, and is at a candidate of its pass.
THEOREM ChannelTypeCorrect == Spec => []ChannelTypeOK
<1>1. Spec => []ChannelInv
  BY ChannelStart, ChannelStep, PTL DEF Spec
<1>2. ChannelInv => ChannelTypeOK
  BY DEF ChannelInv
<1> QED
  BY <1>1, <1>2, PTL

-----------------------------------------------------------------------------
LEMMA HoldStep ==
    ASSUME ChannelInv, [Next]_vars
    PROVE  [\A d \in Roles : HoldStarts(d) => probe[d] = pol'[d].cur]_vars
<1> SUFFICES ASSUME Next, NEW d \in Roles, HoldStarts(d)
             PROVE  probe[d] = pol'[d].cur
  OBVIOUS
<1>1. pol[d].hold = Off /\ pol'[d].hold # Off /\ DOMAIN pol = Roles
  BY DEF HoldStarts, ChannelInv, ChannelTypeOK
<1>2. ASSUME NEW e \in Roles, LinkTick(e) PROVE probe[d] = pol'[d].cur
  <2>0. PICK np : \E resumes \in BOOLEAN : LinkDone(e, np, resumes)
    BY <1>2, LinkTickIs
  <2>1. PICK resumes \in BOOLEAN : LinkDone(e, np, resumes)
    BY <2>0
  <2>2. pol' = [pol EXCEPT ![e] = np]
        /\ (pol[e].hold = Off /\ np.hold # Off => probe[e] = np.cur)
    BY <2>1 DEF LinkDone
  <2> QED
    BY <1>1, <2>2
<1>3. CASE Tick
  BY <1>1, <1>3, TickStep
<1>4. ASSUME NEW e \in Roles, Restart(e) PROVE FALSE
  <2>1. NewPolicy.hold = Off /\ pol' = [pol EXCEPT ![e] = NewPolicy]
    BY <1>4, NewPolicyIs DEF Restart
  <2> QED
    BY <1>1, <2>1
<1>5. pol' # pol
  BY <1>1
<1> QED
  BY <1>2, <1>3, <1>4, <1>5
  DEF Next, StartJoin, EndJoin, ApChange, Leave, BrokerChange, MqttConnects

\* A device settles only on the channel it believed in when its probe was answered.
THEOREM HoldsAlwaysAnswered == Spec => HoldsWhereAnswered
<1>1. Spec => []ChannelInv
  BY ChannelStart, ChannelStep, PTL DEF Spec
<1> QED
  BY <1>1, HoldStep, PTL DEF Spec, HoldsWhereAnswered

LEMMA SuspendStep ==
    ASSUME ChannelInv, [Next]_vars
    PROVE  [Suspends => mute = SuspendAfter /\ back = ResumeWindow /\ ~Linked("display")]_vars
<1> DEFINE p == pol["display"]
<1> SUFFICES ASSUME Next, Suspends
             PROVE  mute = SuspendAfter /\ back = ResumeWindow /\ ~Linked("display")
  OBVIOUS
<1>1. /\ p.suspended = Off /\ pol'["display"].suspended # Off /\ DOMAIN pol = Roles
      /\ "display" \in Roles
  BY DEF Suspends, ChannelInv, ChannelTypeOK, Roles
<1>2. ASSUME NEW e \in Roles, LinkTick(e)
      PROVE  mute = SuspendAfter /\ back = ResumeWindow /\ ~Linked("display")
  <2>0. PICK np : \E resumes \in BOOLEAN : LinkDone(e, np, resumes)
    BY <1>2, LinkTickIs
  <2>1. PICK resumes \in BOOLEAN : LinkDone(e, np, resumes)
    BY <2>0
  <2>2. pol' = [pol EXCEPT ![e] = np]
    BY <2>1 DEF LinkDone
  <2>3. e = "display" /\ np.suspended \notin {Off, p.suspended}
    BY <1>1, <2>2
  <2>4. /\ ~Linked("display") /\ p.resumed \in {Off, ResumeWindow}
        /\ SuspendAfter \in {Off, 0, p.down}
    BY <2>1, <2>3 DEF LinkDone
  <2>5. /\ p.down <= mute /\ mute \in 0..SuspendAfter
        /\ IF p.resumed = Off THEN back = ResumeWindow ELSE back = p.resumed
    BY DEF ChannelInv, ClocksTrue, ChannelTypeOK
  <2>6. SuspendAfter \in Nat \ {0}
    BY LimitsAre
  <2> HIDE DEF p
  <2> QED
    BY <2>4, <2>5, <2>6 DEF Off
<1>3. CASE Tick
  BY <1>1, <1>3, TickStep
<1>4. ASSUME NEW e \in Roles, Restart(e) PROVE FALSE
  <2>1. NewPolicy.suspended = Off /\ pol' = [pol EXCEPT ![e] = NewPolicy]
    BY <1>4, NewPolicyIs DEF Restart
  <2> QED
    BY <1>1, <2>1
<1>5. pol' # pol
  BY <1>1
<1> QED
  BY <1>2, <1>3, <1>4, <1>5
  DEF Next, StartJoin, EndJoin, ApChange, Leave, BrokerChange, MqttConnects

\* The display gives up WiFi only after the whole time without MQTT, when it does not hear
\* its peer, and not within the window after it last came back: the policy's own counts of
\* these never run ahead of the time itself.
THEOREM SuspendAlwaysEarned == Spec => SuspendEarned
<1>1. Spec => []ChannelInv
  BY ChannelStart, ChannelStep, PTL DEF Spec
<1> QED
  BY <1>1, SuspendStep, PTL DEF Spec, SuspendEarned
=============================================================================
