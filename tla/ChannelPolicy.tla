--------------------------- MODULE ChannelPolicy ---------------------------
(***************************************************************************)
(* EspNowChannelPolicy (src/transport/espnow_channel_policy.cpp): which    *)
(* channel the radio of a controller or display belongs on, so that the    *)
(* two find each other when one or both have lost WiFi.  Pure operators    *)
(* over the record that holds the members of one policy.                   *)
(*                                                                         *)
(* A time stamp is the number of time units since it was taken, counted    *)
(* up to the limit it is compared with; a stamp and the flag guarding it   *)
(* are one field, Off while the flag is down.  The candidates of a pass    *)
(* are a function of `good', which a pass leaves alone until it ends, and  *)
(* one of them is known by its place in the list they are taken from; the  *)
(* outcome of a probe is part of the state ProbeWait.                      *)
(***************************************************************************)
EXTENDS Integers, Sequences, FiniteSets

CONSTANTS
    Rendezvous,      \* where both wait when neither has WiFi
    SearchChannels,  \* the channels always searched, in order
    SearchInterval,  \* for each role, the time between two passes
    LinkTimeout,     \* a peer heard more recently than this is linked
    AckHold,         \* how long to wait for a frame after an acknowledged probe
    SuspendAfter,    \* associated time without MQTT before the display leaves WiFi
    ResetGap,        \* time off WiFi that restarts that count
    ResumeInterval,  \* how long the display stays off WiFi
    ResumeWindow     \* how long it then stays on WiFi whatever happens

Roles == {"controller", "display"}
NoChannel == 0
MaxCandidates == 4
Channels == 1..14

\* The limits are positive: the code's are constants of seconds to minutes.
ASSUME ChannelAssumption ==
    /\ Rendezvous \in Channels /\ SearchChannels \in Seq(Channels)
    /\ SearchInterval \in [Roles -> Nat \ {0}]
    /\ {LinkTimeout, AckHold, SuspendAfter, ResetGap, ResumeInterval, ResumeWindow}
          \subseteq Nat \ {0}

Off == -1
Waiting == {"Pending", "Acked", "Failed"}  \* State::ProbeWait with its ProbeResult

PolicyType(role) ==
    [st : {"Idle", "NeedSet", "NeedProbe"} \union Waiting,
     cur : Channels, good : Channels \union {NoChannel},
     next : 1..(Len(SearchChannels) + 2),
     hold : Off..AckHold, pass : Off..SearchInterval[role],
     down : Off..SuspendAfter, gap : 0..ResetGap,
     suspended : Off..ResumeInterval, resumed : Off..ResumeWindow]

NewPolicy ==
    [st |-> "Idle", cur |-> Rendezvous, good |-> NoChannel, next |-> 1, hold |-> Off,
     pass |-> Off, down |-> Off, gap |-> 0, suspended |-> Off, resumed |-> Off]

-----------------------------------------------------------------------------
\* What a pass tries, in this order.
Offered(good) == <<good, Rendezvous>> \o SearchChannels

\* The valid channels on offer, each at its first place, ...
Fresh(good) ==
    {i \in 1..Len(Offered(good)) :
        /\ Offered(good)[i] # NoChannel
        /\ \A j \in 1..(i - 1) : Offered(good)[j] # Offered(good)[i]}

\* ... and of these no more than fit the array of candidates.
Candidates ==
    [good \in Channels \union {NoChannel} |->
        {i \in Fresh(good) : Cardinality({j \in Fresh(good) : j < i}) < MaxCandidates}]

First(places) == CHOOSE i \in places : \A j \in places : i <= j

ResetSearch(p) == [p EXCEPT !.st = "Idle", !.hold = Off, !.pass = Off]

Did(p, action) == [p |-> p, do |-> action]

\* Plausible mistake: MQTT coming back only stops the count.
FaultyClocks(p, in) ==
    [p EXCEPT
        !.resumed = IF @ = ResumeWindow THEN Off ELSE @,
        !.down = IF in.associated /\ ~in.mqtt /\ (@ = Off \/ p.gap = ResetGap) THEN 0 ELSE @,
        !.gap = IF in.associated \/ in.mqtt THEN 0 ELSE @]

\* The clocks at the head of poll.  MQTT down is counted while associated (see Elapse);
\* a count starts at the first such poll, or again after a long time off WiFi.
Clocks(p, in) ==
    [p EXCEPT
        !.resumed = IF @ = ResumeWindow THEN Off ELSE @,
        !.down = IF in.mqtt THEN Off
                 ELSE IF in.associated /\ (@ = Off \/ p.gap = ResetGap) THEN 0
                 ELSE @,
        !.gap = IF in.associated \/ in.mqtt THEN 0 ELSE @]

\* On an access point: its channel is the channel.  A display without MQTT and without
\* its peer leaves, to look for the peer.
OnWifi(p, in) ==
    LET q == [ResetSearch(p) EXCEPT !.cur = in.channel,
                                    !.good = IF in.linked THEN in.channel ELSE @]
        leaves == /\ in.role = "display"
                  /\ q.down = SuspendAfter
                  /\ ~in.linked
                  /\ q.resumed = Off
    IN  IF p.suspended # Off THEN Did(p, "None")  \* not yet disconnected
        ELSE IF leaves THEN Did([q EXCEPT !.suspended = 0], "SuspendWifi")
        ELSE Did(q, "None")

Probe(p) == Did([p EXCEPT !.st = "Pending"], "Probe")

NeedSet(p) ==
    LET channel == Offered(p.good)[p.next]
    IN  IF channel # p.cur
        THEN Did([p EXCEPT !.st = "NeedProbe", !.cur = channel], "SetChannel")
        ELSE Probe(p)

\* Plausible mistake: one pass, and no other until the search is reset.
FaultyIdle(p, in) ==
    LET q == [p EXCEPT !.hold = IF @ = AckHold THEN Off ELSE @]
    IN  IF q.hold # Off THEN Did(q, "None")
        ELSE IF q.pass # Off
        THEN IF q.cur = Rendezvous THEN Did(q, "None")
             ELSE Did([q EXCEPT !.cur = Rendezvous], "SetChannel")
        ELSE NeedSet([q EXCEPT !.st = "NeedSet", !.next = First(Candidates[p.good]), !.pass = 0])

\* Between two passes: wait where a probe was answered, else at the rendezvous.
Idle(p, in) ==
    LET q == [p EXCEPT !.hold = IF @ = AckHold THEN Off ELSE @]
    IN  IF q.hold # Off THEN Did(q, "None")
        ELSE IF q.pass \notin {Off, SearchInterval[in.role]}
        THEN IF q.cur = Rendezvous THEN Did(q, "None")
             ELSE Did([q EXCEPT !.cur = Rendezvous], "SetChannel")
        ELSE NeedSet([q EXCEPT !.st = "NeedSet", !.next = First(Candidates[p.good]), !.pass = 0])

\* Plausible mistake: the channel of the answer is not remembered.
FaultyAnswered(p) == Did([p EXCEPT !.st = "Idle", !.hold = 0], "None")

\* An answered probe ends the pass; a failed one moves on to the next candidate.
Answered(p) == Did([p EXCEPT !.st = "Idle", !.good = p.cur, !.hold = 0], "None")

NotAnswered(p) ==
    LET later == {i \in Candidates[p.good] : i > p.next}
    IN  IF later # {} THEN Did([p EXCEPT !.st = "NeedSet", !.next = First(later)], "None")
        ELSE Did([p EXCEPT !.st = "Idle"], "None")

Search(p, in) ==
    CASE p.st = "Idle"      -> Idle(p, in)
      [] p.st = "NeedSet"   -> NeedSet(p)
      [] p.st = "NeedProbe" -> Probe(p)
      [] p.st = "Pending"   -> IF in.timed_out THEN NotAnswered(p) ELSE Did(p, "None")
      [] p.st = "Acked"     -> Answered(p)
      [] p.st = "Failed"    -> NotAnswered(p)

\* Plausible mistake: a linked display stays off WiFi.
FaultyPoll(p0, in) ==
    LET p == Clocks(p0, in)
    IN  IF in.associated THEN OnWifi(p, in)
        ELSE IF in.linked THEN Did([ResetSearch(p) EXCEPT !.good = p.cur], "None")
        ELSE IF p.suspended = ResumeInterval
        THEN Did([ResetSearch(p) EXCEPT !.suspended = Off, !.resumed = 0], "ResumeWifi")
        ELSE Search(p, in)

\* EspNowChannelPolicy::poll: the policy afterwards and what the caller must do.
Poll(p0, in) ==
    LET p == Clocks(p0, in)
    IN  IF p.suspended = ResumeInterval
        THEN Did([ResetSearch(p) EXCEPT !.suspended = Off, !.resumed = 0], "ResumeWifi")
        ELSE IF in.associated THEN OnWifi(p, in)
        ELSE IF in.linked THEN Did([ResetSearch(p) EXCEPT !.good = p.cur], "None")
        ELSE Search(p, in)

\* EspNowChannelPolicy::on_probe_result.  The channel it names is that of the
\* outstanding probe: both copies are taken from the same Probe action.
OnProbeResult(p, acked) ==
    IF p.st # "Pending" THEN p
    ELSE [p EXCEPT !.st = IF acked THEN "Acked" ELSE "Failed"]

-----------------------------------------------------------------------------
Aged(age, limit) == IF age \in {Off, limit} THEN age ELSE age + 1

\* A unit of time goes by.  Polls come many to the unit and each adds the time since the
\* one before, at most a second, so a count of MQTT down grows by the unit spent polling
\* while associated, and by nothing worth counting across a gap.  The time since the last
\* associated poll (gap) is read only while a count runs.
Elapse(p, role, associated) ==
    [p EXCEPT
        !.hold = Aged(@, AckHold),
        !.pass = Aged(@, SearchInterval[role]),
        !.down = IF associated THEN Aged(@, SuspendAfter) ELSE @,
        !.gap = IF p.down = Off THEN @ ELSE Aged(@, ResetGap),
        !.suspended = Aged(@, ResumeInterval),
        !.resumed = Aged(@, ResumeWindow)]
=============================================================================
