---------------------------- MODULE SendTracker ----------------------------
(***************************************************************************)
(* EspNowProbeTracker (src/include/transport/espnow_probe_tracker.h) and   *)
(* the transports that drive it.  ESP-NOW reports each accepted frame with *)
(* one callback, in order and without saying which frame; the tracker      *)
(* counts both and so finds the outcome of a channel probe and of one      *)
(* tracked frame (a command word).  Sends run on the loop task, callbacks  *)
(* on the WiFi task, with atomics and no lock between them: each task      *)
(* takes a step per atomic access that the other can tell apart.           *)
(*                                                                         *)
(* A callback comes within milliseconds or never: Tick waits until every   *)
(* one that will come has come.                                            *)
(***************************************************************************)
EXTENDS Integers, Sequences

CONSTANTS
    SeqSize,    \* send numbers are counted modulo this (2^32 in the code)
    TrackSize,  \* and modulo this in the tracked word (2^30)
    Peers,      \* frames of a probe: one for each unicast peer
    LostAfter,  \* kLostCallbackMs
    FirstSend,  \* sends already made: the counts wrap, and outlive ESP-NOW restarts
    MaxSends,   \* bound: sends begun (a probe is one)
    MaxLost     \* bound: callbacks that never come

\* Few frames are outstanding against the ranges of the numbers.
ASSUME TrackerAssumption ==
    /\ SeqSize \in Nat \ {0} /\ TrackSize \in Nat \ {0}
    /\ SeqSize % 2 = 0 /\ SeqSize % TrackSize = 0
    /\ {Peers, LostAfter, MaxSends} \subseteq Nat \ {0} /\ MaxLost \in Nat
    /\ FirstSend \in 0..(SeqSize - 1)
    /\ SeqSize > 2 * Peers * MaxSends /\ TrackSize > Peers * MaxSends

VARIABLES
    issued, completed,  \* sends_issued_, sends_completed_
    probe,      \* probe_pending_, probe_first_seq_, probe_last_seq_, probe_ack_seq_
    tracked,    \* tracked_: number and state, one word
    lag,        \* age of lag_since_ms_, Off while not lagging_
    main,       \* loop task: where it is in a send, of what, frames to go, one accepted
    cb,         \* WiFi task: where it is in on_send_complete, of which send, ok or not
    radio,      \* what the frames handed to ESP-NOW are, oldest first
    begun,      \* sends begun
    acked,      \* history: a frame of the present probe was acknowledged
    fate,       \* history: what became of the present tracked frame
    doubt,      \* history: the counts disagreed since the probe, the tracked frame, began;
                \* a resync took a frame for called back whose callback was still to come
    lost        \* history: callbacks lost

sending == <<main, begun>>
history == <<acked, fate, doubt, lost>>
vars == <<issued, completed, probe, tracked, lag, main, cb, radio, begun,
          acked, fate, doubt, lost>>

Numbers == 0..(SeqSize - 1)
Off == -1
OpenSpan == (SeqSize \div 2) - 1
Kinds == {"plain", "tracked", "probe"}
Doubts == {"probe", "tracked", "resync"}
None == [n |-> 0, state |-> "None"]
AtRest == [at |-> "rest", kind |-> "plain", left |-> 0, got |-> FALSE]
NoCallback == [at |-> "rest", n |-> 0, ok |-> FALSE]
Plus(n, d) == (n + d) % SeqSize
Ahead(a, b) == (a - b) % SeqSize \in 1..OpenSpan  \* static_cast<int32_t>(a - b) > 0
Track(n, state) == [n |-> n % TrackSize, state |-> state]

TrackerTypeOK ==
    /\ issued \in Numbers /\ completed \in Numbers
    /\ probe \in [pending : BOOLEAN, first : Numbers, last : Numbers, ack : Numbers]
    /\ tracked \in [n : 0..(TrackSize - 1), state : {"Pending", "Delivered", "Failed"}]
                     \union {None}
    /\ lag \in Off..LostAfter
    /\ main \in [at : {"rest", "range", "arm", "hand", "count", "end"}, kind : Kinds,
                 left : 0..Peers, got : BOOLEAN]
    /\ cb \in [at : {"rest", "pending", "range", "ack", "track"}, n : Numbers, ok : BOOLEAN]
    /\ radio \in Seq(Kinds) /\ begun \in 0..MaxSends
    /\ acked \in BOOLEAN /\ fate \in {"Out", "Delivered", "Failed", "GivenUp"}
    /\ doubt \in [Doubts -> BOOLEAN] /\ lost \in 0..MaxLost
    /\ probe.pending => main.at # "range" /\ main.at # "arm"

Init ==
    /\ issued = FirstSend /\ completed = issued
    /\ probe = [pending |-> FALSE, first |-> 0, last |-> 0, ack |-> 0]
    /\ tracked = None /\ lag = Off
    /\ main = AtRest /\ cb = NoCallback
    /\ radio = <<>> /\ begun = 0
    /\ acked = FALSE /\ fate = "Out"
    /\ doubt = [k \in Doubts |-> FALSE] /\ lost = 0

\* The counts tell the truth: as many sends are open as callbacks are to come, and the
\* callback that has begun is of a frame sent.
Agree(i, c, frames, uncounted) ==
    /\ Plus(c, Len(frames)) = Plus(i, uncounted)
    /\ cb.at # "rest" => ~Ahead(cb.n, Plus(i, uncounted))
Aligned == Agree(issued, completed, radio, IF main.at = "count" THEN 1 ELSE 0)

-----------------------------------------------------------------------------
\* Loop task: sends.  A frame whose kind is taken over by a newer one is plain.
Superseded(kind) == [k \in 1..Len(radio) |-> IF radio[k] = kind THEN "plain" ELSE radio[k]]

Begin(kind, at, left) ==
    /\ main.at = "rest" /\ begun < MaxSends
    /\ begun' = begun + 1
    /\ main' = [at |-> at, kind |-> kind, left |-> left, got |-> FALSE]

SendPlain ==
    /\ Begin("plain", "hand", 1)
    /\ UNCHANGED <<issued, completed, probe, tracked, lag, cb, radio, history>>

\* publish_command_word: begin_tracked
SendTracked ==
    /\ Begin("tracked", "hand", 1)
    /\ tracked' = Track(Plus(issued, 1), "Pending")
    /\ radio' = Superseded("tracked")
    /\ fate' = "Out" /\ doubt' = [doubt EXCEPT !["tracked"] = ~Aligned]
    /\ UNCHANGED <<issued, completed, probe, lag, cb, acked, lost>>

\* send_probe: begin_probe closes the old probe and drops stray completions, sets the
\* new range, ...
SendProbe ==
    /\ Begin("probe", "range", Peers)
    /\ probe' = [probe EXCEPT !.pending = FALSE]
    /\ completed' = IF Ahead(completed, issued) THEN issued ELSE completed
    /\ radio' = Superseded("probe")
    /\ acked' = FALSE
    /\ LET agree == Agree(issued, completed', radio, 0)
       IN  doubt' = [doubt EXCEPT !["probe"] = ~agree, !["tracked"] = @ \/ ~agree]
    /\ UNCHANGED <<issued, tracked, lag, cb, fate, lost>>

SetRange ==
    /\ main.at = "range" /\ main' = [main EXCEPT !.at = "arm"]
    /\ probe' = [probe EXCEPT !.first = Plus(issued, 1), !.last = Plus(issued, 1 + OpenSpan)]
    /\ UNCHANGED <<issued, completed, tracked, lag, cb, radio, begun, history>>

\* ... puts the acknowledged number outside it, and opens the probe.
Arm ==
    /\ main.at = "arm" /\ main' = [main EXCEPT !.at = "hand"]
    /\ probe' = [probe EXCEPT !.ack = Plus(probe.first, -1), !.pending = TRUE]
    /\ UNCHANGED <<issued, completed, tracked, lag, cb, radio, begun, history>>

\* esp_now_send takes the frame or rejects it; its callback may come at once.
Hand ==
    /\ main.at = "hand"
    /\ \/ /\ radio' = Append(radio, main.kind)
          /\ main' = [main EXCEPT !.at = "count", !.left = @ - 1, !.got = TRUE]
       \/ /\ main' = [main EXCEPT !.at = IF main.left = 1 THEN "end" ELSE "hand",
                                  !.left = @ - 1]
          /\ UNCHANGED radio
    /\ UNCHANGED <<issued, completed, probe, tracked, lag, cb, begun, history>>

\* on_send_accepted
Count ==
    /\ main.at = "count"
    /\ issued' = Plus(issued, 1)
    /\ main' = [main EXCEPT !.at = IF main.left = 0 THEN "end" ELSE "hand"]
    /\ UNCHANGED <<completed, probe, tracked, lag, cb, radio, begun, history>>

\* end_probe: the range ends with the last frame; a probe without frames is none.
EndProbe ==
    /\ main.at = "end" /\ main.kind = "probe" /\ main' = AtRest
    /\ probe' = IF issued = Plus(probe.first, -1) THEN [probe EXCEPT !.pending = FALSE]
                ELSE [probe EXCEPT !.last = issued]
    /\ UNCHANGED <<issued, completed, tracked, lag, cb, radio, begun, history>>

\* end_tracked: a rejected frame has failed, one held back by the throttle is not tracked.
EndTracked ==
    /\ main.at = "end" /\ main.kind = "tracked" /\ main' = AtRest
    /\ IF tracked.state = "Pending" /\ tracked.n = Plus(issued, 1) % TrackSize
       THEN tracked' \in {[tracked EXCEPT !.state = "Failed"], None}
       ELSE UNCHANGED tracked
    /\ UNCHANGED <<issued, completed, probe, lag, cb, radio, begun, history>>

EndPlain ==
    /\ main.at = "end" /\ main.kind = "plain" /\ main' = AtRest
    /\ UNCHANGED <<issued, completed, probe, tracked, lag, cb, radio, begun, history>>

-----------------------------------------------------------------------------
\* Loop task: what is read and reset between sends.
InRange(n) == (n - probe.first) % SeqSize <= (probe.last - probe.first) % SeqSize

Status ==
    IF ~probe.pending THEN "None"
    ELSE IF Ahead(probe.last, completed) THEN "Pending"
    ELSE IF InRange(probe.ack) THEN "Acked" ELSE "Failed"

\* The link manager drops a probe that is finished or has had its time.
ClearProbe ==
    /\ main.at = "rest" /\ probe.pending
    /\ probe' = [probe EXCEPT !.pending = FALSE]
    /\ UNCHANGED <<issued, completed, tracked, lag, sending, cb, radio, history>>

\* Plausible mistake: the number is left in the word.
FaultyTaken == [tracked EXCEPT !.state = "None"]
Taken == None

\* take_tracked
TakeTracked ==
    /\ main.at = "rest" /\ tracked.state \in {"Delivered", "Failed"}
    /\ tracked' = Taken
    /\ UNCHANGED <<issued, completed, probe, lag, sending, cb, radio, history>>

\* Plausible mistake: a tracked frame still waiting is left waiting.
FaultyGivenUp == tracked
GivenUp == IF tracked.state = "Pending" THEN [tracked EXCEPT !.state = "Failed"] ELSE tracked

\* resync, with `frames' still to be called back
Resync(frames) ==
    /\ probe' = [probe EXCEPT !.pending = FALSE]
    /\ completed' = issued
    /\ lag' = Off
    /\ tracked' = GivenUp
    /\ fate' = IF tracked.state = "Pending" THEN "GivenUp" ELSE fate
    /\ doubt' = [k \in Doubts |-> doubt[k] \/ ~Agree(issued, issued, frames, 0)]

Behind == Ahead(issued, completed)

\* check_lost_callbacks, at the head of each pass of the link manager.
CheckLost ==
    /\ main.at = "rest"
    /\ IF ~Behind \/ probe.pending
       THEN lag' = Off /\ UNCHANGED <<completed, probe, tracked, fate, doubt>>
       ELSE IF lag < LostAfter
       THEN /\ lag' = IF lag = Off THEN 0 ELSE lag
            /\ UNCHANGED <<completed, probe, tracked, fate, doubt>>
       ELSE Resync(radio)
    /\ UNCHANGED <<issued, sending, cb, radio, acked, lost>>

\* restart: the frames not yet called back are dropped with ESP-NOW.
RestartEspNow ==
    /\ main.at = "rest"
    /\ radio' = <<>>
    /\ Resync(<<>>)
    /\ UNCHANGED <<issued, sending, cb, acked, lost>>

-----------------------------------------------------------------------------
\* WiFi task: on_send_complete, an access at a time.
Callback ==
    /\ cb.at = "rest" /\ radio # <<>>
    /\ radio' = Tail(radio)
    /\ completed' = Plus(completed, 1)
    /\ \E ok \in BOOLEAN :
         /\ cb' = [at |-> IF ok THEN "pending" ELSE "track", n |-> completed', ok |-> ok]
         /\ acked' = (acked \/ (ok /\ Head(radio) = "probe"))
         /\ fate' = IF Head(radio) # "tracked" \/ fate = "GivenUp" THEN fate
                    ELSE IF ok THEN "Delivered" ELSE "Failed"
    /\ UNCHANGED <<issued, probe, tracked, lag, sending, doubt, lost>>

SeePending ==
    /\ cb.at = "pending"
    /\ cb' = [cb EXCEPT !.at = IF probe.pending THEN "range" ELSE "track"]
    /\ UNCHANGED <<issued, completed, probe, tracked, lag, sending, radio, history>>

SeeRange ==
    /\ cb.at = "range"
    /\ cb' = [cb EXCEPT !.at = IF InRange(cb.n) THEN "ack" ELSE "track"]
    /\ UNCHANGED <<issued, completed, probe, tracked, lag, sending, radio, history>>

StoreAck ==
    /\ cb.at = "ack" /\ cb' = [cb EXCEPT !.at = "track"]
    /\ probe' = [probe EXCEPT !.ack = cb.n]
    /\ UNCHANGED <<issued, completed, tracked, lag, sending, radio, history>>

\* Plausible mistake: whatever frame is waiting gets the outcome.
FaultySettles == tracked.state = "Pending"
Settles == tracked = Track(cb.n, "Pending")

Settle ==
    /\ cb.at = "track" /\ cb' = NoCallback
    /\ tracked' = IF Settles THEN Track(cb.n, IF cb.ok THEN "Delivered" ELSE "Failed")
                  ELSE tracked
    /\ UNCHANGED <<issued, completed, probe, lag, sending, radio, history>>

\* A callback that never comes.
LoseCallback ==
    /\ cb.at = "rest" /\ radio # <<>> /\ lost < MaxLost
    /\ radio' = Tail(radio)
    /\ lost' = lost + 1
    /\ doubt' = [doubt EXCEPT !["probe"] = TRUE, !["tracked"] = TRUE]
    /\ UNCHANGED <<issued, completed, probe, tracked, lag, sending, cb, acked, fate>>

-----------------------------------------------------------------------------
\* A unit of time is many passes: by its end the probe has been dealt with and the last
\* check has seen the counts as they are.
Tick ==
    /\ main.at = "rest" /\ cb.at = "rest" /\ radio = <<>> /\ ~probe.pending
    /\ IF Behind THEN lag \in 0..(LostAfter - 1) /\ lag' = lag + 1
                 ELSE lag = Off /\ lag' = Off
    /\ UNCHANGED <<issued, completed, probe, tracked, sending, cb, radio, history>>

Sends ==
    \/ SendPlain \/ SendTracked \/ SendProbe
Progress ==
    \/ SetRange \/ Arm \/ Hand \/ Count \/ EndProbe \/ EndTracked \/ EndPlain

WifiTask == Callback \/ SeePending \/ SeeRange \/ StoreAck \/ Settle

Next ==
    \/ Sends \/ Progress \/ ClearProbe \/ TakeTracked \/ CheckLost \/ RestartEspNow
    \/ WifiTask \/ LoseCallback \/ Tick

\* Both tasks run: a send is finished, every pass checks, probes are timed, time passes.
Fairness ==
    /\ WF_vars(Progress) /\ WF_vars(WifiTask)
    /\ WF_vars(CheckLost) /\ WF_vars(ClearProbe) /\ WF_vars(Tick)

Spec == Init /\ [][Next]_vars /\ Fairness

-----------------------------------------------------------------------------
\* An outcome is that of the frame it is reported for, whichever callbacks of earlier
\* frames come late (the comments of the tracker and of docs/espnow-transport.md), as long
\* as no callback has got lost since the frame was sent.  A probe may be seen as failed
\* while the callback of its last frame has counted but not yet stored the acknowledgement.
OutcomesTrue ==
    /\ ~doubt["probe"] /\ main.at = "rest" =>
         /\ Status = "Acked" => acked
         /\ Status = "Failed" /\ cb.at \in {"rest", "track"} => ~acked
    /\ ~doubt["tracked"] =>
         /\ tracked.state = "Delivered" => fate = "Delivered"
         /\ tracked.state = "Failed" => fate # "Delivered"

\* Nobody waits for ever: a tracked frame gets an outcome, also when its callback is lost
\* (check_lost_callbacks), unless a resync came between a frame and its callback.
PendingEnds == []<>(tracked.state # "Pending" \/ doubt["resync"])
=============================================================================
