-------------------------- MODULE DisplayTelemetry --------------------------
(***************************************************************************)
(* What a display without WiFi knows of the controller: the controller's   *)
(* telemetry (src/controller/controller_app.cpp, publish and               *)
(* republish_telemetry) comes over ESP-NOW with a sequence number; the     *)
(* display (src/thermostat/thermostat_app.cpp) drops what it has had,      *)
(* shows the state, adopts the settings unless its user has just touched   *)
(* it, and owes an acknowledgement.  Frames are handled on the WiFi task   *)
(* while the loop task changes the same settings.                          *)
(*                                                                         *)
(* A payload (state, settings, lockout...) is one value.  A time stamp is  *)
(* its age, up to the limit it is compared with.  The unit of time is the  *)
(* heartbeat interval; passes of a loop are short against it, so Tick      *)
(* waits until both tasks rest.                                            *)
(***************************************************************************)
EXTENDS Integers, Sequences, Functions

CONSTANTS
    Payloads,      \* what telemetry may say
    Default,       \* the settings of a display that has just started
    SeqSize,       \* telemetry_seq_ is counted modulo this (2^16 in the code)
    StartSeqs,     \* where the count of a controller long at work may stand
    Debounce,      \* local_interaction_debounce_ms
    ResyncGap,     \* controller_reconnect_resync_ms
    SlowRestarts,  \* does a display that heard the controller notice each of its restarts
    MaxChanges,    \* bound: choices of the user and changes that are not his
    MaxFaults      \* bound: restarts, lost frames, silences
MaxAir == 2        \* bound: frames in the air
Nothing == "nothing"

ASSUME TelemetryAssumption ==
    /\ Default \in Payloads /\ Nothing \notin Payloads
    /\ SeqSize \in Nat /\ SeqSize > 1 /\ SeqSize % 2 = 0
    /\ StartSeqs \subseteq 1..(SeqSize - 1)
    /\ Debounce \in Nat \ {0} /\ ResyncGap \in Nat \ {0}
    /\ SlowRestarts \in BOOLEAN
    /\ {MaxChanges, MaxFaults} \subseteq Nat

VARIABLES
    ctl,      \* controller: up, what it says, telemetry_seq_, last_acked_seq_
    air,      \* frames on their way to the display, in order
    sent,     \* what the controller has repeated in this unit of time
    word,     \* the user's choice on its way to the controller, if any
    dis,      \* display: has and last (controller seq), shown, local (settings)
    since,    \* age of last_local_interaction_ms_
    silence,  \* age of last_controller_heartbeat_ms_, Never if it is 0
    wifi,     \* WiFi task: the telemetry it is applying, if any, and if it is debounced
    loop,     \* loop task: where it is, and the acknowledgement it took
    owed,     \* pending_ack_, NoSeq for none
    changes, faults  \* history: how many so far

controller == <<ctl, word, sent>>
tasks == <<wifi, loop>>
stamps == <<since, silence>>
vars == <<ctl, sent, word, air, dis, since, silence, wifi, loop, owed, changes, faults>>

Never == -1
NoSeq == 0
Idle == [says |-> Nothing, within |-> FALSE]
At(place) == [at |-> place, ack |-> NoSeq]
Heartbeat == [seq |-> NoSeq, says |-> Nothing]
Seqs == 1..(SeqSize - 1)
Telemetry == [seq : Seqs, says : Payloads]

TelemetryTypeOK ==
    /\ ctl \in [up : BOOLEAN, says : Payloads, seq : Seqs, acked : Seqs \union {NoSeq}]
    /\ air \in Seq(Telemetry \union {Heartbeat}) /\ Len(air) <= MaxAir
    /\ word \in Payloads \union {Nothing} /\ sent \subseteq {"beat", "again"}
    /\ dis \in [has : BOOLEAN, last : Seqs \union {NoSeq},
                shown : Payloads \union {Nothing}, local : Payloads]
    /\ dis.has => dis.last # NoSeq /\ dis.shown # Nothing
    /\ since \in 0..Debounce /\ silence \in Never..ResyncGap
    /\ wifi \in [says : Payloads, within : BOOLEAN] \union {Idle}
    /\ loop \in {At(place) : place \in {"rest", "mark", "send"}}
                \union [at : {"ack"}, ack : Seqs]
    /\ owed \in Seqs \union {NoSeq}
    /\ changes \in 0..MaxChanges /\ faults \in 0..MaxFaults

\* A display that starts: the sync it asks for counts as a touch.
NewDisplay == [has |-> FALSE, last |-> NoSeq, shown |-> Nothing, local |-> Default]

\* The controller has long been at work.
Init ==
    /\ ctl \in [up : {TRUE}, says : Payloads, seq : StartSeqs, acked : {NoSeq}]
    /\ air = <<>> /\ word = Nothing /\ sent = {}
    /\ dis = NewDisplay
    /\ since = 0 /\ silence = Never
    /\ wifi = Idle /\ loop = At("rest") /\ owed = NoSeq
    /\ changes = 0 /\ faults = 0

Fault(happens) ==
    /\ happens => faults < MaxFaults
    /\ faults' = IF happens THEN faults + 1 ELSE faults

-----------------------------------------------------------------------------
\* The controller.

\* A frame to the display, which may be lost.  Frames that repeat each other are many
\* passes apart.
Sent(frame) ==
    /\ Len(air) < MaxAir /\ frame \notin Range(air)
    /\ \E lost \in BOOLEAN :
         /\ air' = IF lost THEN air ELSE Append(air, frame)
         /\ Fault(lost)

\* Plausible mistake: 0 is sent like any other number.
FaultyNextSeq(seq) == (seq + 1) % SeqSize
NextSeq(seq) == IF (seq + 1) % SeqSize = NoSeq THEN 1 ELSE (seq + 1) % SeqSize

\* ControllerApp::publish: a changed payload takes the next number and is sent at once.
Publish(payload) ==
    LET seq == NextSeq(ctl.seq)
    IN  /\ ctl.up /\ payload # ctl.says
        /\ ctl' = [ctl EXCEPT !.says = payload, !.seq = seq]
        /\ Sent([seq |-> seq, says |-> payload])

\* The equipment changes state, or Home Assistant a setting.
Change ==
    /\ changes < MaxChanges /\ changes' = changes + 1
    /\ \E payload \in Payloads : Publish(payload)
    /\ UNCHANGED <<sent, word, dis, stamps, tasks, owed>>

\* The user's word arrives; one that changes nothing is accepted and brings no telemetry.
ApplyWord ==
    /\ word # Nothing /\ ctl.up
    /\ word' = Nothing
    /\ IF word = ctl.says THEN UNCHANGED <<ctl, air, faults>> ELSE Publish(word)
    /\ UNCHANGED <<sent, dis, stamps, tasks, owed, changes>>

LoseWord ==
    /\ word # Nothing /\ word' = Nothing
    /\ Fault(TRUE)
    /\ UNCHANGED <<ctl, sent, air, dis, stamps, tasks, owed, changes>>

\* The heartbeat, every 10 seconds, and ControllerApp::republish_telemetry, every 15:
\* neither comes twice in a unit of time.
Repeat(what, frame) ==
    /\ ctl.up /\ what \notin sent
    /\ sent' = sent \union {what}
    /\ Sent(frame)
    /\ UNCHANGED <<ctl, word, dis, stamps, tasks, owed, changes>>

Republish == Repeat("again", [seq |-> ctl.seq, says |-> ctl.says])
Beat == Repeat("beat", Heartbeat)

Crash ==
    /\ SlowRestarts => silence # Never
    /\ ctl.up /\ ctl' = [ctl EXCEPT !.up = FALSE]
    /\ word' = Nothing
    /\ Fault(TRUE)
    /\ UNCHANGED <<sent, air, dis, stamps, tasks, owed, changes>>

\* The count starts over, and the first tick publishes: what has not been published is a
\* change.  The equipment starts from Idle and settings from what was saved.
Boot ==
    /\ ~ctl.up
    /\ SlowRestarts => (silence = ResyncGap \/ ~dis.has) /\ air = <<>>
    /\ \E payload \in Payloads :
         /\ ctl' = [up |-> TRUE, says |-> payload, seq |-> NextSeq(0), acked |-> NoSeq]
         /\ Sent([seq |-> NextSeq(0), says |-> payload])
    /\ UNCHANGED <<sent, word, dis, stamps, tasks, owed, changes>>

-----------------------------------------------------------------------------
\* The WiFi task of the display.

IsNewer(previous, incoming) == (incoming - previous) % SeqSize \in 1..((SeqSize \div 2) - 1)

Heard(frame) == wifi = Idle /\ air # <<>> /\ Head(air) = frame /\ air' = Tail(air)

\* Plausible mistake: the sequence is kept over a silence.
FaultyResync(d) == d

\* on_controller_heartbeat: after a long silence the next telemetry is taken as it comes.
Resync(d) == IF silence = ResyncGap THEN [d EXCEPT !.has = FALSE] ELSE d

OnHeartbeat ==
    /\ Heard(Heartbeat)
    /\ dis' = Resync(dis)
    /\ silence' = 0
    /\ UNCHANGED <<controller, since, tasks, owed, changes, faults>>

\* Plausible mistake: what the display has had is not acknowledged again.
FaultyOnOldTelemetry(f) == owed' = owed
OnOldTelemetry(f) == owed' = dis.last

\* on_controller_telemetry up to the moment the debounce has been looked at.
OnTelemetry ==
    \E f \in Telemetry :
      /\ Heard(f)
      /\ IF dis.has /\ ~IsNewer(dis.last, f.seq)
         THEN OnOldTelemetry(f) /\ UNCHANGED <<dis, wifi>>
         ELSE /\ dis' = [dis EXCEPT !.has = TRUE, !.last = f.seq, !.shown = f.says]
              /\ wifi' = [says |-> f.says, within |-> since < Debounce]
              /\ UNCHANGED owed
      /\ UNCHANGED <<controller, stamps, loop, changes, faults>>

\* The rest of it.
AdoptSettings ==
    /\ wifi # Idle /\ wifi' = Idle
    /\ dis' = IF wifi.within THEN dis ELSE [dis EXCEPT !.local = wifi.says]
    /\ owed' = dis.last
    /\ UNCHANGED <<controller, air, stamps, loop, changes, faults>>

-----------------------------------------------------------------------------
\* The loop task of the display.

\* set_local_...: the setting, the stamp, then the word built from the setting.
Choose ==
    /\ loop = At("rest") /\ loop' = At("mark")
    /\ changes < MaxChanges /\ changes' = changes + 1
    /\ \E payload \in Payloads : dis' = [dis EXCEPT !.local = payload]
    /\ UNCHANGED <<controller, air, stamps, wifi, owed, faults>>

MarkInteraction ==
    /\ loop = At("mark") /\ loop' = At("send")
    /\ since' = 0
    /\ UNCHANGED <<controller, air, dis, silence, wifi, owed, changes, faults>>

SendWord ==
    /\ loop = At("send") /\ loop' = At("rest")
    /\ word' = dis.local
    /\ UNCHANGED <<ctl, sent, air, dis, stamps, wifi, owed, changes, faults>>

\* send_pending_ack: the exchange, the send, and the CAS of one held back.
TakeAck ==
    /\ loop = At("rest") /\ owed # NoSeq
    /\ loop' = [at |-> "ack", ack |-> owed] /\ owed' = NoSeq
    /\ UNCHANGED <<controller, air, dis, stamps, wifi, changes, faults>>

\* on_thermostat_ack
Acknowledged(c, seq) ==
    IF c.up /\ (seq = c.seq \/ IsNewer(c.acked, seq)) THEN [c EXCEPT !.acked = seq] ELSE c

SendAck ==
    /\ loop.at = "ack" /\ loop' = At("rest")
    /\ \E lost \in BOOLEAN :
         /\ Fault(lost)
         /\ ctl' = IF lost THEN ctl ELSE Acknowledged(ctl, loop.ack)
    /\ UNCHANGED <<sent, word, air, dis, stamps, wifi, owed, changes>>

HoldAck ==
    /\ loop.at = "ack" /\ loop' = At("rest")
    /\ owed' = IF owed = NoSeq THEN loop.ack ELSE owed
    /\ UNCHANGED <<controller, air, dis, stamps, wifi, changes, faults>>

Restart ==
    /\ dis' = NewDisplay /\ air' = <<>>
    /\ since' = 0 /\ silence' = Never
    /\ wifi' = Idle /\ loop' = At("rest") /\ owed' = NoSeq
    /\ Fault(TRUE)
    /\ UNCHANGED <<controller, changes>>

-----------------------------------------------------------------------------
\* A unit of time, in which a controller that is up has sent its heartbeat.
Tick ==
    /\ wifi = Idle /\ loop = At("rest") /\ air = <<>>
    /\ ctl.up => "beat" \in sent
    /\ sent' = {}
    /\ since' = IF since = Debounce THEN since ELSE since + 1
    /\ silence' = IF silence \in {Never, ResyncGap} THEN silence ELSE silence + 1
    /\ UNCHANGED <<ctl, word, air, dis, tasks, owed, changes, faults>>

WifiTask == OnHeartbeat \/ OnTelemetry \/ AdoptSettings
LoopTask == MarkInteraction \/ SendWord \/ TakeAck \/ SendAck \/ HoldAck

Next ==
    \/ Change \/ ApplyWord \/ LoseWord \/ Republish \/ Beat \/ Crash \/ Boot
    \/ WifiTask \/ LoopTask \/ Choose \/ Restart \/ Tick

\* Both tasks run, the controller comes back and goes on sending, time passes; a throttle
\* lasts a few milliseconds, so an acknowledgement does not meet it for ever.
Fairness ==
    /\ WF_vars(WifiTask) /\ WF_vars(LoopTask) /\ SF_vars(SendAck)
    /\ WF_vars(ApplyWord) /\ WF_vars(Boot) /\ WF_vars(Tick)
    /\ WF_vars(Republish) /\ WF_vars(Beat)

Spec == Init /\ [][Next]_vars /\ Fairness

-----------------------------------------------------------------------------
\* However frames are lost and both devices restart, in the end the display shows the
\* state of the controller that is there, and not one from before its restart.
StateShown == <>[](ctl.up /\ dis.shown = ctl.says)

\* The controller in the end has its latest telemetry acknowledged: an acknowledgement
\* lost, or throttled while a newer one falls due, is made up for.
AckCatchesUp == <>[](ctl.acked = ctl.seq)

\* "so a display that joined or rebooted after the last state change still learns the
\* current state" (esp32_controller_main.cpp): its settings follow too.
SettingsLearned == <>[](dis.local = ctl.says)
=============================================================================
