--------------------------- MODULE ChannelSearch ---------------------------
(***************************************************************************)
(* A controller and a display, each with a radio, an EspNowLinkManager     *)
(* (src/include/transport/espnow_link_manager.h) that runs the policy of   *)
(* ChannelPolicy against it, and a WiFi manager that joins an access point *)
(* when there is one.  Two radios hear each other only on one channel.     *)
(*                                                                         *)
(* Time: loop passes last some 10 ms and a unit of time is as long as the  *)
(* heartbeat interval, so Tick waits until neither link manager has        *)
(* anything left to do, and then each device sends its heartbeat.  A       *)
(* heartbeat sent during a pass travels like the probe next to it.         *)
(***************************************************************************)
EXTENDS ChannelPolicy, Functions

CONSTANTS
    AccessPoints,  \* for each device, the channels of the access points in its reach
    MaxFaults      \* bound: changes of access point or broker, failed joins, lost
                   \* frames, channels not set, restarts

ASSUME FaultAssumption ==
    MaxFaults \in Nat /\ AccessPoints \in [Roles -> SUBSET Channels]

VARIABLES
    pol,     \* policy_ of each device
    probe,   \* the transport's probe: None, Failed, or the channel it was answered on
    radio,   \* the channel each radio is really on, NoChannel during a scan
    wifi,    \* the station: off, joining (scanning) or on (associated)
    ap,      \* the channel of the access point a device could join, if any
    heard,   \* age of last_peer_rx_ms
    broker,  \* is the MQTT broker reachable
    mqtt,    \* is the display connected to it
    faults,  \* history: faults so far
    mute,    \* history: units the display has been on WiFi since a poll last saw MQTT
    back     \* history: units since the display resumed WiFi

vars == <<pol, probe, radio, wifi, ap, heard, broker, mqtt, faults, mute, back>>
world == <<ap, broker>>
history == <<mute, back>>

Peer(d) == IF d = "display" THEN "controller" ELSE "display"
None == -1
Failed == -2
Linked(d) == heard[d] < LinkTimeout

ChannelTypeOK ==
    /\ \A d \in Roles : /\ pol[d] \in PolicyType(d)
                        /\ pol[d].hold # Off => pol[d].st = "Idle" /\ pol[d].good = pol[d].cur
                        /\ pol[d].st # "Idle" => pol[d].next \in Candidates[pol[d].good]
                        /\ ap[d] \in AccessPoints[d] \union {NoChannel}
                        /\ wifi[d] = "joining" <=> radio[d] = NoChannel
                        /\ probe[d] # None => wifi[d] # "joining"
    /\ DOMAIN pol = Roles /\ {radio, ap} \subseteq [Roles -> Channels \union {NoChannel}]
    /\ probe \in [Roles -> {None, Failed} \union Channels]
    /\ wifi \in [Roles -> {"off", "joining", "on"}]
    /\ heard \in [Roles -> 0..LinkTimeout]
    /\ broker \in BOOLEAN /\ mqtt \in BOOLEAN
    /\ mqtt => broker /\ wifi["display"] = "on"
    /\ faults \in 0..MaxFaults
    /\ mute \in 0..SuspendAfter /\ back \in 0..ResumeWindow

Init ==
    /\ pol = [d \in Roles |-> NewPolicy]
    /\ probe = [d \in Roles |-> None]
    /\ radio = [d \in Roles |-> Rendezvous]
    /\ wifi = [d \in Roles |-> "off"]
    /\ ap \in {f \in [Roles -> Channels \union {NoChannel}] :
                \A d \in Roles : f[d] \in AccessPoints[d] \union {NoChannel}}
    /\ heard = [d \in Roles |-> LinkTimeout]
    /\ broker \in BOOLEAN /\ mqtt = FALSE
    /\ faults = 0
    /\ mute = 0 /\ back = ResumeWindow

-----------------------------------------------------------------------------
Fault(happens) ==
    /\ happens => faults < MaxFaults
    /\ faults' = IF happens THEN faults + 1 ELSE faults

InRange == radio["controller"] = radio["display"] /\ radio["display"] # NoChannel

Inputs(d) ==
    [role |-> d, associated |-> wifi[d] = "on", channel |-> radio[d],
     mqtt |-> d = "controller" \/ mqtt, linked |-> Linked(d), timed_out |-> probe[d] = None]

\* The policy once a finished probe has been reported to it.
Reported(d) ==
    IF probe[d] = None THEN pol[d] ELSE OnProbeResult(pol[d], probe[d] # Failed)

\* A probe leaves only from the channel it is to test.  On a common channel the peer gets
\* it and acknowledges it, unless the frame or only the acknowledgement is lost.
FaultyOnChannel(d, p) == radio[d] # NoChannel  \* Plausible mistake: sent wherever the radio is.
OnChannel(d, p) == radio[d] = p.cur

TryProbe(d, p) ==
    IF OnChannel(d, p)
    THEN /\ pol' = [pol EXCEPT ![d] = p]
         /\ \E got, acked \in BOOLEAN :
              /\ acked => got
              /\ got => InRange
              /\ Fault(InRange /\ ~acked)
              /\ heard' = IF got THEN [heard EXCEPT ![Peer(d)] = 0] ELSE heard
              /\ probe' = [probe EXCEPT ![d] = IF acked THEN radio[d] ELSE Failed]
    ELSE /\ probe' = [probe EXCEPT ![d] = None]
         /\ pol' = [pol EXCEPT ![d] = OnProbeResult(p, FALSE)]
         /\ UNCHANGED <<heard, faults>>

\* One tick of the link manager.  The radio is set when the policy asks for it, which may
\* fail, and put right once a second while WiFi is not associated.
LinkTick(d) ==
    /\ wifi[d] # "joining"
    /\ LET to == Poll(Reported(d), Inputs(d))
           sets == to.do = "SetChannel"
       IN  /\ \E moves \in BOOLEAN :
                /\ radio' = IF moves /\ wifi[d] = "off" THEN [radio EXCEPT ![d] = to.p.cur]
                            ELSE radio
                /\ IF to.do = "Probe"
                   THEN TryProbe(d, to.p)
                   ELSE /\ pol' = [pol EXCEPT ![d] = to.p]
                        /\ probe' = [probe EXCEPT ![d] = None]
                        /\ Fault(sets /\ ~moves)
                        /\ UNCHANGED heard
           /\ back' = IF to.do = "ResumeWifi" THEN 0 ELSE back
    /\ mute' = IF d = "display" /\ mqtt THEN 0 ELSE mute
    /\ UNCHANGED <<wifi, world, mqtt>>

-----------------------------------------------------------------------------
\* A join scans, and a failed one leaves the radio on any channel; the link manager drops
\* its probe and stands aside.  A join fails where there is no access point.
StartJoin(d) ==
    /\ wifi[d] = "off" /\ pol[d].suspended = Off
    /\ wifi' = [wifi EXCEPT ![d] = "joining"]
    /\ probe' = [probe EXCEPT ![d] = None]
    /\ radio' = [radio EXCEPT ![d] = NoChannel]
    /\ Fault(ap[d] = NoChannel)
    /\ UNCHANGED <<pol, world, heard, mqtt, history>>

EndJoin(d) ==
    /\ wifi[d] = "joining"
    /\ IF ap[d] # NoChannel
       THEN /\ wifi' = [wifi EXCEPT ![d] = "on"]
            /\ radio' = [radio EXCEPT ![d] = ap[d]]
       ELSE /\ wifi' = [wifi EXCEPT ![d] = "off"]
            /\ \E c \in {Rendezvous} \union Range(SearchChannels) : radio' = [radio EXCEPT ![d] = c]
    /\ UNCHANGED <<pol, probe, world, heard, mqtt, faults, history>>

LeavesWifi(d) ==
    /\ wifi' = [wifi EXCEPT ![d] = "off"]
    /\ mqtt' = (mqtt /\ d # "display")

\* WifiProvisioningManager::set_suspended, in the pass of the loop that suspended.
Leave ==
    /\ pol["display"].suspended # Off /\ wifi["display"] = "on"
    /\ LeavesWifi("display")
    /\ UNCHANGED <<pol, probe, radio, world, heard, faults, history>>

\* The access point of a device changes channel, goes, or comes back.
ApChange(d, c) ==
    /\ c # ap[d]
    /\ ap' = [ap EXCEPT ![d] = c]
    /\ IF wifi[d] # "on" THEN UNCHANGED <<wifi, mqtt, radio>>
       ELSE IF c = NoChannel THEN LeavesWifi(d) /\ UNCHANGED radio
       ELSE radio' = [radio EXCEPT ![d] = c] /\ UNCHANGED <<wifi, mqtt>>
    /\ Fault(TRUE)
    /\ UNCHANGED <<pol, probe, heard, broker, history>>

BrokerChange ==
    /\ broker' = ~broker
    /\ mqtt' = (mqtt /\ ~broker)
    /\ Fault(TRUE)
    /\ UNCHANGED <<pol, probe, radio, wifi, ap, heard, history>>

MqttConnects ==
    /\ broker /\ wifi["display"] = "on" /\ ~mqtt
    /\ mqtt' = TRUE
    /\ UNCHANGED <<pol, probe, radio, wifi, world, heard, faults, history>>

\* A restart: EspNowLinkManager::begin, and the transport sets its channel.
Restart(d) ==
    /\ Fault(TRUE)
    /\ pol' = [pol EXCEPT ![d] = NewPolicy]
    /\ probe' = [probe EXCEPT ![d] = None]
    /\ radio' = [radio EXCEPT ![d] = Rendezvous]
    /\ heard' = [heard EXCEPT ![d] = LinkTimeout]
    /\ LeavesWifi(d)
    /\ mute' = IF d = "display" THEN 0 ELSE mute
    /\ back' = IF d = "display" THEN ResumeWindow ELSE back
    /\ UNCHANGED world

-----------------------------------------------------------------------------
\* Nothing is left to do for the link manager of d in this unit.
Quiet(d) ==
    /\ wifi[d] # "joining"
    /\ Poll(Reported(d), Inputs(d)) = Did(pol[d], "None")
    /\ wifi[d] = "off" => radio[d] = pol[d].cur
    /\ wifi[d] = "on" => pol[d].suspended = Off

Tick ==
    /\ \A d \in Roles : Quiet(d)
    /\ pol' = [d \in Roles |-> Elapse(pol[d], d, wifi[d] = "on")]
    /\ \E lost \in SUBSET Roles :  \* whose heartbeat is lost
         /\ lost # {} => InRange
         /\ Fault(lost # {})
         /\ heard' = [d \in Roles |-> IF InRange /\ Peer(d) \notin lost THEN 0
                                      ELSE Aged(heard[d], LinkTimeout)]
    /\ mute' = IF mqtt THEN 0 ELSE IF wifi["display"] = "on" THEN Aged(mute, SuspendAfter)
               ELSE mute
    /\ back' = Aged(back, ResumeWindow)
    /\ UNCHANGED <<probe, radio, wifi, world, mqtt>>

Next ==
    \/ \E d \in Roles : \/ LinkTick(d) \/ StartJoin(d) \/ EndJoin(d) \/ Restart(d)
                        \/ \E c \in AccessPoints[d] \union {NoChannel} : ApChange(d, c)
    \/ Leave \/ BrokerChange \/ MqttConnects \/ Tick

\* The loops of both devices run, time passes, and while there is an access point a WiFi
\* manager retries.  Between two units there is only so much to do, so Work need not be
\* taken apart.
Work == Tick \/ Leave \/ \E d \in Roles : LinkTick(d) \/ EndJoin(d)

Fairness ==
    /\ WF_vars(Work)
    /\ \A d \in Roles : WF_vars(StartJoin(d) /\ ap[d] # NoChannel)

Spec == Init /\ [][Next]_vars /\ Fairness

-----------------------------------------------------------------------------
\* A device settles on a channel only when its probe was answered on that very channel
\* (on_probe_result, and the link manager's check of the radio before it probes).
HoldStarts(d) == pol[d].hold = Off /\ pol'[d].hold # Off
HoldsWhereAnswered ==
    [][\A d \in Roles : HoldStarts(d) => probe[d] = pol'[d].cur]_vars

\* The display gives up a WiFi connection only after a full SuspendAfter on WiFi without
\* seeing MQTT, never while it hears its peer, and never before WiFi has had its window
\* after the last suspension.  Measured by ages of its own, not by the policy's clocks.
Suspends == pol["display"].suspended = Off /\ pol'["display"].suspended # Off
SuspendEarned ==
    [][Suspends => /\ mute = SuspendAfter /\ back = ResumeWindow /\ ~Linked("display")]_vars

\* However WiFi and the broker come and go, the two keep finding each other unless the
\* display has MQTT; and when in the end neither leaves or joins WiFi any more, they stay
\* together (the chase of two searching radios ends).
Together == \A d \in Roles : Linked(d)
MeetAgain ==
    /\ []<>(Together \/ mqtt)
    /\ <>[][FALSE]_wifi => <>[](Together \/ mqtt)

\* A display that left WiFi keeps trying it again, also when ESP-NOW serves it well.
WifiRetried == <>[](ap["display"] # NoChannel) => []<>(wifi["display"] = "on")
=============================================================================
