---------------------------- MODULE RebootGovernor ----------------------------
(***************************************************************************)
(* What a device does about a network that is gone: recoveries in place,   *)
(* and reboots spaced further and further apart, their number kept in      *)
(* flash.  A pass of loop() polls the governor with what it sees, saves    *)
(* the count when it changed and restarts when told to; power may be lost  *)
(* between any two of these.                                               *)
(***************************************************************************)
EXTENDS Integers

CONSTANTS
  Wrap,                 (* size of the millisecond clock: 2^32 in the code *)
  RecoverAfter, RecoverRepeat, MqttDownRecover, HealthyReset,
  FirstReboot, SecondReboot, ThirdReboot, LaterReboot,
  CanSuspend,           (* a display may suspend its WiFi, a controller may not *)
  MaxGap,               (* bound: time between two passes *)
  CountCap,             (* bound: the count stops here; 3 and more are alike *)
  MaxLosses             (* bound: losses of power *)

ASSUME ClockAssumption ==
  /\ Wrap \in Nat /\ MaxGap \in Nat \ {0}
  /\ Wrap > LaterReboot + MaxGap /\ Wrap > MqttDownRecover + MaxGap
  /\ Wrap > RecoverRepeat + MaxGap /\ Wrap > HealthyReset + MaxGap

ASSUME LadderAssumption ==
  /\ {RecoverAfter, RecoverRepeat, MqttDownRecover, HealthyReset} \subseteq Nat \ {0}
  /\ {FirstReboot, SecondReboot, ThirdReboot, LaterReboot} \subseteq Nat \ {0}
  /\ RecoverAfter <= RecoverRepeat
  /\ FirstReboot <= SecondReboot /\ SecondReboot <= ThirdReboot /\ ThirdReboot <= LaterReboot
  /\ CountCap \in Nat /\ CountCap >= 3 /\ MaxLosses \in Nat
  /\ CanSuspend \in BOOLEAN

VARIABLES
  now,
  isolated, suspended,       (* what the last pass saw *)
  network_was_ready,
  gov,                       (* the governor object *)
  saved,                     (* its count in flash *)
  mqtt_recover_pending,      (* a recovery waiting for WiFi to resume *)
  action,                    (* what the governor answered last *)
  pc,                        (* where the pass is: loop, save, restart *)
  seen,                      (* history of this boot, see Watch *)
  ladder,                    (* history: reboots since the device was well for long *)
  losses

vars == <<now, isolated, suspended, network_was_ready, gov, saved,
          mqtt_recover_pending, action, pc, seen, ladder, losses>>

Times == 0 .. Wrap - 1
Off == -1               (* an age that is not running *)

Since(mark, t) == (t - mark) % Wrap

Threshold(count) ==
  CASE count = 0 -> FirstReboot
    [] count = 1 -> SecondReboot
    [] count = 2 -> ThirdReboot
    [] OTHER -> LaterReboot

(* take_due: is a period over, and its mark moved on by whole periods.     *)
Due(mark, period, t) == Since(mark, t) >= period
FaultyMovedUnwrapped(mark, period, t) ==
  IF Due(mark, period, t) THEN mark + period * (Since(mark, t) \div period) ELSE mark
FaultyMoved(mark, period, t) == IF Due(mark, period, t) THEN t ELSE mark
Moved(mark, period, t) ==
  IF Due(mark, period, t)
  THEN (mark + period * (Since(mark, t) \div period)) % Wrap ELSE mark

-----------------------------------------------------------------------------
(* The object.  A mark is Off while the flag that guards it is down: the   *)
(* code sets the flag and the mark together and reads no mark without it.  *)
NoEpisode == [start |-> Off, mark |-> Off, wait |-> RecoverAfter]

NewGovernor(count) ==
  [reboot_count |-> count,
   isolating |-> NoEpisode,      (* isolation_start_ms_, recover_mark_ms_, recover_wait_ms_ *)
   mqtt_down |-> Off,            (* mqtt_recover_mark_ms_ *)
   healthy |-> Off]              (* healthy_since_ms_ *)

NothingSeen ==
  [outage |-> Off, tended |-> FALSE, unattended |-> 0,  (* counted isolation, recoveries *)
   down |-> Off, due |-> FALSE, put_off |-> FALSE,      (* MQTT down, its due times *)
   well |-> Off]

Init ==
  /\ now = 0 /\ network_was_ready = FALSE
  /\ gov = NewGovernor(0) /\ saved = 0
  /\ isolated = TRUE /\ suspended = FALSE /\ mqtt_recover_pending = FALSE
  /\ action = "none" /\ pc = "loop"
  /\ seen = NothingSeen /\ ladder = 0 /\ losses = 0

(* A boot: the count comes from flash, all else starts afresh.             *)
Boot ==
  /\ now' = 0 /\ network_was_ready' = FALSE
  /\ gov' = NewGovernor(saved) /\ mqtt_recover_pending' = FALSE
  /\ action' = "none" /\ pc' = "loop"
  /\ seen' = NothingSeen
  /\ UNCHANGED <<saved, isolated, suspended>>

-----------------------------------------------------------------------------
(* poll(t, isolated, mqtt_up, network_was_ready), each part with what it   *)
(* is given.  Until a first network in this boot an outage is not counted, *)
(* unless an earlier boot recorded one.                                    *)
FaultyGated(ready) == ~ready
Gated(ready) == ~ready /\ gov.reboot_count = 0

(* MQTT down: a due time is used up, whether or not it leads to anything.  *)
MqttMark(t) == IF gov.mqtt_down # Off THEN gov.mqtt_down ELSE t
MqttDue(t, counted) == counted /\ Due(MqttMark(t), MqttDownRecover, t)
MqttClock(t, counted) ==
  [gov EXCEPT !.mqtt_down = IF counted THEN Moved(MqttMark(t), MqttDownRecover, t) ELSE Off]

FaultyConnected(t, counted) ==
  /\ gov' = [MqttClock(t, counted) EXCEPT
       !.isolating = NoEpisode,
       !.healthy = IF @ = Off THEN t ELSE @,
       !.reboot_count = IF gov.healthy # Off THEN 0 ELSE @]
  /\ action' = IF MqttDue(t, counted) THEN "recover" ELSE "none"
(* Health that lasts takes the count back to 0.                            *)
Connected(t, counted) ==
  /\ gov' = [MqttClock(t, counted) EXCEPT
       !.isolating = NoEpisode,
       !.healthy = IF @ = Off THEN t ELSE @,
       !.reboot_count = IF gov.healthy # Off /\ Since(gov.healthy, t) >= HealthyReset
                        THEN 0 ELSE @]
  /\ action' = IF MqttDue(t, counted) THEN "recover" ELSE "none"

IsolatedGated(t) ==
  /\ gov' = [MqttClock(t, FALSE) EXCEPT !.healthy = Off, !.isolating = NoEpisode]
  /\ action' = "none"

FaultyEpisode(t) ==
  IF gov.isolating # NoEpisode THEN gov.isolating
  ELSE [start |-> t, mark |-> t, wait |-> RecoverRepeat]
Episode(t) ==
  IF gov.isolating # NoEpisode THEN gov.isolating
  ELSE [start |-> t, mark |-> t, wait |-> RecoverAfter]

(* A reboot wins over a recovery due at the same poll.  reboot_issued_ is  *)
(* for a caller that polls on after a reboot; neither caller does.         *)
IsolatedCounted(t, counted) ==
  LET episode == Episode(t)
      recover_due == Due(episode.mark, episode.wait, t)
      reboot_due == Since(episode.start, t) >= Threshold(gov.reboot_count)
  IN
  /\ gov' = [MqttClock(t, counted) EXCEPT
       !.healthy = Off,
       !.isolating = [episode EXCEPT
          !.mark = Moved(@, episode.wait, t),
          !.wait = IF recover_due THEN RecoverRepeat ELSE @],
       !.reboot_count = IF reboot_due /\ @ < CountCap THEN @ + 1 ELSE @]
  /\ action' = IF reboot_due THEN "reboot" ELSE IF recover_due THEN "recover" ELSE "none"

Poll(t, mqtt_up, ready) ==
  LET counted == ~mqtt_up /\ ~Gated(ready) IN
  \/ ~isolated' /\ Connected(t, counted)
  \/ isolated' /\ Gated(ready) /\ IsolatedGated(t)
  \/ isolated' /\ ~Gated(ready) /\ IsolatedCounted(t, counted)

-----------------------------------------------------------------------------
(* The caller.  A recovery that falls due while WiFi is suspended on       *)
(* purpose waits until it resumes, or until MQTT is back.                  *)
WaitsForResume == action' = "recover" /\ ~isolated' /\ suspended'

Deferral(connected) ==
  mqtt_recover_pending' =
    (WaitsForResume \/ (mqtt_recover_pending /\ ~connected /\ suspended'))

RecoversNow(connected) ==
  \/ mqtt_recover_pending /\ ~connected /\ ~suspended'
  \/ action' = "recover" /\ ~WaitsForResume

(* The ages and flags the properties are stated with: they run on the gaps *)
(* between passes, not on the clock.                                       *)
Grown(age, runs, gap, cap) ==
  CASE ~runs -> Off
    [] runs /\ age = Off -> 0
    [] OTHER -> IF age + gap > cap THEN cap ELSE age + gap

Watch(gap, connected, mqtt_up, ready) ==
  LET counts == ~Gated(ready)
      outage == Grown(seen.outage, isolated' /\ counts, gap, LaterReboot)
      recovers == RecoversNow(connected)
      falls_due == /\ seen.down # Off /\ ~mqtt_up /\ counts
                   /\ seen.down + gap >= MqttDownRecover
  IN
  /\ seen' =
      [outage |-> outage,
       tended |-> outage # Off /\ (recovers \/ (seen.tended /\ seen.outage # Off)),
       unattended |-> IF Off \in {outage, seen.outage} \/ recovers THEN 0
                      ELSE seen.unattended + gap,
       due |-> falls_due,
       down |-> IF falls_due THEN (seen.down + gap) % MqttDownRecover
                ELSE Grown(seen.down, ~mqtt_up /\ counts, gap, MqttDownRecover),
       put_off |-> (seen.put_off \/ (falls_due /\ ~isolated')) /\ ~recovers /\ ~connected,
       well |-> Grown(seen.well, ~isolated', gap, HealthyReset)]
  /\ ladder' = IF seen'.well >= HealthyReset THEN 0 ELSE ladder

(* One pass: MQTT may be connected, or not expected to be (disabled, no    *)
(* host); without it the device is isolated unless the other is linked.    *)
(* MQTT connects over the IP network only, which has then been ready and is *)
(* not suspended.                                                          *)
Pass ==
  /\ pc = "loop"
  /\ \E gap \in 1 .. MaxGap, connected, expected \in BOOLEAN :
       /\ connected => expected
       /\ network_was_ready' \in {network_was_ready \/ connected, TRUE}
       /\ isolated' \in IF connected THEN {FALSE} ELSE BOOLEAN
       /\ suspended' \in IF CanSuspend /\ ~connected THEN BOOLEAN ELSE {FALSE}
       /\ now' = (now + gap) % Wrap
       /\ Poll(now', connected \/ ~expected, network_was_ready')
       /\ Deferral(connected)
       /\ Watch(gap, connected, connected \/ ~expected, network_was_ready')
  /\ pc' = IF gov'.reboot_count # gov.reboot_count \/ action' = "reboot" THEN "save" ELSE "loop"
  /\ UNCHANGED <<saved, losses>>

(* The count is written before the restart it counts, and when it is reset. *)
FaultySave ==
  /\ pc = "save"
  /\ pc' = IF action = "reboot" THEN "restart" ELSE "loop"
  /\ saved' = IF action = "reboot" THEN saved ELSE gov.reboot_count
  /\ UNCHANGED <<now, isolated, suspended, network_was_ready, gov,
                 mqtt_recover_pending, action, seen, ladder, losses>>
Save ==
  /\ pc = "save"
  /\ pc' = IF action = "reboot" THEN "restart" ELSE "loop"
  /\ saved' = gov.reboot_count
  /\ UNCHANGED <<now, isolated, suspended, network_was_ready, gov,
                 mqtt_recover_pending, action, seen, ladder, losses>>

(* ESP.restart().                                                          *)
Restart ==
  /\ pc = "restart"
  /\ ladder' = IF ladder < 3 THEN ladder + 1 ELSE 3
  /\ Boot /\ UNCHANGED losses

LosePower ==
  /\ losses < MaxLosses /\ losses' = losses + 1
  /\ Boot /\ UNCHANGED ladder

Device == Pass \/ Save \/ Restart
Next == Device \/ LosePower

Spec == Init /\ [][Next]_vars

(* The loop task is kept running by the task watchdog.                     *)
FairSpec == Spec /\ WF_vars(Device)

-----------------------------------------------------------------------------
(* Types of everything the code keeps.                                     *)
GovernorTypeOK ==
  /\ now \in Times
  /\ gov \in [reboot_count : 0 .. CountCap,
              isolating : {NoEpisode} \union
                [start : Times, mark : Times, wait : {RecoverAfter, RecoverRepeat}],
              mqtt_down : Times \union {Off}, healthy : Times \union {Off}]
  /\ saved \in 0 .. CountCap
  /\ {isolated, suspended, network_was_ready, mqtt_recover_pending} \subseteq BOOLEAN
  /\ action \in {"none", "recover", "reboot"} /\ pc \in {"loop", "save", "restart"}

(* A reboot is never ordered before the isolation has lasted, in this boot *)
(* and without a break, as long as the number of reboots since the device  *)
(* was last well for long enough asks: whenever power is lost, and however *)
(* the clock wraps, an outage cannot become a reboot loop.                 *)
RebootsSpaced == action = "reboot" => seen.outage >= Threshold(ladder)

(* Flash never says fewer reboots than were made since the device was last *)
(* well, and once it has been well for long enough it says none.           *)
SavedCountTrue ==
  /\ pc # "save" => saved >= ladder
  /\ seen.well >= HealthyReset /\ pc = "loop" => saved = 0

(* A counted isolation is never left alone: after the first wait it has    *)
(* had a recovery, and then never goes without one for a whole repeat.     *)
OutageTended ==
  seen.outage # Off /\ action # "reboot"
    => seen.unattended < RecoverRepeat /\ (seen.outage >= RecoverAfter => seen.tended)

(* MQTT down with the other device linked: a recovery at each due time and *)
(* at no other; only a suspended WiFi puts one off.                        *)
MqttDownSchedule ==
  /\ action = "recover" /\ ~isolated => seen.due
  /\ seen.put_off => suspended

(* An isolation that never ends is met with reboots for ever, once the     *)
(* device has had a network or has rebooted for one.                       *)
RebootsKeepComing ==
  <>[](isolated /\ (network_was_ready \/ gov.reboot_count > 0)) => []<>(pc = "restart")
=============================================================================
