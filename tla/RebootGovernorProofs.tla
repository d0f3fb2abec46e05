------------------------ MODULE RebootGovernorProofs ------------------------
(* What holds of the reboot governor for every clock size, threshold,      *)
(* spacing of the passes and number of losses of power.                    *)
EXTENDS RebootGovernor, ClockLemmas

LEMMA ThresholdGrows ==
  /\ \A n \in Nat : Threshold(n) \in Nat /\ Threshold(n) <= LaterReboot
  /\ \A m \in Nat, n \in Nat : m <= n => Threshold(m) <= Threshold(n)
  BY LadderAssumption DEF Threshold

(* The marks stay on the clock.                                            *)
LEMMA SinceType == \A mark \in Int, t \in Int : Since(mark, t) \in 0 .. Wrap - 1
<1>1. Wrap \in Nat \ {0}
  BY ClockAssumption, LadderAssumption
<1> QED
  BY <1>1, DivMod DEF Since

LEMMA MovedType ==
  \A mark \in Times, period \in Nat \ {0}, t \in Times : Moved(mark, period, t) \in Times
<1> SUFFICES ASSUME NEW mark \in Times, NEW period \in Nat \ {0}, NEW t \in Times
             PROVE  Moved(mark, period, t) \in Times
  OBVIOUS
<1> DEFINE whole == Since(mark, t) \div period
<1>1. Since(mark, t) \in Int
  BY SinceType DEF Times
<1>2. whole \in Int
  BY <1>1, DivMod
<1>3. mark + period * whole \in Int
  BY <1>2 DEF Times
<1>4. Wrap \in Nat \ {0}
  BY ClockAssumption, LadderAssumption
<1>5. (mark + period * whole) % Wrap \in Times
  BY <1>3, <1>4, DivMod DEF Times
<1> QED
  BY <1>5 DEF Moved

(* An age that runs, from when it starts.                                  *)
Lasts(age, gap, cap) == IF age = Off THEN 0 ELSE IF age + gap > cap THEN cap ELSE age + gap

(* An age that runs keeps up with the clock until its cap: it is never     *)
(* less than the time since a mark that was set when it started, and is    *)
(* exactly that while it is below the cap.                                 *)
Keeps(age, mark, t, cap) ==
  /\ age \in 0 .. cap
  /\ age = cap \/ age = Since(mark, t)

LEMMA KeepsUp ==
  ASSUME NEW t \in Int, NEW mark \in Int, NEW gap \in 1 .. MaxGap, NEW cap \in Nat \ {0},
         cap + MaxGap < Wrap, NEW age, Keeps(age, mark, t, cap)
  PROVE  /\ Lasts(age, gap, cap) # Off
         /\ Keeps(Lasts(age, gap, cap), mark, (t + gap) % Wrap, cap)
         /\ age < cap => Since(mark, (t + gap) % Wrap) = age + gap
         /\ Since(mark, (t + gap) % Wrap) > cap => Lasts(age, gap, cap) = cap
<1> DEFINE before == Since(mark, t)
           after == Since(mark, (t + gap) % Wrap)
           grown == Lasts(age, gap, cap)
<1>1. Wrap \in Nat \ {0} /\ gap \in Nat /\ MaxGap \in Nat /\ gap <= MaxGap
  BY ClockAssumption, LadderAssumption
<1>2. after <= before + gap /\ (before + gap < Wrap => after = before + gap)
      /\ before \in Nat /\ after \in Nat
  <2>1. /\ (((t + gap) % Wrap) - mark) % Wrap <= ((t - mark) % Wrap) + gap
        /\ ((t - mark) % Wrap) + gap < Wrap
             => (((t + gap) % Wrap) - mark) % Wrap = ((t - mark) % Wrap) + gap
        /\ (((t + gap) % Wrap) - mark) % Wrap \in 0 .. Wrap - 1
    BY <1>1, SinceGrows
  <2>2. t - mark \in Int
    OBVIOUS
  <2>3. (t - mark) % Wrap \in 0 .. Wrap - 1
    BY <1>1, <2>2, DivMod
  <2> QED
    BY <2>1, <2>3 DEF Since
<1>3. age \in 0 .. cap /\ (age = cap \/ age = before)
  BY DEF Keeps
<1>4. grown = IF age + gap > cap THEN cap ELSE age + gap
  BY <1>3 DEF Lasts, Off
<1>5. /\ grown # Off
      /\ grown \in 0 .. cap
      /\ grown = cap \/ grown = after
      /\ age < cap => after = age + gap
      /\ after > cap => grown = cap
  <2> HIDE DEF before, after, grown
  <2>1. CASE age = cap
    BY <1>1, <1>4, <2>1 DEF Off
  <2>2. CASE age < cap
    <3>1. age = before /\ after = age + gap /\ age \in Nat
      BY <1>1, <1>2, <1>3, <2>2
    <3> QED
      BY <1>1, <1>4, <2>2, <3>1 DEF Off
  <2> QED
    BY <1>3, <2>1, <2>2
<1> QED
  BY <1>5, Zenon DEF Keeps

-----------------------------------------------------------------------------
(* The marks of the object against what really passed: the isolation and   *)
(* the health it counts are the present ones, and no longer than they are. *)
MarksTrue ==
  /\ gov.isolating = NoEpisode => seen.outage = Off
  /\ gov.isolating # NoEpisode => Keeps(seen.outage, gov.isolating.start, now, LaterReboot)
  /\ gov.healthy = Off => seen.well = Off
  /\ gov.healthy # Off => Keeps(seen.well, gov.healthy, now, HealthyReset)

(* The counts against the reboots really made: neither falls behind, and   *)
(* flash has the next one before it happens.                               *)
CountsTrue ==
  /\ ladder \in 0 .. 3 /\ ladder <= saved /\ ladder <= gov.reboot_count
  /\ pc # "save" => saved = gov.reboot_count
  /\ pc = "restart" => action = "reboot"
  /\ action = "reboot" /\ ladder < 3 => gov.reboot_count > ladder
  /\ seen.well = HealthyReset => gov.reboot_count = 0

GovernorInv == GovernorTypeOK /\ MarksTrue /\ CountsTrue /\ RebootsSpaced

-----------------------------------------------------------------------------
Episodes == [start : Times, mark : Times, wait : {RecoverAfter, RecoverRepeat}]

Governors ==
  [reboot_count : 0 .. CountCap, isolating : {NoEpisode} \union Episodes,
   mqtt_down : Times \union {Off}, healthy : Times \union {Off}]

LEMMA MqttClockType ==
  ASSUME gov \in Governors, NEW t \in Times, NEW counted \in BOOLEAN
  PROVE  /\ MqttClock(t, counted) \in Governors
         /\ MqttClock(t, counted).reboot_count = gov.reboot_count
         /\ MqttClock(t, counted).healthy = gov.healthy
<1>1. MqttMark(t) \in Times
  BY DEF Governors, MqttMark
<1>2. MqttDownRecover \in Nat \ {0}
  BY LadderAssumption
<1>3. Moved(MqttMark(t), MqttDownRecover, t) \in Times
  BY <1>1, <1>2, MovedType
<1> QED
  BY <1>3 DEF Governors, MqttClock

LEMMA EpisodeType ==
  ASSUME gov \in Governors, NEW t \in Times
  PROVE  Episode(t) \in Episodes
  BY LadderAssumption DEF Episode, Governors, Episodes

(* The three outcomes of a poll, as far as the counts and the marks of     *)
(* isolation and health go.                                                *)
HealthyPoll(t) ==
  /\ ~isolated' /\ action' # "reboot"
  /\ gov'.isolating = NoEpisode
  /\ gov'.healthy = IF gov.healthy = Off THEN t ELSE gov.healthy
  /\ gov'.reboot_count = IF gov.healthy # Off /\ Since(gov.healthy, t) >= HealthyReset
                         THEN 0 ELSE gov.reboot_count

GatedPoll ==
  /\ isolated' /\ action' # "reboot"
  /\ gov'.isolating = NoEpisode /\ gov'.healthy = Off
  /\ gov'.reboot_count = gov.reboot_count

IsolatedPoll(t) ==
  /\ isolated'
  /\ gov'.isolating # NoEpisode /\ gov'.healthy = Off
  /\ gov'.isolating.start = IF gov.isolating = NoEpisode THEN t ELSE gov.isolating.start
  /\ \/ /\ Since(gov'.isolating.start, t) >= Threshold(gov.reboot_count)
        /\ action' = "reboot"
        /\ gov'.reboot_count = IF gov.reboot_count < CountCap THEN gov.reboot_count + 1
                               ELSE CountCap
     \/ action' # "reboot" /\ gov'.reboot_count = gov.reboot_count

LEMMA PollOutcomes ==
  ASSUME gov \in Governors, NEW t \in Times, NEW mqtt_up \in BOOLEAN,
         NEW ready \in BOOLEAN, Poll(t, mqtt_up, ready)
  PROVE  /\ gov' \in Governors /\ action' \in {"none", "recover", "reboot"}
         /\ \/ HealthyPoll(t)
            \/ GatedPoll /\ Gated(ready)
            \/ IsolatedPoll(t) /\ ~Gated(ready)
<1> DEFINE counted == ~mqtt_up /\ ~Gated(ready)
<1>1. counted \in BOOLEAN /\ FALSE \in BOOLEAN
  BY DEF Gated
<1> HIDE DEF counted
<1>2. CASE ~isolated' /\ Connected(t, counted)
  <2>1. MqttClock(t, counted) \in Governors
        /\ MqttClock(t, counted).reboot_count = gov.reboot_count
        /\ MqttClock(t, counted).healthy = gov.healthy
    BY <1>1, MqttClockType
  <2> DEFINE healthy == IF gov.healthy = Off THEN t ELSE gov.healthy
             count == IF gov.healthy # Off /\ Since(gov.healthy, t) >= HealthyReset
                      THEN 0 ELSE gov.reboot_count
  <2>2. gov' = [MqttClock(t, counted) EXCEPT
                  !.isolating = NoEpisode, !.healthy = healthy, !.reboot_count = count]
    BY <1>2, <2>1 DEF Connected, Governors
  <2>3. healthy \in Times \union {Off} /\ count \in 0 .. CountCap
    BY LadderAssumption DEF Governors
  <2>4. /\ gov' \in Governors
        /\ gov'.isolating = NoEpisode /\ gov'.healthy = healthy /\ gov'.reboot_count = count
    <3> HIDE DEF healthy, count
    <3> QED
      BY <2>1, <2>2, <2>3 DEF Governors
  <2>5. action' \in {"none", "recover"}
    BY <1>2 DEF Connected
  <2> QED
    BY <1>2, <2>4, <2>5 DEF HealthyPoll
<1>3. CASE isolated' /\ Gated(ready) /\ IsolatedGated(t)
  <2>1. MqttClock(t, FALSE) \in Governors
        /\ MqttClock(t, FALSE).reboot_count = gov.reboot_count
    BY <1>1, MqttClockType
  <2> QED
    BY <1>3, <2>1 DEF IsolatedGated, GatedPoll, Governors
<1>4. CASE isolated' /\ ~Gated(ready) /\ IsolatedCounted(t, counted)
  <2> DEFINE episode == Episode(t)
             mark == Moved(episode.mark, episode.wait, t)
             reboot_due == Since(episode.start, t) >= Threshold(gov.reboot_count)
  <2>1. MqttClock(t, counted) \in Governors
        /\ MqttClock(t, counted).reboot_count = gov.reboot_count
    BY <1>1, MqttClockType
  <2>2. episode \in Episodes
        /\ episode.start = IF gov.isolating = NoEpisode THEN t ELSE gov.isolating.start
    BY EpisodeType DEF Episode
  <2>3. mark \in Times
    <3>1. episode.mark \in Times /\ episode.wait \in Nat \ {0}
      BY <2>2, LadderAssumption DEF Episodes
    <3> QED
      BY <3>1, MovedType
  <2> DEFINE next == [episode EXCEPT !.mark = mark,
                        !.wait = IF Due(episode.mark, episode.wait, t)
                                 THEN RecoverRepeat ELSE @]
             count == IF reboot_due /\ gov.reboot_count < CountCap
                      THEN gov.reboot_count + 1 ELSE gov.reboot_count
  <2>4. next \in Episodes /\ next.start = episode.start /\ next # NoEpisode
    <3> HIDE DEF episode, mark
    <3>1. next \in Episodes /\ next.start = episode.start
      BY <2>2, <2>3, LadderAssumption DEF Episodes
    <3>2. \A e \in Episodes : e # NoEpisode
      BY DEF Episodes, NoEpisode, Times, Off
    <3> HIDE DEF next
    <3> QED
      BY <3>1, <3>2
  <2>5. gov' = [MqttClock(t, counted) EXCEPT
                  !.healthy = Off, !.isolating = next, !.reboot_count = count]
    BY <1>4, <2>1 DEF IsolatedCounted, Governors
  <2>6. /\ action' \in {"none", "recover", "reboot"}
        /\ action' = "reboot" <=> reboot_due
    BY <1>4 DEF IsolatedCounted
  <2>7. gov.reboot_count \in 0 .. CountCap /\ CountCap \in Nat
    BY LadderAssumption DEF Governors
  <2>8. count \in 0 .. CountCap
    BY <2>7
  <2>9. /\ gov' \in Governors
        /\ gov'.isolating = next /\ gov'.healthy = Off /\ gov'.reboot_count = count
    <3> HIDE DEF next, count
    <3> QED
      BY <2>1, <2>4, <2>5, <2>8 DEF Governors
  <2>10. IsolatedPoll(t)
    <3>1. count = IF reboot_due THEN IF gov.reboot_count < CountCap
                                     THEN gov.reboot_count + 1 ELSE CountCap
                  ELSE gov.reboot_count
      BY <2>7
    <3>2. gov'.isolating.start = IF gov.isolating = NoEpisode THEN t ELSE gov.isolating.start
      BY <2>2, <2>4, <2>9
    <3>3. reboot_due <=> Since(gov'.isolating.start, t) >= Threshold(gov.reboot_count)
      BY <2>4, <2>9
    <3> HIDE DEF next, count, reboot_due
    <3> QED
      BY <1>4, <2>4, <2>6, <2>9, <3>1, <3>2, <3>3 DEF IsolatedPoll
  <2> QED
    BY <1>4, <2>6, <2>9, <2>10
<1> QED
  BY <1>2, <1>3, <1>4 DEF Poll, counted

-----------------------------------------------------------------------------
(* What a pass does, the ages included that the properties are stated with. *)
LEMMA PassSteps ==
  ASSUME GovernorTypeOK, Pass
  PROVE  \E gap \in 1 .. MaxGap :
           /\ pc = "loop" /\ saved' = saved
           /\ now' = (now + gap) % Wrap /\ now' \in Times
           /\ gov' \in Governors /\ action' \in {"none", "recover", "reboot"}
           /\ {isolated', suspended', network_was_ready', mqtt_recover_pending'} \subseteq BOOLEAN
           /\ \/ /\ HealthyPoll(now')
                 /\ seen'.outage = Off /\ seen'.well = Lasts(seen.well, gap, HealthyReset)
              \/ GatedPoll /\ seen'.outage = Off /\ seen'.well = Off
              \/ /\ IsolatedPoll(now')
                 /\ seen'.outage = Lasts(seen.outage, gap, LaterReboot) /\ seen'.well = Off
           /\ ladder' = IF seen'.well >= HealthyReset THEN 0 ELSE ladder
           /\ pc' = IF gov'.reboot_count # gov.reboot_count \/ action' = "reboot"
                    THEN "save" ELSE "loop"
<1>1. PICK gap \in 1 .. MaxGap, connected \in BOOLEAN, expected \in BOOLEAN :
        /\ network_was_ready' \in {network_was_ready \/ connected, TRUE}
        /\ isolated' \in IF connected THEN {FALSE} ELSE BOOLEAN
        /\ suspended' \in IF CanSuspend /\ ~connected THEN BOOLEAN ELSE {FALSE}
        /\ now' = (now + gap) % Wrap
        /\ Poll(now', connected \/ ~expected, network_was_ready')
        /\ Deferral(connected)
        /\ Watch(gap, connected, connected \/ ~expected, network_was_ready')
  BY DEF Pass
<1> DEFINE mqtt_up == connected \/ ~expected
           ready == network_was_ready'
<1>2. now' \in Times
  <2>1. Wrap \in Nat \ {0} /\ now + gap \in Int
    BY <1>1, ClockAssumption, LadderAssumption DEF GovernorTypeOK, Times
  <2> QED
    BY <1>1, <2>1, DivMod DEF Times
<1>3. mqtt_up \in BOOLEAN /\ ready \in BOOLEAN /\ isolated' \in BOOLEAN /\ suspended' \in BOOLEAN
  BY <1>1 DEF GovernorTypeOK
<1>4. mqtt_recover_pending' \in BOOLEAN
  BY <1>1, <1>3, Zenon DEF Deferral, WaitsForResume, GovernorTypeOK
<1>5. gov \in Governors
  BY DEF GovernorTypeOK, Governors, Episodes
<1>6. /\ gov' \in Governors /\ action' \in {"none", "recover", "reboot"}
      /\ \/ HealthyPoll(now')
         \/ GatedPoll /\ Gated(ready)
         \/ IsolatedPoll(now') /\ ~Gated(ready)
  <2>1. Poll(now', mqtt_up, ready)
    BY <1>1
  <2> HIDE DEF mqtt_up, ready
  <2> QED
    BY <1>2, <1>3, <1>5, <2>1, PollOutcomes
<1>7. /\ seen'.outage = Grown(seen.outage, isolated' /\ ~Gated(ready), gap, LaterReboot)
      /\ seen'.well = Grown(seen.well, ~isolated', gap, HealthyReset)
      /\ ladder' = IF seen'.well >= HealthyReset THEN 0 ELSE ladder
  BY <1>1 DEF Watch
<1>8. /\ isolated' /\ ~Gated(ready) => seen'.outage = Lasts(seen.outage, gap, LaterReboot)
      /\ ~(isolated' /\ ~Gated(ready)) => seen'.outage = Off
      /\ ~isolated' => seen'.well = Lasts(seen.well, gap, HealthyReset)
      /\ isolated' => seen'.well = Off
  BY <1>7 DEF Grown, Lasts
<1>9. /\ pc = "loop" /\ saved' = saved
      /\ pc' = IF gov'.reboot_count # gov.reboot_count \/ action' = "reboot"
               THEN "save" ELSE "loop"
  BY DEF Pass
<1>10. \/ /\ HealthyPoll(now')
          /\ seen'.outage = Off /\ seen'.well = Lasts(seen.well, gap, HealthyReset)
       \/ GatedPoll /\ seen'.outage = Off /\ seen'.well = Off
       \/ /\ IsolatedPoll(now')
          /\ seen'.outage = Lasts(seen.outage, gap, LaterReboot) /\ seen'.well = Off
  BY <1>6, <1>8 DEF HealthyPoll, GatedPoll, IsolatedPoll
<1>11. {isolated', suspended', network_was_ready', mqtt_recover_pending'} \subseteq BOOLEAN
  BY <1>3, <1>4
<1> QED
  BY <1>1, <1>2, <1>6, <1>7, <1>9, <1>10, <1>11

LEMMA CapsFit ==
  /\ LaterReboot \in Nat \ {0} /\ LaterReboot + MaxGap < Wrap
  /\ HealthyReset \in Nat \ {0} /\ HealthyReset + MaxGap < Wrap
  /\ Wrap \in Nat \ {0}
  BY ClockAssumption, LadderAssumption

(* An age whose mark is set at this pass.                                  *)
LEMMA KeepsFromNow ==
  ASSUME NEW t \in Times, NEW cap \in Nat PROVE Keeps(0, t, t, cap)
<1>1. Since(t, t) = 0
  BY SinceNow, CapsFit DEF Since, Times
<1> QED
  BY <1>1 DEF Keeps

LEMMA PassStep == GovernorInv /\ Pass => GovernorInv'
<1> SUFFICES ASSUME GovernorInv, Pass PROVE GovernorInv'
  OBVIOUS
<1>1. PICK gap \in 1 .. MaxGap :
        /\ pc = "loop" /\ saved' = saved
        /\ now' = (now + gap) % Wrap /\ now' \in Times
        /\ gov' \in Governors /\ action' \in {"none", "recover", "reboot"}
        /\ {isolated', suspended', network_was_ready', mqtt_recover_pending'} \subseteq BOOLEAN
        /\ \/ /\ HealthyPoll(now')
              /\ seen'.outage = Off /\ seen'.well = Lasts(seen.well, gap, HealthyReset)
           \/ GatedPoll /\ seen'.outage = Off /\ seen'.well = Off
           \/ /\ IsolatedPoll(now')
              /\ seen'.outage = Lasts(seen.outage, gap, LaterReboot) /\ seen'.well = Off
        /\ ladder' = IF seen'.well >= HealthyReset THEN 0 ELSE ladder
        /\ pc' = IF gov'.reboot_count # gov.reboot_count \/ action' = "reboot"
                 THEN "save" ELSE "loop"
  BY PassSteps DEF GovernorInv
<1>2. gov \in Governors /\ now \in Times /\ saved \in 0 .. CountCap /\ now \in Int
  BY DEF GovernorInv, GovernorTypeOK, Governors, Episodes, Times
<1>3. GovernorTypeOK'
  BY <1>1, <1>2 DEF GovernorTypeOK, Governors, Episodes
<1>4. /\ ladder \in 0 .. 3 /\ ladder <= gov.reboot_count /\ saved = gov.reboot_count
      /\ gov.reboot_count \in 0 .. CountCap /\ CountCap \in Nat /\ CountCap >= 3
      /\ seen.well = HealthyReset => gov.reboot_count = 0
  BY <1>1, <1>2, LadderAssumption DEF GovernorInv, CountsTrue, Governors
<1>5. CASE /\ HealthyPoll(now')
           /\ seen'.outage = Off /\ seen'.well = Lasts(seen.well, gap, HealthyReset)
  <2>1. CASE gov.healthy = Off
    <3>1. seen'.well = 0 /\ gov'.healthy = now' /\ gov'.reboot_count = gov.reboot_count
      BY <1>5, <2>1 DEF GovernorInv, MarksTrue, HealthyPoll, Lasts
    <3>2. Keeps(0, now', now', HealthyReset)
      BY <1>1, CapsFit, KeepsFromNow
    <3>3. MarksTrue'
      BY <1>1, <1>5, <3>1, <3>2 DEF MarksTrue, HealthyPoll, Times, Off
    <3>4. CountsTrue'
      BY <1>1, <1>4, <1>5, <3>1, CapsFit DEF CountsTrue, HealthyPoll
    <3> QED
      BY <1>3, <1>5, <3>3, <3>4 DEF GovernorInv, RebootsSpaced, HealthyPoll
  <2>2. CASE gov.healthy # Off
    <3>1. Keeps(seen.well, gov.healthy, now, HealthyReset) /\ gov.healthy \in Times /\ gov.healthy \in Int
      BY <1>2, <2>2 DEF GovernorInv, MarksTrue, Governors, Times
    <3>2. /\ Keeps(seen'.well, gov.healthy, now', HealthyReset)
          /\ seen.well < HealthyReset => Since(gov.healthy, now') = seen.well + gap
          /\ Since(gov.healthy, now') > HealthyReset => seen'.well = HealthyReset
      BY <1>1, <1>2, <1>5, <3>1, CapsFit, KeepsUp
    <3>3. gov'.healthy = gov.healthy /\ gov'.isolating = NoEpisode /\ action' # "reboot"
          /\ gov'.reboot_count = IF Since(gov.healthy, now') >= HealthyReset
                                 THEN 0 ELSE gov.reboot_count
      BY <1>5, <2>2 DEF HealthyPoll
    <3>4. MarksTrue'
      BY <1>5, <2>2, <3>2, <3>3 DEF MarksTrue
    <3>5. seen.well \in 0 .. HealthyReset /\ seen'.well \in 0 .. HealthyReset
          /\ Since(gov.healthy, now') \in Nat
          /\ (seen'.well = HealthyReset \/ seen'.well = Since(gov.healthy, now'))
      <4>1. now' \in Int
        BY <1>1 DEF Times
      <4>2. Since(gov.healthy, now') \in 0 .. Wrap - 1
        BY <3>1, <4>1, SinceType
      <4> QED
        BY <3>1, <3>2, <4>2, CapsFit DEF Keeps
    <3>6. seen'.well = HealthyReset <=> gov'.reboot_count = 0 /\ ladder' = 0 /\ seen'.well = HealthyReset
      <4>1. CASE seen.well = HealthyReset
        BY <1>1, <1>4, <3>3, <3>5, <4>1, CapsFit
      <4>2. CASE seen.well < HealthyReset
        <5>1. seen'.well = IF seen.well + gap > HealthyReset THEN HealthyReset ELSE seen.well + gap
          BY <1>5, <3>5 DEF Lasts, Off
        <5> QED
          BY <1>1, <1>4, <3>2, <3>3, <3>5, <4>2, <5>1, CapsFit
      <4> QED
        BY <3>5, <4>1, <4>2, CapsFit
    <3>7. seen'.well # HealthyReset => gov'.reboot_count = gov.reboot_count /\ ladder' = ladder
      BY <1>1, <3>3, <3>5, CapsFit
    <3>8. CountsTrue'
      BY <1>1, <1>2, <1>4, <3>3, <3>6, <3>7 DEF CountsTrue
    <3> QED
      BY <1>3, <3>3, <3>4, <3>8 DEF GovernorInv, RebootsSpaced
  <2> QED
    BY <2>1, <2>2
<1>6. CASE GatedPoll /\ seen'.outage = Off /\ seen'.well = Off
  <2>1. MarksTrue'
    BY <1>6 DEF MarksTrue, GatedPoll
  <2>2. CountsTrue'
    BY <1>1, <1>4, <1>6, CapsFit DEF CountsTrue, GatedPoll, Off
  <2> QED
    BY <1>3, <1>6, <2>1, <2>2 DEF GovernorInv, RebootsSpaced, GatedPoll
<1>7. CASE /\ IsolatedPoll(now')
           /\ seen'.outage = Lasts(seen.outage, gap, LaterReboot) /\ seen'.well = Off
  <2> DEFINE start == gov'.isolating.start
  <2>1. Keeps(seen'.outage, start, now', LaterReboot) /\ start \in Times
    <3>1. CASE gov.isolating = NoEpisode
      <4>1. seen'.outage = 0 /\ start = now'
        BY <1>7, <3>1 DEF GovernorInv, MarksTrue, IsolatedPoll, Lasts
      <4> QED
        BY <1>1, <4>1, CapsFit, KeepsFromNow
    <3>2. CASE gov.isolating # NoEpisode
      <4>1. start = gov.isolating.start /\ start \in Times /\ start \in Int
        BY <1>2, <1>7, <3>2 DEF IsolatedPoll, Governors, Episodes, Times
      <4>2. Keeps(seen.outage, start, now, LaterReboot)
        BY <3>2, <4>1 DEF GovernorInv, MarksTrue
      <4> HIDE DEF start
      <4> QED
        BY <1>1, <1>2, <1>7, <4>1, <4>2, CapsFit, KeepsUp
    <3> QED
      BY <3>1, <3>2
  <2>2. MarksTrue'
    BY <1>7, <2>1 DEF MarksTrue, IsolatedPoll
  <2>3. ladder' = ladder
    BY <1>1, <1>7, CapsFit DEF Off
  <2>4. CountsTrue'
    BY <1>1, <1>4, <1>7, <2>3, CapsFit DEF CountsTrue, IsolatedPoll, Off
  <2>5. RebootsSpaced'
    <3>1. action' = "reboot" => Since(start, now') >= Threshold(gov.reboot_count)
      BY <1>7 DEF IsolatedPoll
    <3>2. Threshold(ladder) <= Threshold(gov.reboot_count)
          /\ Threshold(gov.reboot_count) <= LaterReboot
          /\ Threshold(ladder) \in Nat /\ Threshold(gov.reboot_count) \in Nat
      BY <1>4, ThresholdGrows
    <3>3. seen'.outage \in 0 .. LaterReboot /\ Since(start, now') \in Nat
          /\ (seen'.outage = LaterReboot \/ seen'.outage = Since(start, now'))
      <4>1. start \in Int /\ now' \in Int
        BY <1>1, <2>1 DEF Times
      <4>2. Since(start, now') \in 0 .. Wrap - 1
        BY <4>1, SinceType
      <4> QED
        BY <2>1, <4>2, CapsFit DEF Keeps
    <3>4. action' = "reboot" => seen'.outage >= Threshold(ladder)
      BY <3>1, <3>2, <3>3, CapsFit
    <3> QED
      BY <2>3, <3>4 DEF RebootsSpaced, Threshold
  <2> QED
    BY <1>3, <2>2, <2>4, <2>5 DEF GovernorInv
<1> QED
  BY <1>1, <1>5, <1>6, <1>7

-----------------------------------------------------------------------------
(* A boot takes the count from flash and knows of no isolation or health.  *)
LEMMA BootStep ==
  ASSUME GovernorInv, Boot, ladder' \in 0 .. 3, ladder' <= saved
  PROVE  GovernorInv'
<1>1. 0 \in Times /\ saved \in 0 .. CountCap
  BY CapsFit DEF GovernorInv, GovernorTypeOK, Times
<1>2. GovernorTypeOK'
  BY <1>1 DEF GovernorInv, GovernorTypeOK, Boot, NewGovernor
<1>3. MarksTrue'
  BY DEF Boot, NewGovernor, NothingSeen, MarksTrue
<1>4. CountsTrue'
  BY <1>1, CapsFit DEF Boot, NewGovernor, NothingSeen, CountsTrue, Off
<1> QED
  BY <1>2, <1>3, <1>4 DEF GovernorInv, RebootsSpaced, Boot

LEMMA StartInv == Init => GovernorInv
<1> SUFFICES ASSUME Init PROVE GovernorInv
  OBVIOUS
<1>1. 0 \in Times /\ 0 \in 0 .. CountCap
  BY CapsFit, LadderAssumption DEF Times
<1>2. GovernorTypeOK
  BY <1>1 DEF GovernorTypeOK, Init, NewGovernor
<1>3. MarksTrue
  BY DEF Init, NewGovernor, NothingSeen, MarksTrue
<1>4. CountsTrue
  BY CapsFit DEF Init, NewGovernor, NothingSeen, CountsTrue, Off
<1> QED
  BY <1>2, <1>3, <1>4 DEF GovernorInv, RebootsSpaced, Init

LEMMA GovernorStep == GovernorInv /\ [Next]_vars => GovernorInv'
<1> SUFFICES ASSUME GovernorInv, [Next]_vars PROVE GovernorInv'
  OBVIOUS
<1>1. CASE Pass
  BY <1>1, PassStep
<1>2. CASE Save
  <2>1. gov.reboot_count \in 0 .. CountCap /\ LaterReboot \in Nat
    BY CapsFit DEF GovernorInv, GovernorTypeOK
  <2> QED
    BY <1>2, <2>1 DEF Save, GovernorInv, GovernorTypeOK, MarksTrue, CountsTrue,
                      RebootsSpaced, Keeps, Since, Threshold
<1>3. CASE Restart
  <2>1. ladder' \in 0 .. 3 /\ ladder' <= saved
    <3>1. /\ ladder \in 0 .. 3 /\ ladder <= saved /\ saved = gov.reboot_count
          /\ ladder < 3 => gov.reboot_count > ladder
          /\ saved \in 0 .. CountCap /\ CountCap \in Nat
      BY <1>3, LadderAssumption DEF Restart, GovernorInv, GovernorTypeOK, CountsTrue
    <3> QED
      BY <1>3, <3>1 DEF Restart
  <2> QED
    BY <1>3, <2>1, BootStep DEF Restart
<1>4. CASE LosePower
  <2>1. ladder' \in 0 .. 3 /\ ladder' <= saved
    BY <1>4 DEF LosePower, GovernorInv, CountsTrue
  <2> QED
    BY <1>4, <2>1, BootStep DEF LosePower
<1>5. CASE UNCHANGED vars
  BY <1>5 DEF vars, GovernorInv, GovernorTypeOK, MarksTrue, CountsTrue, RebootsSpaced,
              Keeps, Since, Threshold
<1> QED
  BY <1>1, <1>2, <1>3, <1>4, <1>5 DEF Next, Device

LEMMA GovernorHolds == Spec => []GovernorInv
  BY StartInv, GovernorStep, PTL DEF Spec

(* Everything the governor keeps stays in its range, the marks of repeated *)
(* due times included that move by whole periods over the wrap.            *)
THEOREM GovernorTypeCorrect == Spec => []GovernorTypeOK
  BY GovernorHolds, PTL DEF GovernorInv

(* An outage cannot become a reboot loop: a reboot is ordered only after   *)
(* an unbroken isolation as long as the reboots made so far ask for, with  *)
(* power lost at any moment and the clock wrapping at any moment.          *)
THEOREM RebootsAlwaysSpaced == Spec => []RebootsSpaced
  BY GovernorHolds, PTL DEF GovernorInv

(* Flash is never behind the reboots made, and is cleared by health that   *)
(* lasted.                                                                 *)
THEOREM SavedCountAlwaysTrue == Spec => []SavedCountTrue
<1>1. GovernorInv => SavedCountTrue
  <2> SUFFICES ASSUME GovernorInv PROVE SavedCountTrue
    OBVIOUS
  <2>1. ladder <= saved
    BY DEF GovernorInv, CountsTrue
  <2>2. ASSUME seen.well >= HealthyReset, pc = "loop" PROVE saved = 0
    <3>1. gov.healthy # Off
      BY <2>2, CapsFit DEF GovernorInv, MarksTrue, Off
    <3>2. seen.well \in 0 .. HealthyReset
      BY <3>1 DEF GovernorInv, MarksTrue, Keeps
    <3>3. seen.well = HealthyReset
      BY <2>2, <3>2, CapsFit
    <3> QED
      BY <2>2, <3>3 DEF GovernorInv, CountsTrue
  <2>3. ladder \in Int /\ saved \in Int
    BY DEF GovernorInv, GovernorTypeOK, CountsTrue
  <2> QED
    BY <2>1, <2>2, <2>3 DEF SavedCountTrue
<1> QED
  BY <1>1, GovernorHolds, PTL

-----------------------------------------------------------------------------
(* The clock of the recoveries against the outage: the wait that runs has  *)
(* not passed, the outage went no longer without a recovery than it has    *)
(* run, and until the first recovery it is the outage itself.              *)
TendedTrue ==
  /\ pc = "loop" => action # "reboot"
  /\ gov.isolating # NoEpisode /\ action # "reboot" =>
       /\ Since(gov.isolating.mark, now) < gov.isolating.wait
       /\ seen.unattended \in 0 .. Since(gov.isolating.mark, now)
       /\ seen.outage < LaterReboot
       /\ \/ seen.tended
          \/ gov.isolating.mark = gov.isolating.start /\ gov.isolating.wait = RecoverAfter

(* The clock of MQTT down against the time it has been down since the last *)
(* due time; a recovery put off is one the caller still has to make.       *)
ScheduleTrue ==
  /\ gov.mqtt_down = Off => seen.down = Off
  /\ gov.mqtt_down # Off =>
       seen.down = Since(gov.mqtt_down, now) /\ seen.down \in 0 .. MqttDownRecover - 1
  /\ action = "recover" /\ ~isolated => seen.due
  /\ seen.put_off => suspended /\ mqtt_recover_pending

(* A mark moved on by whole periods leaves the remainder of the time since. *)
LEMMA MovedLeaves ==
  ASSUME NEW mark \in Int, NEW period \in Nat \ {0}, NEW t \in Int
  PROVE  /\ Since(Moved(mark, period, t), t) = Since(mark, t) % period
         /\ Since(mark, t) % period \in 0 .. period - 1
         /\ Since(mark, t) < period => Since(mark, t) % period = Since(mark, t)
<1> DEFINE s == Since(mark, t)
           whole == s \div period
           rest == s % period
<1>1. Wrap \in Nat \ {0} /\ t - mark \in Int
  BY CapsFit
<1>2. s \in 0 .. Wrap - 1
  BY <1>1, DivMod DEF Since
<1>3. /\ whole \in Int /\ rest \in 0 .. period - 1 /\ period * whole \in Int
      /\ s = period * whole + rest
  <2> HIDE DEF s
  <2>1. whole \in Int /\ rest \in 0 .. period - 1 /\ s = period * whole + rest
    BY <1>2, DivMod
  <2> HIDE DEF whole, rest
  <2> QED
    BY <1>2, <2>1
<1> HIDE DEF s, whole, rest
<1>4. CASE s >= period
  <2> DEFINE by == period * whole
  <2>1. by \in Int /\ s = by + rest
    BY <1>3
  <2>2. Moved(mark, period, t) = (mark + by) % Wrap
    BY <1>4 DEF Moved, Due, s, whole
  <2>3. (t - mark) % Wrap = s
    BY DEF Since, s
  <2> HIDE DEF by
  <2>4. rest = s - by /\ rest \in 0 .. Wrap - 1
    BY <1>1, <1>2, <1>3, <1>4, <2>1
  <2>5. (t - ((mark + by) % Wrap)) % Wrap = s - by
    <3>1. ((t - mark) % Wrap) - by \in 0 .. Wrap - 1
      BY <2>3, <2>4
    <3>2. by \in Int /\ Wrap \in Nat \ {0}
      BY <1>1, <2>1
    <3>3. (t - ((mark + by) % Wrap)) % Wrap = ((t - mark) % Wrap) - by
      BY <3>1, <3>2, MarkMoved, ZenonT(60)
    <3> QED
      BY <2>3, <3>3
  <2> QED
    BY <1>3, <1>4, <2>2, <2>4, <2>5 DEF Since, s, rest
<1>5. CASE s < period
  <2>1. s \in 0 .. period - 1
    BY <1>1, <1>2, <1>5
  <2>2. s % period = s
    BY <2>1, ModSmall
  <2>3. Moved(mark, period, t) = mark
    BY <1>2, <1>5 DEF Moved, Due, s
  <2> QED
    BY <1>3, <2>2, <2>3 DEF s
<1> QED
  BY <1>1, <1>2, <1>4, <1>5

(* What a poll does with the two clocks of the recoveries.                 *)
LEMMA PollRecoveries ==
  ASSUME gov \in Governors, NEW t \in Times, NEW mqtt_up \in BOOLEAN,
         NEW ready \in BOOLEAN, Poll(t, mqtt_up, ready)
  PROVE  /\ gov'.mqtt_down = IF ~mqtt_up /\ ~Gated(ready)
                             THEN Moved(MqttMark(t), MqttDownRecover, t) ELSE Off
         /\ ~isolated' =>
              (action' = "recover" => MqttDue(t, ~mqtt_up /\ ~Gated(ready)))
              /\ (MqttDue(t, ~mqtt_up /\ ~Gated(ready)) => action' = "recover")
         /\ isolated' /\ ~Gated(ready) =>
              /\ gov'.isolating.start = Episode(t).start
              /\ gov'.isolating.mark = Moved(Episode(t).mark, Episode(t).wait, t)
              /\ gov'.isolating.wait = IF Due(Episode(t).mark, Episode(t).wait, t)
                                       THEN RecoverRepeat ELSE Episode(t).wait
              /\ action' = IF Since(Episode(t).start, t) >= Threshold(gov.reboot_count)
                           THEN "reboot"
                           ELSE IF Due(Episode(t).mark, Episode(t).wait, t)
                           THEN "recover" ELSE "none"
         /\ isolated' /\ Gated(ready) => action' = "none"
<1> DEFINE counted == ~mqtt_up /\ ~Gated(ready)
           mark == IF counted THEN Moved(MqttMark(t), MqttDownRecover, t) ELSE Off
<1>1. counted \in BOOLEAN /\ FALSE \in BOOLEAN
  BY DEF Gated
<1>2. MqttClock(t, counted).mqtt_down = mark /\ MqttClock(t, FALSE).mqtt_down = Off
      /\ MqttClock(t, counted) \in Governors /\ MqttClock(t, FALSE) \in Governors
  <2> HIDE DEF counted
  <2>1. MqttClock(t, counted) \in Governors /\ MqttClock(t, FALSE) \in Governors
    BY <1>1, MqttClockType
  <2> QED
    BY <2>1 DEF MqttClock, Governors
<1>3. CASE ~isolated' /\ Connected(t, counted)
  <2>1. gov'.mqtt_down = mark
    <3> HIDE DEF mark, counted
    <3> QED
      BY <1>2, <1>3 DEF Connected, Governors
  <2>2. action' = IF MqttDue(t, counted) THEN "recover" ELSE "none"
    BY <1>3 DEF Connected
  <2> QED
    BY <1>3, <2>1, <2>2
<1>4. CASE isolated' /\ Gated(ready) /\ IsolatedGated(t)
  <2>1. gov'.mqtt_down = Off /\ action' = "none"
    BY <1>2, <1>4 DEF IsolatedGated, Governors
  <2> QED
    BY <1>4, <2>1
<1>5. CASE isolated' /\ ~Gated(ready) /\ IsolatedCounted(t, counted)
  <2> DEFINE episode == Episode(t)
             recover_due == Due(episode.mark, episode.wait, t)
             next == [episode EXCEPT !.mark = Moved(episode.mark, episode.wait, t),
                        !.wait = IF recover_due THEN RecoverRepeat ELSE @]
             reboot_due == Since(episode.start, t) >= Threshold(gov.reboot_count)
             count == IF reboot_due /\ gov.reboot_count < CountCap
                      THEN gov.reboot_count + 1 ELSE gov.reboot_count
  <2>1. episode \in Episodes
    BY EpisodeType
  <2>2. gov' = [MqttClock(t, counted) EXCEPT
                  !.healthy = Off, !.isolating = next, !.reboot_count = count]
    <3>1. MqttClock(t, counted).reboot_count = gov.reboot_count
      BY <1>1, MqttClockType
    <3> QED
      BY <1>2, <1>5, <3>1 DEF IsolatedCounted, Governors
  <2>3. gov'.mqtt_down = mark /\ gov'.isolating = next
    <3> HIDE DEF next, count, mark, counted
    <3> QED
      BY <1>2, <2>2 DEF Governors
  <2>4. /\ next.start = episode.start
        /\ next.mark = Moved(episode.mark, episode.wait, t)
        /\ next.wait = IF recover_due THEN RecoverRepeat ELSE episode.wait
    <3> HIDE DEF episode, recover_due
    <3> QED
      BY <2>1 DEF Episodes
  <2>5. action' = IF reboot_due THEN "reboot" ELSE IF recover_due THEN "recover" ELSE "none"
    BY <1>5 DEF IsolatedCounted
  <2> HIDE DEF next, count
  <2> QED
    BY <1>5, <2>3, <2>4, <2>5
<1> QED
  BY <1>3, <1>4, <1>5 DEF Poll

(* The time since a mark that does not reach the wrap in this pass.        *)
LEMMA SinceLater ==
  ASSUME NEW t \in Int, NEW mark \in Int, NEW gap \in 1 .. MaxGap, NEW limit \in Nat,
         limit + MaxGap <= Wrap, Since(mark, t) < limit
  PROVE  /\ Since(mark, (t + gap) % Wrap) = Since(mark, t) + gap
         /\ Since(mark, t) \in Nat
<1>1. Wrap \in Nat \ {0} /\ gap \in Nat /\ gap <= MaxGap /\ MaxGap \in Nat
  BY ClockAssumption, CapsFit
<1>2. Since(mark, t) \in Nat
  BY SinceType
<1>3. ((t - mark) % Wrap) + gap < Wrap
  <2> DEFINE s == Since(mark, t)
  <2>1. s \in Nat /\ s < limit
    BY <1>2
  <2> HIDE DEF s
  <2>2. s + gap < Wrap
    BY <1>1, <2>1
  <2> QED
    BY <2>2 DEF s, Since
<1>4. (((t + gap) % Wrap) - mark) % Wrap = ((t - mark) % Wrap) + gap
  BY <1>1, <1>3, SinceGrows, ZenonT(60)
<1> QED
  BY <1>2, <1>4 DEF Since

LEMMA PassTends ==
  ASSUME GovernorInv, TendedTrue, ScheduleTrue, Pass
  PROVE  TendedTrue' /\ ScheduleTrue'
<1>1. PICK gap \in 1 .. MaxGap, connected \in BOOLEAN, expected \in BOOLEAN :
        /\ isolated' \in IF connected THEN {FALSE} ELSE BOOLEAN
        /\ suspended' \in IF CanSuspend /\ ~connected THEN BOOLEAN ELSE {FALSE}
        /\ network_was_ready' \in {network_was_ready \/ connected, TRUE}
        /\ now' = (now + gap) % Wrap
        /\ Poll(now', connected \/ ~expected, network_was_ready')
        /\ Deferral(connected)
        /\ Watch(gap, connected, connected \/ ~expected, network_was_ready')
  BY DEF Pass
<1> DEFINE mqtt_up == connected \/ ~expected
           ready == network_was_ready'
           counts == ~Gated(ready)
           counted == ~mqtt_up /\ counts
           recovers == RecoversNow(connected)
           falls_due == /\ seen.down # Off /\ ~mqtt_up /\ counts
                        /\ seen.down + gap >= MqttDownRecover
<1>2. /\ gov \in Governors /\ gov.reboot_count \in 0 .. CountCap
      /\ now \in Int /\ now' \in Times /\ now' \in Int
      /\ pc = "loop" /\ action # "reboot" /\ (action' = "reboot" => pc' = "save")
  <2>1. gov \in Governors /\ now \in Times
    BY DEF GovernorInv, GovernorTypeOK, Governors, Episodes
  <2>2. now' \in Times
    <3>1. Wrap \in Nat \ {0} /\ now + gap \in Int
      BY <2>1, CapsFit DEF Times
    <3> QED
      BY <1>1, <3>1, DivMod DEF Times
  <2> QED
    BY <2>1, <2>2 DEF Pass, TendedTrue, Times, Governors
<1>3. ready \in BOOLEAN /\ mqtt_up \in BOOLEAN /\ counts \in BOOLEAN /\ counted \in BOOLEAN
      /\ isolated' \in BOOLEAN
  BY <1>1 DEF GovernorInv, GovernorTypeOK, Gated
<1>4. /\ gov'.mqtt_down = IF counted THEN Moved(MqttMark(now'), MqttDownRecover, now') ELSE Off
      /\ ~isolated' => (action' = "recover" => MqttDue(now', counted))
                       /\ (MqttDue(now', counted) => action' = "recover")
      /\ isolated' /\ counts =>
           /\ gov'.isolating.start = Episode(now').start
           /\ gov'.isolating.mark = Moved(Episode(now').mark, Episode(now').wait, now')
           /\ gov'.isolating.wait = IF Due(Episode(now').mark, Episode(now').wait, now')
                                    THEN RecoverRepeat ELSE Episode(now').wait
           /\ action' = IF Since(Episode(now').start, now') >= Threshold(gov.reboot_count)
                        THEN "reboot"
                        ELSE IF Due(Episode(now').mark, Episode(now').wait, now')
                        THEN "recover" ELSE "none"
      /\ gov'.isolating # NoEpisode => isolated' /\ counts
  <2>1. Poll(now', mqtt_up, ready)
    BY <1>1
  <2> HIDE DEF mqtt_up, ready
  <2>2. HealthyPoll(now') \/ GatedPoll \/ (IsolatedPoll(now') /\ ~Gated(ready))
    BY <1>2, <1>3, <2>1, PollOutcomes
  <2>3. gov'.isolating # NoEpisode => isolated' /\ ~Gated(ready)
    BY <2>2 DEF HealthyPoll, GatedPoll, IsolatedPoll
  <2> QED
    BY <1>2, <1>3, <2>1, <2>3, PollRecoveries
<1>5. /\ isolated' /\ counts => seen'.outage = Lasts(seen.outage, gap, LaterReboot)
      /\ seen'.unattended = IF Off \in {seen'.outage, seen.outage} \/ recovers THEN 0
                            ELSE seen.unattended + gap
      /\ seen'.tended = (seen'.outage # Off /\ (recovers \/ (seen.tended /\ seen.outage # Off)))
      /\ counted => seen'.down = IF falls_due THEN (seen.down + gap) % MqttDownRecover
                                 ELSE Lasts(seen.down, gap, MqttDownRecover)
      /\ ~counted => seen'.down = Off
      /\ seen'.due = falls_due
      /\ seen'.put_off =
           ((seen.put_off \/ (falls_due /\ ~isolated')) /\ ~recovers /\ ~connected)
  <2>1. /\ seen'.outage = Grown(seen.outage, isolated' /\ counts, gap, LaterReboot)
        /\ seen'.unattended = IF Off \in {seen'.outage, seen.outage} \/ recovers THEN 0
                              ELSE seen.unattended + gap
        /\ seen'.tended =
             (seen'.outage # Off /\ (recovers \/ (seen.tended /\ seen.outage # Off)))
        /\ seen'.down = IF falls_due THEN (seen.down + gap) % MqttDownRecover
                        ELSE Grown(seen.down, ~mqtt_up /\ counts, gap, MqttDownRecover)
        /\ seen'.due = falls_due
        /\ seen'.put_off =
             ((seen.put_off \/ (falls_due /\ ~isolated')) /\ ~recovers /\ ~connected)
    BY <1>1 DEF Watch
  <2>2. /\ isolated' /\ counts =>
             Grown(seen.outage, isolated' /\ counts, gap, LaterReboot)
               = Lasts(seen.outage, gap, LaterReboot)
        /\ counted => Grown(seen.down, ~mqtt_up /\ counts, gap, MqttDownRecover)
                        = Lasts(seen.down, gap, MqttDownRecover)
        /\ ~counted => Grown(seen.down, ~mqtt_up /\ counts, gap, MqttDownRecover) = Off
    BY DEF Grown, Lasts
  <2>3. ~counted => ~falls_due
    OBVIOUS
  <2> HIDE DEF recovers, falls_due, mqtt_up, counts
  <2> QED
    BY <2>1, <2>2, <2>3
<1>6. /\ gap \in Nat /\ gap >= 1 /\ gap <= MaxGap /\ MaxGap \in Nat /\ Wrap \in Nat \ {0}
      /\ MqttDownRecover \in Nat \ {0} /\ MqttDownRecover + MaxGap <= Wrap
      /\ RecoverAfter \in Nat \ {0} /\ RecoverRepeat \in Nat \ {0}
      /\ RecoverAfter <= RecoverRepeat /\ RecoverRepeat + MaxGap <= Wrap
      /\ LaterReboot \in Nat \ {0} /\ LaterReboot + MaxGap < Wrap
  BY ClockAssumption, LadderAssumption
<1>7. Threshold(gov.reboot_count) \in Nat /\ Threshold(gov.reboot_count) <= LaterReboot
  BY <1>2, ThresholdGrows
<1>8. ASSUME isolated', action' = "recover" PROVE recovers
  BY <1>8 DEF RecoversNow, WaitsForResume
<1> HIDE DEF recovers
<1>9. TendedTrue'
  <2> SUFFICES ASSUME gov'.isolating # NoEpisode, action' # "reboot"
               PROVE  /\ Since(gov'.isolating.mark, now') < gov'.isolating.wait
                      /\ seen'.unattended \in 0 .. Since(gov'.isolating.mark, now')
                      /\ seen'.outage < LaterReboot
                      /\ \/ seen'.tended
                         \/ /\ gov'.isolating.mark = gov'.isolating.start
                            /\ gov'.isolating.wait = RecoverAfter
    BY <1>2, Zenon DEF TendedTrue
  <2> DEFINE e == Episode(now')
             due == Due(e.mark, e.wait, now')
  <2>1. /\ isolated' /\ counts
        /\ gov'.isolating.start = e.start
        /\ gov'.isolating.mark = Moved(e.mark, e.wait, now')
        /\ gov'.isolating.wait = IF due THEN RecoverRepeat ELSE e.wait
        /\ Since(e.start, now') < Threshold(gov.reboot_count)
        /\ due => recovers
        /\ seen'.outage = Lasts(seen.outage, gap, LaterReboot)
    <3>1. isolated' /\ counts
      BY <1>4
    <3>2. Since(e.start, now') \in Int
      <4>1. e.start \in Int /\ now' \in Int
        BY <1>2, EpisodeType DEF Episodes, Times
      <4> HIDE DEF e
      <4>2. Since(e.start, now') \in 0 .. Wrap - 1
        BY <4>1, SinceType
      <4> QED
        BY <1>6, <4>2
    <3>3. Since(e.start, now') < Threshold(gov.reboot_count)
      BY <1>4, <1>7, <3>1, <3>2
    <3> QED
      BY <1>4, <1>5, <1>8, <3>1, <3>2, <3>3, <1>7
  <2>2. e \in Episodes /\ e.mark \in Int /\ e.start \in Int /\ e.wait \in Nat \ {0}
        /\ e.wait <= RecoverRepeat
    BY <1>2, <1>6, EpisodeType DEF Episodes, Times
  <2>3. /\ Since(gov'.isolating.mark, now') = Since(e.mark, now') % e.wait
        /\ Since(e.mark, now') % e.wait \in 0 .. e.wait - 1
        /\ Since(e.mark, now') < e.wait => Since(e.mark, now') % e.wait = Since(e.mark, now')
        /\ Since(e.mark, now') \in Nat
    <3> HIDE DEF e
    <3>1. e.mark \in Int /\ now' \in Int /\ e.wait \in Nat \ {0}
      BY <1>2, <2>2
    <3>2. Since(e.mark, now') \in Nat
      <4>1. Since(e.mark, now') \in 0 .. Wrap - 1
        BY <3>1, SinceType
      <4> QED
        BY <1>6, <4>1
    <3>3. /\ Since(Moved(e.mark, e.wait, now'), now') = Since(e.mark, now') % e.wait
          /\ Since(e.mark, now') % e.wait \in 0 .. e.wait - 1
          /\ Since(e.mark, now') < e.wait
               => Since(e.mark, now') % e.wait = Since(e.mark, now')
      BY <3>1, MovedLeaves
    <3> QED
      BY <2>1, <3>2, <3>3
  <2>4. ~due => gov'.isolating.mark = e.mark /\ Since(e.mark, now') < e.wait
    BY <2>1, <2>2, <2>3 DEF Moved, Due
  <2>5. CASE gov.isolating = NoEpisode
    <3>1. e = [start |-> now', mark |-> now', wait |-> RecoverAfter]
      BY <2>5 DEF Episode
    <3>2. Since(e.mark, now') = 0
      <4>1. Wrap \in Nat \ {0} /\ now' \in Int /\ e.mark = now'
        BY <1>2, <1>6, <3>1
      <4>2. (now' - now') % Wrap = 0
        BY <4>1, SinceNow
      <4> QED
        BY <4>1, <4>2 DEF Since
    <3>3. seen.outage = Off /\ seen'.outage = 0
      BY <2>1, <2>5 DEF GovernorInv, MarksTrue, Lasts
    <3>4. ~due
      BY <2>2, <3>2 DEF Due
    <3>5. seen'.unattended = 0
      BY <1>5, <3>3
    <3> QED
      BY <1>6, <2>1, <2>2, <2>4, <3>1, <3>2, <3>3, <3>4, <3>5
  <2>6. CASE gov.isolating # NoEpisode
    <3>1. e = gov.isolating
      BY <2>6 DEF Episode
    <3>2. /\ Since(e.mark, now) < e.wait
          /\ seen.unattended \in 0 .. Since(e.mark, now)
          /\ seen.outage < LaterReboot
          /\ seen.tended \/ (e.mark = e.start /\ e.wait = RecoverAfter)
      BY <1>2, <2>6, <3>1 DEF TendedTrue
    <3>3. Keeps(seen.outage, e.start, now, LaterReboot)
      BY <2>6, <3>1 DEF GovernorInv, MarksTrue
    <3> HIDE DEF e
    <3>4. Since(e.mark, now') = Since(e.mark, now) + gap /\ Since(e.mark, now) \in Nat
      <4>1. e.wait \in Nat /\ e.wait + MaxGap <= Wrap
        BY <1>6, <2>2
      <4> QED
        BY <1>1, <1>2, <2>2, <3>2, <4>1, SinceLater
    <3>5. /\ Since(e.start, now') = seen.outage + gap /\ seen.outage \in Nat
          /\ seen'.outage = seen.outage + gap /\ seen'.outage < LaterReboot
      <4>1. Since(e.start, now') = seen.outage + gap
        BY <1>1, <1>2, <1>6, <2>2, <3>2, <3>3, KeepsUp
      <4>2. seen.outage \in Nat
        BY <3>3 DEF Keeps
      <4> QED
        BY <1>6, <1>7, <2>1, <4>1, <4>2 DEF Lasts, Off
    <3>6. seen'.unattended = IF recovers THEN 0 ELSE seen.unattended + gap
      BY <1>5, <1>6, <3>5 DEF Off
    <3>7. recovers \/ seen.tended => seen'.tended
      <4>1. seen'.outage # Off /\ seen.outage # Off
        BY <1>6, <3>5 DEF Off
      <4> QED
        BY <1>5, <4>1, Zenon
    <3>8. CASE due
      <4>1. recovers /\ gov'.isolating.wait = RecoverRepeat /\ seen'.unattended = 0
        BY <2>1, <3>6, <3>8
      <4> QED
        BY <1>6, <2>2, <2>3, <3>5, <3>7, <4>1
    <3>9. CASE ~due
      <4>1. seen'.unattended \in 0 .. Since(e.mark, now')
        BY <1>6, <3>2, <3>4, <3>6
      <4> QED
        BY <2>1, <2>4, <3>2, <3>5, <3>7, <3>9, <4>1
    <3> QED
      BY <3>8, <3>9
  <2> QED
    BY <2>5, <2>6
<1>10. ScheduleTrue'
  <2> DEFINE mark == MqttMark(now')
             after == Since(mark, now')
             down == seen.down + gap
  <2>1. /\ mark \in Times /\ mark \in Int /\ after \in Nat
    <3>1. mark \in Times
      BY <1>2 DEF MqttMark, Governors
    <3>2. mark \in Int
      BY <3>1 DEF Times
    <3> HIDE DEF mark
    <3> QED
      BY <1>2, <3>1, <3>2, SinceType
  <2>2. IF gov.mqtt_down = Off THEN after = 0 /\ seen.down = Off
        ELSE after = down /\ seen.down \in Nat /\ seen.down # Off
    <3>1. CASE gov.mqtt_down = Off
      BY <1>2, <1>6, <3>1, SinceNow DEF MqttMark, Since, ScheduleTrue
    <3>2. CASE gov.mqtt_down # Off
      <4>1. mark = gov.mqtt_down
        BY <3>2 DEF MqttMark
      <4>2. seen.down = Since(mark, now) /\ seen.down \in 0 .. MqttDownRecover - 1
        BY <3>2, <4>1 DEF ScheduleTrue
      <4> HIDE DEF mark
      <4>3. Since(mark, now) < MqttDownRecover
        BY <1>6, <4>2
      <4>4. Since(mark, now') = Since(mark, now) + gap
        BY <1>1, <1>2, <1>6, <2>1, <4>3, SinceLater
      <4> QED
        BY <3>2, <4>2, <4>4 DEF Off
    <3> QED
      BY <3>1, <3>2
  <2> HIDE DEF mark, after
  <2>3. falls_due <=> counted /\ after >= MqttDownRecover
    BY <1>6, <2>2 DEF Off
  <2>4. counted => /\ gov'.mqtt_down \in Times /\ gov'.mqtt_down # Off
                   /\ Since(gov'.mqtt_down, now') = seen'.down
                   /\ seen'.down \in 0 .. MqttDownRecover - 1
    <3> SUFFICES ASSUME counted
                 PROVE  /\ gov'.mqtt_down \in Times /\ gov'.mqtt_down # Off
                        /\ Since(gov'.mqtt_down, now') = seen'.down
                        /\ seen'.down \in 0 .. MqttDownRecover - 1
      OBVIOUS
    <3>1. gov'.mqtt_down = Moved(mark, MqttDownRecover, now')
      BY <1>4 DEF mark
    <3>2. gov'.mqtt_down \in Times /\ gov'.mqtt_down # Off
      <4>1. Moved(mark, MqttDownRecover, now') \in Times
        BY <1>2, <1>6, <2>1, MovedType
      <4> QED
        BY <3>1, <4>1 DEF Times, Off
    <3>3. /\ Since(gov'.mqtt_down, now') = after % MqttDownRecover
          /\ after % MqttDownRecover \in 0 .. MqttDownRecover - 1
          /\ after < MqttDownRecover => after % MqttDownRecover = after
      BY <1>2, <1>6, <2>1, <3>1, MovedLeaves DEF after
    <3>4. seen'.down = after % MqttDownRecover
      <4>1. CASE falls_due
        <5>1. seen'.down = (seen.down + gap) % MqttDownRecover
          BY <1>5, <4>1
        <5>2. after = seen.down + gap
          BY <1>6, <2>2, <2>3, <4>1
        <5> QED
          BY <5>1, <5>2
      <4>2. CASE ~falls_due
        <5>1. after < MqttDownRecover /\ seen'.down = Lasts(seen.down, gap, MqttDownRecover)
          BY <1>5, <1>6, <2>1, <2>3, <4>2
        <5>2. seen'.down = after
          BY <1>6, <2>2, <5>1 DEF Lasts, Off
        <5> QED
          BY <3>3, <5>1, <5>2
      <4> QED
        BY <4>1, <4>2
    <3> QED
      BY <3>2, <3>3, <3>4
  <2>5. ~counted => gov'.mqtt_down = Off /\ seen'.down = Off
    BY <1>4, <1>5
  <2>6. ~isolated' /\ action' = "recover" => seen'.due
    <3>1. MqttDue(now', counted) => falls_due
      BY <2>3 DEF MqttDue, Due, mark, after
    <3> QED
      BY <1>4, <1>5, <3>1
  <2>7. seen'.put_off => suspended' /\ mqtt_recover_pending'
    <3> SUFFICES ASSUME seen'.put_off PROVE suspended' /\ mqtt_recover_pending'
      OBVIOUS
    <3>1. ~recovers /\ ~connected /\ (seen.put_off \/ (falls_due /\ ~isolated'))
      BY <1>5
    <3>2. CASE seen.put_off
      BY <1>1, <3>1, <3>2, Zenon DEF ScheduleTrue, recovers, RecoversNow, Deferral
    <3>3. CASE falls_due /\ ~isolated'
      <4>1. MqttDue(now', counted)
        BY <2>3, <3>3 DEF MqttDue, Due, mark, after
      <4>2. action' = "recover"
        BY <1>4, <3>3, <4>1
      <4> QED
        BY <1>1, <3>1, <3>3, <4>2, Zenon DEF recovers, RecoversNow, Deferral, WaitsForResume
    <3> QED
      BY <3>1, <3>2, <3>3
  <2> QED
    BY <2>4, <2>5, <2>6, <2>7 DEF ScheduleTrue
<1> QED
  BY <1>9, <1>10

(* What is kept where nothing that is polled changes, and what a boot has. *)
LEMMA TendStart == Init => TendedTrue /\ ScheduleTrue
  BY DEF Init, NewGovernor, NothingSeen, TendedTrue, ScheduleTrue

LEMMA TendStep ==
  GovernorInv /\ TendedTrue /\ ScheduleTrue /\ [Next]_vars => TendedTrue' /\ ScheduleTrue'
<1> SUFFICES ASSUME GovernorInv, TendedTrue, ScheduleTrue, [Next]_vars
             PROVE  TendedTrue' /\ ScheduleTrue'
  OBVIOUS
<1>1. CASE Pass
  BY <1>1, PassTends
<1>2. CASE Save
  <2>1. TendedTrue'
    BY <1>2 DEF Save, TendedTrue, Since
  <2>2. ScheduleTrue'
    BY <1>2 DEF Save, ScheduleTrue, Since
  <2> QED
    BY <2>1, <2>2
<1>3. CASE Boot
  BY <1>3 DEF Boot, NewGovernor, NothingSeen, TendedTrue, ScheduleTrue
<1>4. CASE UNCHANGED vars
  <2>1. TendedTrue'
    BY <1>4 DEF vars, TendedTrue, Since
  <2>2. ScheduleTrue'
    BY <1>4 DEF vars, ScheduleTrue, Since
  <2> QED
    BY <2>1, <2>2
<1> QED
  BY <1>1, <1>2, <1>3, <1>4 DEF Next, Device, Restart, LosePower

LEMMA TendHolds == Spec => [](GovernorInv /\ TendedTrue /\ ScheduleTrue)
<1>1. Init => GovernorInv /\ TendedTrue /\ ScheduleTrue
  BY StartInv, TendStart
<1>2. GovernorInv /\ TendedTrue /\ ScheduleTrue /\ [Next]_vars
        => (GovernorInv /\ TendedTrue /\ ScheduleTrue)'
  BY GovernorStep, TendStep
<1> QED
  BY <1>1, <1>2, PTL DEF Spec

(* A counted isolation has its first recovery after the first wait and is  *)
(* never left alone for a repeat: not over the wrap of the clock, however  *)
(* the passes are spaced, and whatever share of the waits a late pass used *)
(* up at once.                                                             *)
THEOREM OutageAlwaysTended == Spec => []OutageTended
<1>1. GovernorInv /\ TendedTrue => OutageTended
  <2> SUFFICES ASSUME GovernorInv, TendedTrue, seen.outage # Off, action # "reboot"
               PROVE  /\ seen.unattended < RecoverRepeat
                      /\ seen.outage >= RecoverAfter => seen.tended
    BY DEF OutageTended
  <2>1. /\ gov.isolating \in Episodes /\ gov.isolating # NoEpisode
        /\ now \in Int /\ gov.isolating.mark \in Int
    BY DEF GovernorInv, GovernorTypeOK, MarksTrue, Episodes, Times
  <2> DEFINE age == Since(gov.isolating.mark, now)
  <2>2. /\ age < gov.isolating.wait /\ seen.unattended \in 0 .. age
        /\ seen.outage < LaterReboot
        /\ seen.tended \/ ( /\ gov.isolating.mark = gov.isolating.start
                            /\ gov.isolating.wait = RecoverAfter)
    BY <2>1 DEF TendedTrue
  <2>3. age \in Nat
    <3>1. age \in 0 .. Wrap - 1
      BY <2>1, SinceType
    <3> QED
      BY <3>1, CapsFit
  <2>4. seen.outage = Since(gov.isolating.start, now)
    BY <2>1, <2>2, CapsFit DEF GovernorInv, MarksTrue, Keeps
  <2>5. RecoverAfter \in Nat /\ RecoverRepeat \in Nat /\ RecoverAfter <= RecoverRepeat
        /\ gov.isolating.wait \in {RecoverAfter, RecoverRepeat}
    BY <2>1, LadderAssumption DEF Episodes
  <2> HIDE DEF age
  <2>6. seen.unattended < RecoverRepeat
    BY <2>2, <2>3, <2>5
  <2>7. ASSUME seen.outage >= RecoverAfter PROVE seen.tended
    <3>1. ASSUME gov.isolating.mark = gov.isolating.start, gov.isolating.wait = RecoverAfter
          PROVE  FALSE
      BY <2>2, <2>3, <2>4, <2>5, <2>7, <3>1 DEF age
    <3> QED
      BY <2>2, <3>1
  <2> QED
    BY <2>6, <2>7
<1> QED
  BY <1>1, TendHolds, PTL

(* MQTT down with the other device linked: a recovery exactly at the due   *)
(* times counted from when it went down, never at another, and put off     *)
(* only by a suspended WiFi.                                               *)
THEOREM MqttDownAlwaysOnSchedule == Spec => []MqttDownSchedule
<1>1. ScheduleTrue => MqttDownSchedule
  BY DEF ScheduleTrue, MqttDownSchedule
<1> QED
  BY <1>1, TendHolds, PTL
=============================================================================
