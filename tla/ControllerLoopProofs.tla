------------------------- MODULE ControllerLoopProofs -------------------------
(***************************************************************************)
(* What holds of the controller for every clock width, every timer and     *)
(* interlock setting and every bound: first of the decision core           *)
(* (HvacRuntime), then of a loop pass with the relay layer behind it.      *)
(***************************************************************************)
EXTENDS ControllerLoop, FiniteSetTheorems, ClockLemmas

(* A remainder is below the modulus. *)
LEMMA ModRange == \A a \in Int, b \in Nat \ {0} : a % b \in 0 .. b - 1
  OBVIOUS

LEMMA DivNat == \A a \in Nat, b \in Nat \ {0} : a \div b \in Nat
  OBVIOUS

LEMMA SinceType == \A t0 \in Times, t1 \in Times : Since(t0, t1) \in Times
  BY ModRange, ClockAssumption DEF Times, Since

LEMMA SinceNat == \A t0 \in Times, t1 \in Times : Since(t0, t1) \in Nat
<1>1. Times \subseteq Nat
  BY ClockAssumption DEF Times
<1> QED
  BY <1>1, SinceType

LEMMA SinceZero == \A t \in Times : Since(t, t) = 0
<1>1. Times \subseteq Int /\ Wrap \in Nat \ {0}
  BY ClockAssumption DEF Times
<1> QED
  BY <1>1, SinceNow DEF Since

(* Caps stay within their bound. *)
LEMMA CapTypes ==
  /\ \A n \in Nat : CapAge(n) \in Ages
  /\ \A n \in Nat : CapFilter(n) \in 0 .. FilterCap
  BY BoundAssumption DEF CapAge, CapFilter, Ages

(* The equipment state stays well typed through apply_hvac_calls. *)
LEMMA ApplyType ==
  ASSUME TypeOK, now' \in Times, NEW calls \in SUBSET Equipment, ApplyHvacCalls(calls)
  PROVE  /\ hvac_state' \in {"idle"} \union Equipment
         /\ hvac_state_since' \in Times
         /\ last_off' \in [Equipment -> Times \union {Never}]
         /\ equipment_delay' \in BOOLEAN
         /\ on' \subseteq Equipment
         /\ max_runtime_exceeded' \in BOOLEAN
<1> USE DEF TypeOK, Equipment
<1>1. CASE UnsafeTick
  BY <1>1 DEF UnsafeTick, EnterIdle
<1>2. ASSUME NEW e \in Equipment, RunningTick(e, calls)
      PROVE  /\ hvac_state' \in {"idle"} \union Equipment
             /\ hvac_state_since' \in Times
             /\ last_off' \in [Equipment -> Times \union {Never}]
             /\ equipment_delay' \in BOOLEAN
             /\ on' \subseteq Equipment
             /\ max_runtime_exceeded' \in BOOLEAN
  BY <1>2 DEF RunningTick, EnterIdle
<1>3. CASE IdleTick(calls)
  BY <1>3 DEF IdleTick, EnterRun
<1> QED
  BY <1>1, <1>2, <1>3 DEF ApplyHvacCalls

(* The fan, the minute counter and the filter counter stay well typed. *)
LEMMA MinuteType ==
  ASSUME TypeOK, now' \in Times, RunMinuteTasks
  PROVE  /\ fan' \in BOOLEAN
         /\ fan_circulate_elapsed' \in 0 .. CirculateCycle - 1
         /\ last_minute_tick' \in Times
         /\ filter_minutes' \in 0 .. FilterCap
<1> DEFINE minutes == IF last_minute_tick # 0
                      THEN Since(last_minute_tick, now') \div MinuteTicks ELSE 0
<1>1. minutes \in Nat
  <2>1. Since(last_minute_tick, now') \in Nat
    BY SinceType DEF TypeOK, Times
  <2> QED
    BY <2>1, DivNat, ClockAssumption
<1>2. last_minute_tick' \in Times
  <2>1. last_minute_tick + minutes * MinuteTicks \in Int
    BY <1>1, ClockAssumption DEF TypeOK, Times
  <2>2. (last_minute_tick + minutes * MinuteTicks) % Wrap \in Times
    BY <2>1, ModRange, ClockAssumption DEF Times
  <2> QED
    BY <2>2 DEF RunMinuteTasks
<1>3. fan_circulate_elapsed' \in 0 .. CirculateCycle - 1
  <2>1. fan_circulate_elapsed + minutes \in Int
    BY <1>1 DEF TypeOK
  <2>2. (fan_circulate_elapsed + minutes) % CirculateCycle \in 0 .. CirculateCycle - 1
    BY <2>1, ModRange, CirculateAssumption
  <2> QED
    BY <2>2, CirculateAssumption DEF RunMinuteTasks, TypeOK
<1>4. filter_minutes' \in 0 .. FilterCap
  <2>1. ASSUME NEW S \in SUBSET (1 .. minutes)
        PROVE  CapFilter(filter_minutes + Cardinality(S)) \in 0 .. FilterCap
    <3>1. IsFiniteSet(1 .. minutes)
      BY <1>1, FS_Interval
    <3>2. IsFiniteSet(S)
      BY <3>1, FS_Subset
    <3>3. Cardinality(S) \in Nat
      BY <3>2, FS_CardinalityType
    <3> QED
      BY <3>3, CapTypes, BoundAssumption DEF TypeOK
  <2> QED
    BY <2>1 DEF RunMinuteTasks
<1>5. fan' \in BOOLEAN
  BY DEF RunMinuteTasks
<1> QED
  BY <1>2, <1>3, <1>4, <1>5

(* The recorded history stays within its bounds. *)
LEMMA RecordType ==
  ASSUME TypeOK, NEW d \in Nat, NEW beat \in BOOLEAN, RecordTick(d, beat)
  PROVE  /\ rest' \in [Equipment -> Ages] /\ run' \in Ages /\ silence' \in Ages
         /\ cut' \subseteq Equipment
<1>1. \A a \in Ages : CapAge(a + d) \in Ages
  BY CapTypes DEF Ages
<1>2. 0 \in Ages
  BY BoundAssumption DEF Ages
<1> QED
  BY <1>1, <1>2 DEF TypeOK, RecordTick

(* Typed at the start, and after every step. *)
LEMMA TypeInit == Init => TypeOK
<1>1. 0 \in Times /\ 0 \in 0 .. CirculateCycle - 1 /\ 0 \in 0 .. FilterCap
      /\ 0 \in 0 .. MaxReboots /\ 0 \in Ages /\ AgeCap \in Ages
  BY ClockAssumption, CirculateAssumption, BoundAssumption DEF Times, Ages
<1> QED
  BY <1>1, BoundAssumption DEF Init, TypeOK

LEMMA TypeStep == TypeOK /\ [Next]_vars => TypeOK'
<1> SUFFICES ASSUME TypeOK, [Next]_vars
             PROVE  TypeOK'
  OBVIOUS
<1>1. ASSUME NEW d \in TickSteps, NEW beat \in Beats, NEW demand \in Demands,
             Tick(d, beat, demand)
      PROVE  TypeOK'
  <2>1. now' \in Times
    BY <1>1, ModRange, ClockAssumption DEF Tick, TypeOK, Times
  <2>2. AdmittedCalls(demand) \in SUBSET Equipment
    BY DEF AdmittedCalls, Calls
  <2>3. d \in Nat /\ beat \in BOOLEAN
    BY ClockAssumption, BoundAssumption
  <2>4. ApplyHvacCalls(AdmittedCalls(demand)) /\ RunMinuteTasks /\ RecordTick(d, beat)
    BY <1>1 DEF Tick
  <2>5. /\ hvac_state' \in {"idle"} \union Equipment
        /\ hvac_state_since' \in Times
        /\ last_off' \in [Equipment -> Times \union {Never}]
        /\ equipment_delay' \in BOOLEAN
        /\ on' \subseteq Equipment
        /\ max_runtime_exceeded' \in BOOLEAN
    BY <2>1, <2>2, <2>4, ApplyType
  <2>6. /\ fan' \in BOOLEAN
        /\ fan_circulate_elapsed' \in 0 .. CirculateCycle - 1
        /\ last_minute_tick' \in Times
        /\ filter_minutes' \in 0 .. FilterCap
    BY <2>1, <2>4, MinuteType
  <2>7. /\ rest' \in [Equipment -> Ages] /\ run' \in Ages /\ silence' \in Ages
        /\ cut' \subseteq Equipment
    BY <2>3, <2>4, RecordType
  <2>8. heartbeat_last_seen' \in Times /\ failsafe_active' \in BOOLEAN
    BY <1>1, <2>1 DEF Tick, TypeOK
  <2> QED
    BY <1>1, <2>1, <2>5, <2>6, <2>7, <2>8 DEF Tick, TypeOK, userVars
<1>2. ASSUME NEW m \in Modes, NEW f \in FanInputs, NEW reset \in BOOLEAN,
             ApplyCommand(m, f, reset)
      PROVE  TypeOK'
  BY <1>2, BoundAssumption
     DEF ApplyCommand, TypeOK, clockVars, equipmentVars, fanVars, historyVars
<1>3. ASSUME NEW locked \in BOOLEAN, SetHvacLockout(locked)
      PROVE  TypeOK'
  BY <1>3, BoundAssumption DEF SetHvacLockout, TypeOK, clockVars, Ages
<1>4. ASSUME NEW open \in BOOLEAN, SetWindowsOpen(open)
      PROVE  TypeOK'
  BY <1>4 DEF SetWindowsOpen, TypeOK, clockVars, equipmentVars, fanVars, historyVars
<1>5. ASSUME NEW c \in CirculateConfigs, SetCirculate(c)
      PROVE  TypeOK'
  BY <1>5 DEF SetCirculate, TypeOK, clockVars, equipmentVars, fanVars, historyVars
<1>6. CASE OnIndoorTemperature
  BY <1>6
     DEF OnIndoorTemperature, TypeOK, clockVars, userVars, equipmentVars, fanVars, historyVars
<1>7. ASSUME NEW m \in Modes, NEW f \in FanInputs, Reboot(m, f)
      PROVE  TypeOK'
  <2>1. 0 \in Times /\ 0 \in 0 .. CirculateCycle - 1 /\ 0 \in Ages
    BY ClockAssumption, CirculateAssumption, BoundAssumption DEF Times, Ages
  <2>2. reboots' \in 0 .. MaxReboots /\ filter_minutes' \in 0 .. FilterCap
    BY <1>7, BoundAssumption DEF Reboot, TypeOK
  <2> QED
    BY <1>7, <2>1, <2>2, BoundAssumption DEF Reboot, TypeOK
<1>8. CASE NoteHeartbeat
  BY <1>8, BoundAssumption
     DEF NoteHeartbeat, TypeOK, Ages, userVars, equipmentVars, fanVars
<1>9. CASE UNCHANGED vars
  BY <1>9 DEF vars, TypeOK, clockVars, userVars, equipmentVars, fanVars, historyVars
<1> QED
  BY <1>1, <1>2, <1>3, <1>4, <1>5, <1>6, <1>7, <1>8, <1>9 DEF Next, SomeTick

(* Type correctness: every variable stays in its range, whatever the clock *)
(* width, so in particular across the wrap of millis().                    *)
THEOREM TypeCorrect == Spec => []TypeOK
  BY TypeInit, TypeStep, PTL DEF Spec

-----------------------------------------------------------------------------
(* The inductive form of the relay safety: each conjunct is needed by the  *)
(* others.  A run that goes on leaves both flags as they were, so they     *)
(* must already be down (FlagsOnlyAtRest); a tick under failsafe clears    *)
(* the relays through the state it leaves, so the two must agree           *)
(* (RelaysFollowState).                                                    *)
RelayInv == RelaysSafe /\ FlagsOnlyAtRest

LEMMA RelayStep == TypeOK /\ RelayInv /\ [Next]_vars => RelayInv'
<1> SUFFICES ASSUME TypeOK, RelayInv, [Next]_vars
             PROVE  RelayInv'
  OBVIOUS
<1> USE DEF RelayInv, RelaysSafe, RelaysFollowState, FanYields, NothingWhenUnsafe,
            FlagsOnlyAtRest
<1>1. ASSUME NEW d \in TickSteps, NEW beat \in Beats, NEW demand \in Demands,
             Tick(d, beat, demand)
      PROVE  RelayInv'
  <2> DEFINE calls == AdmittedCalls(demand)
  <2>1. ApplyHvacCalls(calls)
    BY <1>1 DEF Tick
  <2>2. /\ on' = {hvac_state'} \ {"idle"}
        /\ Unsafe' => on' = {}
        /\ equipment_delay' \/ max_runtime_exceeded' => on' = {}
    <3>1. CASE Unsafe' /\ UnsafeTick
      BY <3>1 DEF UnsafeTick, EnterIdle
    <3>2. ASSUME ~Unsafe', NEW e \in Equipment, RunningTick(e, calls)
          PROVE  /\ on' = {hvac_state'} \ {"idle"}
                 /\ equipment_delay' \/ max_runtime_exceeded' => on' = {}
      <4>1. hvac_state = e /\ on = {e}
        BY <3>2 DEF RunningTick, Equipment
      <4>2. ~equipment_delay /\ ~max_runtime_exceeded
        BY <4>1
      <4> QED
        BY <3>2, <4>1, <4>2 DEF RunningTick, EnterIdle, Equipment
    <3>3. CASE ~Unsafe' /\ IdleTick(calls)
      BY <3>3 DEF IdleTick, EnterRun
    <3> QED
      BY <2>1, <3>1, <3>2, <3>3 DEF ApplyHvacCalls
  <2>3. fan' => ~Unsafe' /\ on' = {}
    BY <1>1 DEF Tick, RunMinuteTasks
  <2> QED
    BY <2>2, <2>3
<1>2. ASSUME NEW m \in Modes, NEW f \in FanInputs, NEW reset \in BOOLEAN,
             ApplyCommand(m, f, reset)
      PROVE  RelayInv'
  BY <1>2 DEF ApplyCommand, Unsafe, clockVars, equipmentVars, fanVars
<1>3. ASSUME NEW locked \in BOOLEAN, SetHvacLockout(locked)
      PROVE  RelayInv'
  BY <1>3 DEF SetHvacLockout, Unsafe, clockVars
<1>4. ASSUME NEW open \in BOOLEAN, SetWindowsOpen(open)
      PROVE  RelayInv'
  BY <1>4 DEF SetWindowsOpen, Unsafe, clockVars, equipmentVars, fanVars
<1>5. ASSUME NEW c \in CirculateConfigs, SetCirculate(c)
      PROVE  RelayInv'
  BY <1>5 DEF SetCirculate, Unsafe, clockVars, equipmentVars, fanVars
<1>6. CASE OnIndoorTemperature
  BY <1>6 DEF OnIndoorTemperature, Unsafe, clockVars, userVars, equipmentVars, fanVars
<1>7. ASSUME NEW m \in Modes, NEW f \in FanInputs, Reboot(m, f)
      PROVE  RelayInv'
  BY <1>7 DEF Reboot, Unsafe
<1>8. CASE NoteHeartbeat
  BY <1>8 DEF NoteHeartbeat, Unsafe, userVars, equipmentVars, fanVars
<1>9. CASE UNCHANGED vars
  BY <1>9 DEF vars, Unsafe, clockVars, userVars, equipmentVars, fanVars
<1> QED
  BY <1>1, <1>2, <1>3, <1>4, <1>5, <1>6, <1>7, <1>8, <1>9 DEF Next, SomeTick

(* In every reachable state of the runtime the demanded relays are those   *)
(* of its state, exclude each other, and are all off under failsafe or     *)
(* lockout.                                                                *)
THEOREM RelaysAlwaysSafe == Spec => []RelaysSafe
<1>1. Init => RelayInv
  BY DEF Init, RelayInv, RelaysSafe, RelaysFollowState, FanYields, NothingWhenUnsafe,
         FlagsOnlyAtRest
<1>2. RelayInv => RelaysSafe
  BY DEF RelayInv
<1> QED
  BY <1>1, <1>2, RelayStep, TypeCorrect, PTL DEF Spec

(* The waiting and the ran-too-long flag are never shown over running      *)
(* equipment.                                                              *)
THEOREM FlagsAlwaysAtRest == Spec => []FlagsOnlyAtRest
<1>1. Init => RelayInv
  BY DEF Init, RelayInv, RelaysSafe, RelaysFollowState, FanYields, NothingWhenUnsafe,
         FlagsOnlyAtRest
<1>2. RelayInv => FlagsOnlyAtRest
  BY DEF RelayInv
<1> QED
  BY <1>1, <1>2, RelayStep, TypeCorrect, PTL DEF Spec

-----------------------------------------------------------------------------
(***************************************************************************)
(* The timers, for every setting, every spacing of the ticks and across    *)
(* the wrap of the clock: the time since a stamp, as the code computes it, *)
(* is never more than what really passed.                                  *)
(***************************************************************************)

(* The caps of the ages do not hide what the properties ask of them.       *)
CapsReach ==
  /\ MinIdle <= AgeCap
  /\ \A e \in Equipment : {MinOff[e], MinRun[e], MaxRun[e]} \subseteq 0 .. AgeCap

(* An age that has reached its cap or is no less than the code's time      *)
(* since mark.                                                             *)
AtLeast(age, mark) == age = AgeCap \/ age >= Since(mark, now)

(* A run has lasted at least since its start.                              *)
RunTrue == on # {} => AtLeast(run, hvac_state_since)

(* Equipment that is off has rested since its off time and since the state *)
(* last changed.  A lockout leaves the off time of the run it ends         *)
(* unstamped: that is what cut excuses.                                    *)
RestTrue ==
  \A e \in Equipment \ (on \union cut) :
    /\ AtLeast(rest[e], hvac_state_since)
    /\ IF last_off[e] = Never THEN rest[e] = AgeCap ELSE AtLeast(rest[e], last_off[e])

TimingInv == TypeOK /\ RelayInv /\ RunTrue /\ RestTrue

-----------------------------------------------------------------------------
(* The time since a mark, over a tick.                                     *)
LEMMA SinceLater ==
  ASSUME NEW t \in Int, NEW mark \in Int, NEW d \in Nat
  PROVE  /\ Since(mark, (t + d) % Wrap) <= Since(mark, t) + d
         /\ Since(mark, t) + d < Wrap => Since(mark, (t + d) % Wrap) = Since(mark, t) + d
<1>1. Wrap \in Nat \ {0}
  BY ClockAssumption
<1>2. /\ (((t + d) % Wrap) - mark) % Wrap <= ((t - mark) % Wrap) + d
      /\ ((t - mark) % Wrap) + d < Wrap =>
           (((t + d) % Wrap) - mark) % Wrap = ((t - mark) % Wrap) + d
      /\ (((t + d) % Wrap) - mark) % Wrap \in 0 .. Wrap - 1
  BY <1>1, SinceGrows
<1> QED
  BY <1>2 DEF Since

LEMMA ClockTicks ==
  ASSUME TypeOK, NEW d \in TickSteps, NEW beat, NEW demand, Tick(d, beat, demand),
         NEW mark \in Times
  PROVE  /\ d \in Nat /\ now' \in Times
         /\ Since(mark, now) \in Nat /\ Since(mark, now') \in Nat
         /\ Since(mark, now') <= Since(mark, now) + d
         /\ Since(mark, now) + d < Wrap => Since(mark, now') = Since(mark, now) + d
<1>1. Wrap \in Nat \ {0} /\ d \in Nat /\ now \in Int /\ mark \in Int
  BY ClockAssumption DEF TypeOK, Times
<1>2. now' = (now + d) % Wrap /\ now' \in Times
  BY <1>1, ModRange DEF Tick, Times
<1>3. Since(mark, now) \in Nat /\ Since(mark, now') \in Nat
  BY <1>2, SinceNat DEF TypeOK
<1>4. /\ Since(mark, (now + d) % Wrap) <= Since(mark, now) + d
      /\ Since(mark, now) + d < Wrap => Since(mark, (now + d) % Wrap) = Since(mark, now) + d
  BY <1>1, SinceLater
<1> QED
  BY <1>1, <1>2, <1>3, <1>4

(* How the ages of a tick follow the clock.                                *)
LEMMA CapGrows ==
  ASSUME NEW age \in Ages, NEW d \in Nat
  PROVE  /\ CapAge(age + d) \in Ages /\ CapAge(age + d) <= age + d
         /\ CapAge(age + d) = AgeCap \/ CapAge(age + d) = age + d
         /\ age = AgeCap => CapAge(age + d) = AgeCap
  BY BoundAssumption DEF CapAge, Ages

LEMMA AgeGrows ==
  ASSUME TypeOK, NEW d \in TickSteps, NEW beat, NEW demand, Tick(d, beat, demand),
         NEW mark \in Times, NEW age \in Ages, AtLeast(age, mark)
  PROVE  CapAge(age + d) = AgeCap \/ CapAge(age + d) >= Since(mark, now')
<1>1. /\ d \in Nat /\ Since(mark, now) \in Nat /\ Since(mark, now') \in Nat
      /\ Since(mark, now') <= Since(mark, now) + d
  BY ClockTicks
<1>2. age \in Nat
  BY BoundAssumption DEF Ages
<1>3. /\ CapAge(age + d) = AgeCap \/ CapAge(age + d) = age + d
      /\ age = AgeCap => CapAge(age + d) = AgeCap
  BY <1>1, CapGrows
<1> QED
  BY <1>1, <1>2, <1>3 DEF AtLeast

(* What a tick does to the run, in four cases.                             *)
GoesOn(e) ==
  /\ on = {e} /\ on' = {e} /\ UNCHANGED <<hvac_state_since, last_off>>
  /\ MaxRun[e] > 0 => Since(hvac_state_since, now') < MaxRun[e]

Ends(e) ==
  /\ on = {e} /\ on' = {} /\ hvac_state_since' = now'
  /\ last_off' = [last_off EXCEPT ![e] = now']
  /\ \/ Unsafe'
     \/ Since(hvac_state_since, now') >= MinRun[e]
     \/ MaxRun[e] > 0 /\ Since(hvac_state_since, now') >= MaxRun[e]

StaysIdle ==
  /\ on = {} /\ on' = {} /\ UNCHANGED last_off
  /\ hvac_state_since' \in {hvac_state_since, now'}

Starts(e) ==
  /\ on = {} /\ on' = {e} /\ hvac_state_since' = now' /\ UNCHANGED last_off
  /\ Since(hvac_state_since, now') >= MinIdle
  /\ last_off[e] # Never => Since(last_off[e], now') >= MinOff[e]

LEMMA RunOutcomes ==
  ASSUME TypeOK, RelaysSafe, now' \in Times, NEW calls \in SUBSET Equipment, ApplyHvacCalls(calls)
  PROVE  StaysIdle \/ \E e \in Equipment : GoesOn(e) \/ Ends(e) \/ Starts(e)
<1>1. on = {hvac_state} \ {"idle"} /\ hvac_state \in {"idle"} \union Equipment
      /\ "idle" \notin Equipment
  BY DEF RelaysSafe, RelaysFollowState, TypeOK, Equipment
<1>2. \A mark \in Times : Since(mark, now') \in Nat
  BY SinceNat
<1>3. \A mark \in Times, duration \in Nat :
        ElapsedAtLeast(mark, now', duration) <=> Since(mark, now') >= duration
  BY <1>2 DEF ElapsedAtLeast
<1>4. /\ \A e \in Equipment : MinRun[e] \in Nat /\ MaxRun[e] \in Nat /\ MinOff[e] \in Nat
      /\ MinIdle \in Nat /\ hvac_state_since \in Times
      /\ \A e \in Equipment : last_off[e] # Never => last_off[e] \in Times
  BY TimerAssumption DEF TypeOK
<1>5. CASE Unsafe' /\ UnsafeTick
  BY <1>1, <1>5 DEF UnsafeTick, EnterIdle, StaysIdle, Ends
<1>6. ASSUME NEW e \in Equipment, RunningTick(e, calls)
      PROVE  GoesOn(e) \/ Ends(e)
  <2>1. on = {e} /\ hvac_state = e /\ e # "idle"
    BY <1>1, <1>6 DEF RunningTick
  <2>2. Since(hvac_state_since, now') \in Nat
    BY <1>2, <1>4
  <2> QED
    BY <1>3, <1>4, <1>6, <2>1, <2>2 DEF RunningTick, EnterIdle, GoesOn, Ends
<1>7. CASE IdleTick(calls)
  <2>1. on = {}
    BY <1>1, <1>7 DEF IdleTick
  <2>2. ASSUME NEW e \in Startable(calls), EnterRun(e)
        PROVE  e \in Equipment /\ Starts(e)
    BY <1>3, <1>4, <2>1, <2>2 DEF Startable, EnterRun, Starts
  <2>3. CASE Startable(calls) = {}
    BY <1>7, <2>1, <2>3 DEF IdleTick, StaysIdle
  <2>4. CASE \E e \in Startable(calls) : EnterRun(e)
    BY <2>2, <2>4
  <2> QED
    BY <1>7, <2>3, <2>4 DEF IdleTick
<1> QED
  BY <1>5, <1>6, <1>7 DEF ApplyHvacCalls

LEMMA TickOutcomes ==
  ASSUME TypeOK, RelaysSafe, NEW d \in TickSteps, NEW beat, NEW demand, Tick(d, beat, demand)
  PROVE  StaysIdle \/ \E e \in Equipment : GoesOn(e) \/ Ends(e) \/ Starts(e)
<1>1. AdmittedCalls(demand) \in SUBSET Equipment
  BY DEF AdmittedCalls, Calls
<1>2. ApplyHvacCalls(AdmittedCalls(demand)) /\ now' \in Times
  BY ModRange, ClockAssumption DEF Tick, TypeOK, Times
<1> QED
  BY <1>1, <1>2, RunOutcomes

-----------------------------------------------------------------------------
LEMMA RunStep ==
  ASSUME TimingInv, NEW d \in TickSteps, NEW beat, NEW demand, Tick(d, beat, demand)
  PROVE  RunTrue'
<1> USE DEF TimingInv
<1>1. StaysIdle \/ \E e \in Equipment : GoesOn(e) \/ Ends(e) \/ Starts(e)
  BY TickOutcomes DEF RelayInv
<1>2. now' \in Times /\ now' \in Int /\ hvac_state_since \in Times /\ run \in Ages
  BY ClockTicks, ClockAssumption DEF TypeOK, Times
<1>3. run' = IF on = {} THEN 0 ELSE CapAge(run + d)
  BY DEF Tick, RecordTick
<1>4. ASSUME NEW e \in Equipment, GoesOn(e)
      PROVE  RunTrue'
  <2>1. AtLeast(run, hvac_state_since)
    BY <1>4 DEF GoesOn, RunTrue
  <2>2. CapAge(run + d) = AgeCap \/ CapAge(run + d) >= Since(hvac_state_since, now')
    BY <1>2, <2>1, AgeGrows
  <2> QED
    BY <1>3, <1>4, <2>2 DEF GoesOn, RunTrue, AtLeast
<1>5. ASSUME NEW e \in Equipment, Starts(e)
      PROVE  RunTrue'
  <2>1. Since(now', now') = 0
    BY <1>2, SinceZero
  <2> QED
    BY <1>3, <1>5, <2>1 DEF Starts, RunTrue, AtLeast
<1>6. on' = {} => RunTrue'
  BY DEF RunTrue
<1> QED
  BY <1>1, <1>4, <1>5, <1>6 DEF StaysIdle, Ends

LEMMA RestStep ==
  ASSUME TimingInv, NEW d \in TickSteps, NEW beat, NEW demand, Tick(d, beat, demand)
  PROVE  RestTrue'
<1> USE DEF TimingInv
<1>1. StaysIdle \/ \E e \in Equipment : GoesOn(e) \/ Ends(e) \/ Starts(e)
  BY TickOutcomes DEF RelayInv
<1>2. now' \in Times /\ now' \in Nat /\ hvac_state_since \in Times
      /\ rest \in [Equipment -> Ages] /\ last_off \in [Equipment -> Times \union {Never}]
      /\ Since(now', now') = 0
  BY ClockTicks, SinceZero, ClockAssumption DEF TypeOK, Times
<1>3. /\ \A f \in Equipment : rest'[f] = IF f \in on THEN 0 ELSE CapAge(rest[f] + d)
      /\ cut' = cut \ on'
  BY DEF Tick, RecordTick
<1> SUFFICES ASSUME NEW f \in Equipment \ (on' \union cut')
             PROVE  /\ AtLeast(rest[f], hvac_state_since)'
                    /\ IF last_off'[f] = Never THEN rest'[f] = AgeCap
                       ELSE AtLeast(rest[f], last_off[f])'
  BY DEF RestTrue
<1>4. CASE f \in on
  <2>1. Ends(f)
    BY <1>1, <1>4 DEF StaysIdle, GoesOn, Ends, Starts
  <2>2. rest'[f] = 0 /\ hvac_state_since' = now' /\ last_off'[f] = now'
    BY <1>2, <1>3, <1>4, <2>1 DEF Ends
  <2> QED
    BY <1>2, <2>2 DEF AtLeast, Never
<1>5. CASE f \notin on
  <2>1. f \notin cut /\ last_off'[f] = last_off[f] /\ hvac_state_since' \in {hvac_state_since, now'}
    BY <1>1, <1>2, <1>3, <1>5 DEF StaysIdle, GoesOn, Ends, Starts
  <2>2. /\ AtLeast(rest[f], hvac_state_since)
        /\ IF last_off[f] = Never THEN rest[f] = AgeCap ELSE AtLeast(rest[f], last_off[f])
    BY <1>5, <2>1 DEF RestTrue
  <2>3. rest[f] \in Ages /\ rest'[f] = CapAge(rest[f] + d) /\ d \in Nat /\ rest'[f] \in Nat
    BY <1>2, <1>3, <1>5, CapGrows, ClockAssumption, BoundAssumption DEF Ages
  <2>4. AtLeast(rest[f], hvac_state_since)'
    <3>1. rest'[f] = AgeCap \/ rest'[f] >= Since(hvac_state_since, now')
      BY <1>2, <2>2, <2>3, AgeGrows
    <3> QED
      BY <1>2, <2>1, <2>3, <3>1 DEF AtLeast
  <2>5. CASE last_off[f] = Never
    BY <2>1, <2>2, <2>3, <2>4, <2>5, CapGrows
  <2>6. CASE last_off[f] # Never
    <3>1. last_off[f] \in Times /\ AtLeast(rest[f], last_off[f])
      BY <1>2, <2>2, <2>6
    <3>2. rest'[f] = AgeCap \/ rest'[f] >= Since(last_off[f], now')
      BY <2>3, <3>1, AgeGrows
    <3>3. AtLeast(rest[f], last_off[f])'
      BY <2>1, <3>2 DEF AtLeast
    <3> QED
      BY <2>1, <2>4, <2>6, <3>3
  <2> QED
    BY <2>5, <2>6
<1> QED
  BY <1>4, <1>5

-----------------------------------------------------------------------------
(* Commands, settings and heartbeats between ticks touch no run; a lockout *)
(* cuts the run it ends; a restart starts everything over.                 *)
LEMMA StepKinds ==
  ASSUME [Next]_vars
  PROVE  \/ SomeTick
         \/ UNCHANGED <<now, on, hvac_state_since, last_off, rest, run, cut, reboots>>
         \/ \E locked \in BOOLEAN : SetHvacLockout(locked)
         \/ \E m \in Modes, f \in FanInputs : Reboot(m, f)
  BY DEF Next, ApplyCommand, SetWindowsOpen, SetCirculate, NoteHeartbeat, OnIndoorTemperature,
         clockVars, equipmentVars, historyVars, vars

LEMMA TimingStep ==
  ASSUME TimingInv, [Next]_vars
  PROVE  TimingInv'
<1>1. TypeOK' /\ RelayInv'
  BY TypeStep, RelayStep DEF TimingInv
<1> SUFFICES RunTrue' /\ RestTrue'
  BY <1>1 DEF TimingInv
<1>2. CASE SomeTick
  BY <1>2, RunStep, RestStep DEF SomeTick
<1>3. CASE UNCHANGED <<now, on, hvac_state_since, last_off, rest, run, cut, reboots>>
  BY <1>3 DEF TimingInv, RunTrue, RestTrue, AtLeast
<1>4. ASSUME NEW locked \in BOOLEAN, SetHvacLockout(locked)
      PROVE  RunTrue' /\ RestTrue'
  <2>1. UNCHANGED <<now, hvac_state_since, last_off>>
    BY <1>4 DEF SetHvacLockout, clockVars
  <2>2. CASE locked
    BY <1>4, <2>1, <2>2 DEF SetHvacLockout, TimingInv, TypeOK, RunTrue, RestTrue, AtLeast
  <2>3. CASE ~locked
    BY <1>4, <2>1, <2>3 DEF SetHvacLockout, TimingInv, RunTrue, RestTrue, AtLeast
  <2> QED
    BY <2>2, <2>3
<1>5. ASSUME NEW m \in Modes, NEW f \in FanInputs, Reboot(m, f)
      PROVE  RunTrue' /\ RestTrue'
  BY <1>5 DEF Reboot, RunTrue, RestTrue
<1> QED
  BY <1>2, <1>3, <1>4, <1>5, StepKinds

LEMMA TimingStart == Init => TimingInv
<1> SUFFICES ASSUME Init PROVE TimingInv
  OBVIOUS
<1>1. TypeOK
  BY TypeInit
<1>2. RelayInv
  BY DEF Init, RelayInv, RelaysSafe, RelaysFollowState, FanYields, NothingWhenUnsafe,
         FlagsOnlyAtRest
<1>3. RunTrue /\ RestTrue
  BY DEF Init, RunTrue, RestTrue, AtLeast
<1> QED
  BY <1>1, <1>2, <1>3 DEF TimingInv

LEMMA TimingHolds == Spec => []TimingInv
  BY TimingStart, TimingStep, PTL DEF Spec

-----------------------------------------------------------------------------
(* Runs start and end in ticks, but for the lockout and the restart.       *)
LEMMA RunsChangeInTicks ==
  ASSUME TypeOK, [Next]_vars, on' # on
  PROVE  \/ \E d \in TickSteps, beat \in Beats, demand \in Demands : Tick(d, beat, demand)
         \/ on' = {} /\ (Unsafe' \/ reboots' # reboots)
<1>1. ASSUME NEW locked \in BOOLEAN, SetHvacLockout(locked)
      PROVE  on' = {} /\ Unsafe'
  BY <1>1 DEF SetHvacLockout, Unsafe
<1>2. ASSUME NEW m \in Modes, NEW f \in FanInputs, Reboot(m, f)
      PROVE  on' = {} /\ reboots' # reboots
  BY <1>2 DEF Reboot, TypeOK
<1> QED
  BY <1>1, <1>2, StepKinds DEF SomeTick

LEMMA RestStepProperty ==
  ASSUME CapsReach, TimingInv, [Next]_vars, NEW e \in on' \ on
  PROVE  /\ e \notin cut => rest'[e] >= MinOff[e]
         /\ \A o \in Equipment \ cut : rest'[o] >= MinIdle
<1> USE DEF TimingInv
<1>1. PICK d \in TickSteps, beat \in Beats, demand \in Demands : Tick(d, beat, demand)
  BY RunsChangeInTicks
<1>2. e \in Equipment /\ Starts(e)
  <2>1. StaysIdle \/ \E x \in Equipment : GoesOn(x) \/ Ends(x) \/ Starts(x)
    BY <1>1, TickOutcomes DEF RelayInv
  <2> QED
    BY <2>1 DEF StaysIdle, GoesOn, Ends, Starts
<1>3. AgeCap \in Nat /\ MinIdle \in Nat /\ MinOff[e] \in Nat /\ MinIdle <= AgeCap
      /\ MinOff[e] <= AgeCap /\ d \in Nat /\ hvac_state_since \in Times
  BY <1>2, BoundAssumption, TimerAssumption, ClockAssumption DEF CapsReach, TypeOK
<1>4. ASSUME NEW o \in Equipment \ cut
      PROVE  /\ rest[o] \in Ages /\ rest'[o] \in Nat
             /\ rest'[o] = CapAge(rest[o] + d)
             /\ AtLeast(rest[o], hvac_state_since)
             /\ IF last_off[o] = Never THEN rest[o] = AgeCap ELSE AtLeast(rest[o], last_off[o])
  <2>1. o \in Equipment /\ o \notin on
    BY <1>2 DEF Starts
  <2>2. rest[o] \in Ages /\ rest'[o] = CapAge(rest[o] + d)
    BY <1>1, <2>1 DEF Tick, RecordTick, TypeOK
  <2>3. rest'[o] \in Nat
    BY <1>3, <2>2, CapGrows DEF Ages
  <2> QED
    BY <2>1, <2>2, <2>3 DEF RestTrue
<1>5. \A mark \in Times : Since(mark, now') \in Nat
  BY <1>1, ClockTicks
<1>6. ASSUME NEW o \in Equipment \ cut
      PROVE  rest'[o] >= MinIdle
  <2>1. rest'[o] = AgeCap \/ rest'[o] >= Since(hvac_state_since, now')
    BY <1>1, <1>3, <1>4, AgeGrows
  <2> QED
    BY <1>2, <1>3, <1>4, <1>5, <2>1 DEF Starts
<1>7. ASSUME e \notin cut
      PROVE  rest'[e] >= MinOff[e]
  <2>1. CASE last_off[e] = Never
    <3>1. rest'[e] = AgeCap
      BY <1>2, <1>3, <1>4, <1>7, <2>1, CapGrows
    <3> QED
      BY <1>3, <3>1
  <2>2. CASE last_off[e] # Never
    <3>1. last_off[e] \in Times /\ AtLeast(rest[e], last_off[e])
      BY <1>2, <1>4, <1>7, <2>2 DEF TypeOK
    <3>2. rest'[e] = AgeCap \/ rest'[e] >= Since(last_off[e], now')
      BY <1>1, <1>2, <1>4, <1>7, <3>1, AgeGrows
    <3>3. Since(last_off[e], now') >= MinOff[e] /\ Since(last_off[e], now') \in Nat
      BY <1>2, <1>5, <2>2, <3>1 DEF Starts
    <3> QED
      BY <1>2, <1>3, <1>4, <1>7, <3>2, <3>3
  <2> QED
    BY <2>1, <2>2
<1> QED
  BY <1>6, <1>7

(* Short-cycle protection: equipment starts only after its own off time    *)
(* and after the idle time since any run, whatever commands, windows and   *)
(* failsafe episodes came between, and however often the clock wraps.      *)
THEOREM RunsAlwaysRest == CapsReach => (Spec => RestBetweenRuns)
<1> SUFFICES ASSUME CapsReach PROVE Spec => RestBetweenRuns
  OBVIOUS
<1>1. TimingInv /\ [Next]_vars =>
        [\A e \in on' \ on : /\ e \notin cut => rest'[e] >= MinOff[e]
                             /\ \A o \in Equipment \ cut : rest'[o] >= MinIdle]_vars
  BY RestStepProperty
<1> QED
  BY <1>1, TimingHolds, PTL DEF Spec, RestBetweenRuns

LEMMA LastStepProperty ==
  ASSUME CapsReach, TimingInv, [Next]_vars, NEW e \in on \ on'
  PROVE  \/ run' >= MinRun[e]
         \/ Unsafe' \/ reboots' # reboots
         \/ MaxRun[e] > 0 /\ run' >= MaxRun[e]
<1> USE DEF TimingInv
<1>1. CASE Unsafe' \/ reboots' # reboots
  BY <1>1
<1>2. ASSUME NEW d \in TickSteps, NEW beat \in Beats, NEW demand \in Demands, Tick(d, beat, demand)
      PROVE  \/ run' >= MinRun[e] \/ Unsafe'
             \/ MaxRun[e] > 0 /\ run' >= MaxRun[e]
  <2>1. e \in Equipment /\ Ends(e)
    <3>1. StaysIdle \/ \E x \in Equipment : GoesOn(x) \/ Ends(x) \/ Starts(x)
      BY <1>2, TickOutcomes DEF RelayInv
    <3> QED
      BY <3>1 DEF StaysIdle, GoesOn, Ends, Starts
  <2>2. AgeCap \in Nat /\ d \in Nat /\ run \in Ages /\ hvac_state_since \in Times
        /\ MinRun[e] \in 0 .. AgeCap /\ MaxRun[e] \in 0 .. AgeCap
    BY <2>1, BoundAssumption, ClockAssumption DEF CapsReach, TypeOK
  <2>3. run' = CapAge(run + d) /\ AtLeast(run, hvac_state_since)
    BY <1>2, <2>1 DEF Tick, RecordTick, Ends, RunTrue
  <2>4. /\ run' = AgeCap \/ run' >= Since(hvac_state_since, now')
        /\ run' \in Nat /\ Since(hvac_state_since, now') \in Nat
    BY <1>2, <2>2, <2>3, AgeGrows, CapGrows, ClockTicks DEF Ages
  <2>5. \A limit \in 0 .. AgeCap : Since(hvac_state_since, now') >= limit => run' >= limit
    BY <2>2, <2>4
  <2> QED
    BY <2>1, <2>2, <2>5 DEF Ends
<1> QED
  BY <1>1, <1>2, RunsChangeInTicks

(* A run ends early only for failsafe, lockout, the maximum run time or a  *)
(* restart, across the wrap of the clock too.                              *)
THEOREM RunsAlwaysLast == CapsReach => (Spec => MinimumRun)
<1> SUFFICES ASSUME CapsReach PROVE Spec => MinimumRun
  OBVIOUS
<1>1. TimingInv /\ [Next]_vars =>
        [\A e \in on \ on' : \/ run' >= MinRun[e]
                             \/ Unsafe' \/ reboots' # reboots
                             \/ MaxRun[e] > 0 /\ run' >= MaxRun[e]]_vars
  BY LastStepProperty
<1> QED
  BY <1>1, TimingHolds, PTL DEF Spec, MinimumRun

-----------------------------------------------------------------------------
(* A run too long can only hide from the code by outlasting the clock      *)
(* between two ticks.                                                      *)
TicksShort == \A e \in Equipment, d \in TickSteps : MaxRun[e] + d < Wrap

(* A limited run is below its limit by the code's reckoning, and that is   *)
(* its true length.                                                        *)
LimitTrue ==
  \A e \in on : MaxRun[e] > 0 =>
    /\ Since(hvac_state_since, now) < MaxRun[e]
    /\ run = CapAge(Since(hvac_state_since, now))

LEMMA LimitStep ==
  ASSUME TicksShort, TypeOK, RelayInv, LimitTrue, [Next]_vars
  PROVE  LimitTrue'
<1>1. ASSUME NEW d \in TickSteps, NEW beat \in Beats, NEW demand \in Demands, Tick(d, beat, demand),
             NEW e \in on', MaxRun[e] > 0
      PROVE  /\ Since(hvac_state_since', now') < MaxRun[e]
             /\ run' = CapAge(Since(hvac_state_since', now'))
  <2>1. e \in Equipment /\ (GoesOn(e) \/ Starts(e))
    <3>1. StaysIdle \/ \E x \in Equipment : GoesOn(x) \/ Ends(x) \/ Starts(x)
      BY <1>1, TickOutcomes DEF RelayInv
    <3> QED
      BY <1>1, <3>1 DEF StaysIdle, GoesOn, Ends, Starts
  <2>2. hvac_state_since \in Times /\ AgeCap \in Nat /\ MaxRun[e] \in Nat /\ Wrap \in Nat
        /\ MaxRun[e] + d < Wrap
    BY <2>1, BoundAssumption, TimerAssumption, ClockAssumption DEF TypeOK, TicksShort
  <2>3. /\ d \in Nat /\ now' \in Times
        /\ Since(hvac_state_since, now) \in Nat
        /\ Since(hvac_state_since, now) + d < Wrap =>
             Since(hvac_state_since, now') = Since(hvac_state_since, now) + d
    BY <1>1, <2>2, ClockTicks
  <2>4. run' = IF on = {} THEN 0 ELSE CapAge(run + d)
    BY <1>1 DEF Tick, RecordTick
  <2>5. CASE GoesOn(e)
    <3>1. Since(hvac_state_since, now) < MaxRun[e] /\ run = CapAge(Since(hvac_state_since, now))
      BY <1>1, <2>5 DEF GoesOn, LimitTrue
    <3>2. Since(hvac_state_since, now') = Since(hvac_state_since, now) + d
      BY <2>2, <2>3, <3>1
    <3>3. run' = CapAge(Since(hvac_state_since, now) + d)
      BY <2>2, <2>3, <2>4, <2>5, <3>1 DEF CapAge, GoesOn
    <3> QED
      BY <1>1, <2>5, <3>2, <3>3 DEF GoesOn
  <2>6. CASE Starts(e)
    <3>1. Since(now', now') = 0
      BY <2>3, SinceZero
    <3> QED
      BY <1>1, <2>2, <2>4, <2>6, <3>1 DEF Starts, CapAge
  <2> QED
    BY <2>1, <2>5, <2>6
<1>2. CASE SomeTick
  BY <1>1, <1>2 DEF SomeTick, LimitTrue
<1>3. CASE UNCHANGED <<now, on, hvac_state_since, last_off, rest, run, cut, reboots>>
  BY <1>3 DEF LimitTrue, CapAge
<1>4. ASSUME NEW locked \in BOOLEAN, SetHvacLockout(locked)
      PROVE  LimitTrue'
  BY <1>4 DEF SetHvacLockout, clockVars, LimitTrue, CapAge
<1>5. ASSUME NEW m \in Modes, NEW f \in FanInputs, Reboot(m, f)
      PROVE  LimitTrue'
  BY <1>5 DEF Reboot, LimitTrue
<1> QED
  BY <1>2, <1>3, <1>4, <1>5, StepKinds

(* No run outlasts the maximum run time, as long as the clock outlasts     *)
(* that time by more than the longest pass.                                *)
THEOREM RunNeverTooLong == TicksShort => (Spec => []MaximumRun)
<1> SUFFICES ASSUME TicksShort PROVE Spec => []MaximumRun
  OBVIOUS
<1>1. Init => TimingInv /\ LimitTrue
  BY TimingStart DEF Init, LimitTrue
<1>2. TimingInv /\ LimitTrue /\ [Next]_vars => (TimingInv /\ LimitTrue)'
  BY TimingStep, LimitStep DEF TimingInv
<1>3. TimingInv /\ LimitTrue => MaximumRun
  <2> SUFFICES ASSUME TimingInv, LimitTrue, NEW e \in on, MaxRun[e] > 0
               PROVE  run < MaxRun[e]
    BY DEF MaximumRun
  <2>1. Since(hvac_state_since, now) \in Int /\ MaxRun[e] \in Int /\ AgeCap \in Int
    BY SinceNat, TimerAssumption, BoundAssumption DEF TimingInv, TypeOK
  <2> QED
    BY <2>1 DEF LimitTrue, CapAge
<1> QED
  BY <1>1, <1>2, <1>3, PTL DEF Spec

-----------------------------------------------------------------------------
(* The failsafe does not survive the wrap: a silence as long as the clock  *)
(* looks fresh again, and a stamp of 0 means that nothing was ever heard.  *)
(* So it is proved for a controller that has been up for less than one     *)
(* period of the clock (49.7 days) since its last restart.                 *)
ShortUptime == Horizon < Wrap

(* The silence is no longer than the stamp of the heartbeat shows.         *)
BeatTrue ==
  /\ heartbeat_last_seen <= now /\ silence <= now - heartbeat_last_seen
  /\ ~failsafe_active => silence <= FailsafeTimeout

LEMMA SinceIs ==
  ASSUME NEW t0 \in Times, NEW t1 \in Times, t0 <= t1
  PROVE  Since(t0, t1) = t1 - t0 /\ t1 - t0 \in Nat /\ t0 \in Nat /\ t1 \in Nat
<1>1. t1 - t0 \in 0 .. Wrap - 1 /\ Wrap \in Nat \ {0} /\ t0 \in Nat /\ t1 \in Nat
  BY ClockAssumption DEF Times
<1> QED
  BY <1>1, ModSmall DEF Since

LEMMA ClockRuns ==
  ASSUME ShortUptime, TypeOK, NEW d \in TickSteps, NEW beat, NEW demand,
         Tick(d, beat, demand)
  PROVE  d \in Nat /\ now \in Nat /\ now' = now + d /\ now' \in Times
<1>1. Wrap \in Nat \ {0} /\ d \in Nat /\ now \in Nat /\ Horizon \in Nat
  BY ClockAssumption DEF TypeOK, Times
<1>2. now + d \in 0 .. Wrap - 1 /\ now' = (now + d) % Wrap
  BY <1>1 DEF Tick, ShortUptime
<1>3. now' = now + d
  BY <1>1, <1>2, ModSmall
<1> QED
  BY <1>1, <1>2, <1>3 DEF Times

LEMMA NotTimedOut ==
  ASSUME NEW t \in Times, NEW beat \in Times, beat <= t, ~FailsafeTimedOut(t, beat),
         NEW quiet \in Nat, quiet <= t - beat
  PROVE  quiet <= FailsafeTimeout
  BY SinceIs, TimerAssumption DEF FailsafeTimedOut

LEMMA BeatStep ==
  ASSUME ShortUptime, TypeOK, BeatTrue, NEW d \in TickSteps, NEW beat \in BOOLEAN, NEW demand,
         Tick(d, beat, demand)
  PROVE  BeatTrue'
<1>1. d \in Nat /\ now \in Nat /\ now' = now + d /\ now' \in Times /\ now' \in Nat
  BY ClockRuns, ClockAssumption DEF Times
<1>2. heartbeat_last_seen \in Nat /\ heartbeat_last_seen \in Times /\ silence \in Ages /\ silence \in Nat
  BY ClockAssumption, BoundAssumption DEF TypeOK, Times, Ages
<1>3. /\ heartbeat_last_seen' = IF beat THEN now' ELSE heartbeat_last_seen
      /\ silence' = IF beat THEN 0 ELSE CapAge(silence + d)
      /\ failsafe_active' = (~has_indoor_temp \/ FailsafeTimedOut(now', heartbeat_last_seen'))
  BY DEF Tick, RecordTick
<1>4. CapAge(silence + d) \in Nat /\ CapAge(silence + d) <= silence + d
  <2>1. d \in Nat /\ silence \in Ages
    BY <1>1, <1>2
  <2>2. CapAge(silence + d) \in Ages /\ CapAge(silence + d) <= silence + d
    BY <2>1, CapGrows
  <2> QED
    BY <2>2, BoundAssumption DEF Ages
<1>5. /\ heartbeat_last_seen' <= now' /\ silence' <= now' - heartbeat_last_seen'
      /\ heartbeat_last_seen' \in Times /\ heartbeat_last_seen' \in Nat /\ silence' \in Nat
  BY <1>1, <1>2, <1>3, <1>4 DEF BeatTrue
<1>6. ~failsafe_active' => silence' <= FailsafeTimeout
  <2>1. ~failsafe_active' => ~FailsafeTimedOut(now', heartbeat_last_seen')
    BY <1>3, Zenon
  <2> QED
    BY <1>1, <1>5, <2>1, NotTimedOut
<1> QED
  BY <1>5, <1>6 DEF BeatTrue

LEMMA BeatHolds ==
  ASSUME ShortUptime, TypeOK, BeatTrue, [Next]_vars
  PROVE  BeatTrue'
<1>1. ASSUME NEW d \in TickSteps, NEW beat \in Beats, NEW demand \in Demands,
             Tick(d, beat, demand)
      PROVE  BeatTrue'
  <2>1. beat \in BOOLEAN
    BY BoundAssumption
  <2> QED
    BY <1>1, <2>1, BeatStep
<1>2. CASE UNCHANGED <<now, heartbeat_last_seen, silence, failsafe_active>>
  BY <1>2 DEF BeatTrue
<1>3. CASE NoteHeartbeat
  BY <1>3, ClockAssumption, TimerAssumption DEF NoteHeartbeat, BeatTrue, TypeOK, Times
<1>4. ASSUME NEW m \in Modes, NEW f \in FanInputs, Reboot(m, f)
      PROVE  BeatTrue'
  BY <1>4, TimerAssumption DEF Reboot, BeatTrue
<1>5. \/ SomeTick \/ NoteHeartbeat \/ \E m \in Modes, f \in FanInputs : Reboot(m, f)
      \/ UNCHANGED <<now, heartbeat_last_seen, silence, failsafe_active>>
  BY DEF Next, ApplyCommand, SetHvacLockout, SetWindowsOpen, SetCirculate, OnIndoorTemperature,
         clockVars, historyVars, vars
<1> QED
  BY <1>1, <1>2, <1>3, <1>4, <1>5 DEF SomeTick

(* Nothing runs, the fan included, once the display has been silent for    *)
(* the failsafe timeout, or was never heard for as long since boot.        *)
THEOREM FailsafeAlwaysInTime == ShortUptime => (Spec => []FailsafeInTime)
<1> SUFFICES ASSUME ShortUptime PROVE Spec => []FailsafeInTime
  OBVIOUS
<1>1. Init => TypeOK /\ BeatTrue
  BY TypeInit, TimerAssumption DEF Init, BeatTrue
<1>2. TypeOK /\ BeatTrue /\ [Next]_vars => (TypeOK /\ BeatTrue)'
  BY TypeStep, BeatHolds
<1>3. RelaysSafe /\ BeatTrue => FailsafeInTime
  BY DEF RelaysSafe, NothingWhenUnsafe, Unsafe, BeatTrue, FailsafeInTime
<1> QED
  BY <1>1, <1>2, <1>3, RelaysAlwaysSafe, PTL DEF Spec

-----------------------------------------------------------------------------
(* Every step of the loop is one of the decision core or leaves it alone,  *)
(* so what is proved of the core holds in the loop.                        *)
LEMMA LoopStepIsStep == [LoopNext]_loopVars => [Next]_vars
<1> SUFFICES ASSUME [LoopNext]_loopVars PROVE [Next]_vars
  OBVIOUS
<1>1. CASE SomePass
  BY <1>1 DEF SomePass, Pass, Next, SomeTick
<1>2. CASE DrainUser
  BY <1>2 DEF DrainUser, UserAction, Next
<1>3. CASE \E locked \in BOOLEAN : DrainLockout(locked)
  BY <1>3 DEF DrainLockout, Next
<1>4. CASE UNCHANGED loopVars
  BY <1>4 DEF loopVars
<1> QED
  BY <1>1, <1>2, <1>3, <1>4 DEF LoopNext

(* The loop implements the decision core.                                  *)
THEOREM LoopImplementsRuntime == LoopSpec => Spec
<1>1. LoopInit => Init
  BY DEF LoopInit
<1> QED
  BY <1>1, LoopStepIsStep, PTL DEF LoopSpec, Spec

-----------------------------------------------------------------------------
(* What apply() energises: the relay that settles or none.                 *)
LEMMA ApplyEnergises ==
  ASSUME NEW demand \in SUBSET IO!Relays, NEW forceOff \in BOOLEAN, NEW t,
         IO!Apply(t, demand, forceOff)
  PROVE  /\ output' \in {IO!None} \union demand
         /\ forceOff => output' = IO!None
<1> DEFINE r == IF forceOff THEN IO!None ELSE IO!PickSingle(demand)
<1>1. r \in {IO!None} \union demand /\ (forceOff => r = IO!None)
  BY DEF IO!PickSingle, IO!None
<1>2. output' \in {r, IO!None} /\ (r = IO!None => output' = IO!None)
  BY DEF IO!Apply, IO!Settle, IO!StartWait
<1> QED
  BY <1>1, <1>2

(* Outside a pass neither the clock nor the relays change.                 *)
LEMMA OnlyPassMoves ==
  ASSUME [LoopNext]_loopVars, ~SomePass
  PROVE  UNCHANGED <<now, active, pending, pending_since, output, dead>>
  BY DEF LoopNext, loopVars, relayVars, coilVars, vars, clockVars, DrainUser, UserAction,
         DrainLockout, ApplyCommand, SetWindowsOpen, NoteHeartbeat, SetHvacLockout

(* What is energised after a pass is what the runtime demands in it, never *)
(* in failsafe or lockout: whatever relay was waiting, and however long.   *)
THEOREM OutputAlwaysWithinDemand == LoopSpec => OutputWithinDemand
<1>1. LoopInit => TypeOK
  BY TypeInit DEF LoopInit
<1>2. TypeOK /\ [LoopNext]_loopVars => TypeOK'
  BY TypeStep, LoopStepIsStep
<1>3. TypeOK /\ [LoopNext]_loopVars =>
        [now' # now => output' \in {IO!None} \union Demand' /\ (Unsafe' => output' = IO!None)]_loopVars
  <2> SUFFICES ASSUME TypeOK, [LoopNext]_loopVars, now' # now
               PROVE  output' \in {IO!None} \union Demand' /\ (Unsafe' => output' = IO!None)
    OBVIOUS
  <2>1. SomePass
    BY OnlyPassMoves
  <2>2. IO!Apply(now', Demand', Unsafe')
    BY <2>1 DEF SomePass, Pass, ApplyRelays
  <2>3. Demand' \in SUBSET IO!Relays /\ Unsafe' \in BOOLEAN
    <3>1. TypeOK'
      BY <1>2
    <3> QED
      BY <3>1 DEF TypeOK, Demand, IO!Relays, Equipment, Unsafe
  <2> QED
    BY <2>2, <2>3, ApplyEnergises
<1> QED
  BY <1>1, <1>2, <1>3, PTL DEF LoopSpec, OutputWithinDemand

-----------------------------------------------------------------------------
(* The relay layer between passes: a relay waits only while all are off,   *)
(* and the clock has counted no more since its wait began than has really  *)
(* passed since they were released.                                        *)
Waited == dead >= RestCap \/ dead >= Since(pending_since, now)

SwitchInv ==
  /\ now \in Int /\ pending_since \in Int /\ dead \in Nat
  /\ output = active
  /\ pending # IO!None => active = IO!None /\ Waited

(* A pass with every relay off lets dead grow with the clock.              *)
LEMMA WaitedGrows ==
  ASSUME SwitchInv, pending # IO!None, NEW d \in Nat, now' = (now + d) % Wrap,
         dead' = CapRest(dead + d)
  PROVE  dead' >= RestCap \/ dead' >= Since(pending_since, now')
<1>1. Since(pending_since, now') <= Since(pending_since, now) + d
      /\ Since(pending_since, now) \in Nat /\ Since(pending_since, now') \in Nat
  <2>1. Wrap \in Nat \ {0} /\ now \in Int /\ pending_since \in Int
    BY ClockAssumption DEF SwitchInv
  <2>2. /\ (((now + d) % Wrap) - pending_since) % Wrap <= ((now - pending_since) % Wrap) + d
        /\ (((now + d) % Wrap) - pending_since) % Wrap \in 0 .. Wrap - 1
    BY <2>1, SinceGrows
  <2>3. (now - pending_since) % Wrap \in 0 .. Wrap - 1
    BY <2>1, DivMod
  <2> QED
    BY <2>1, <2>2, <2>3 DEF Since
<1> QED
  BY <1>1, LoopAssumption DEF SwitchInv, Waited, CapRest

LEMMA SwitchStep ==
  ASSUME SwitchInv, [LoopNext]_loopVars
  PROVE  /\ SwitchInv'
         /\ output' \notin {IO!None, output} =>
              output = IO!None /\ (pending # IO!None => dead' >= RelayWait[output'])
<1>1. CASE ~SomePass
  BY <1>1, OnlyPassMoves DEF SwitchInv, Waited, Since
<1>2. CASE SomePass
  <2>1. PICK d \in TickSteps, beat \in Beats, demand \in Demands : Pass(d, beat, demand)
    BY <1>2 DEF SomePass
  <2>2. d \in Nat /\ now' = (now + d) % Wrap /\ now' \in Int
    BY <2>1, DivMod, ClockAssumption DEF Pass, Tick, SwitchInv
  <2>3. /\ dead' = IF output # IO!None THEN 0 ELSE CapRest(dead + d)
        /\ dead' \in Nat
    BY <2>1, <2>2, LoopAssumption DEF Pass, RecordCoils, CapRest, SwitchInv
  <2> DEFINE r == IF Unsafe' THEN IO!None ELSE IO!PickSingle(Demand')
  <2>4. IO!Apply(now', Demand', Unsafe')
    BY <2>1 DEF Pass, ApplyRelays
  <2>5. r \in IO!Relays \union {IO!None}
    BY DEF IO!PickSingle, IO!Relays
  <2>6. ASSUME r = IO!None \/ r = active \/ (active = IO!None /\ pending = IO!None), IO!Settle(r)
        PROVE  /\ SwitchInv'
               /\ output' \notin {IO!None, output} => output = IO!None /\ pending = IO!None
    BY <2>2, <2>3, <2>6 DEF IO!Settle, SwitchInv
  <2>7. ASSUME IO!StartWait(now', r)
        PROVE  SwitchInv' /\ output' = IO!None
    <3>1. Since(now', now') = 0
      BY <2>2, SinceNow, ClockAssumption DEF Since
    <3> QED
      BY <2>2, <2>3, <2>7, <3>1 DEF IO!StartWait, SwitchInv, Waited
  <2>8. ASSUME r # IO!None, pending = r
        PROVE  dead' = CapRest(dead + d) /\ (dead' >= RestCap \/ dead' >= Since(pending_since, now'))
    <3>1. dead' = CapRest(dead + d)
      BY <2>3, <2>8 DEF SwitchInv
    <3> QED
      BY <2>2, <2>8, <3>1, WaitedGrows
  <2>9. ASSUME r # IO!None, pending = r, output' = IO!None,
               UNCHANGED <<active, pending, pending_since>>
        PROVE  SwitchInv'
    BY <2>2, <2>3, <2>8, <2>9 DEF SwitchInv, Waited
  <2>10. ASSUME r # IO!None, pending = r, IO!WaitOver(now'), IO!Settle(r)
         PROVE  /\ SwitchInv'
                /\ output = IO!None /\ dead' >= RelayWait[output']
    <3>1. Since(pending_since, now') >= RelayWait[r] /\ RelayWait[r] <= RestCap
          /\ RelayWait[r] \in Nat /\ Since(pending_since, now') \in Int
      BY <2>2, <2>5, <2>10, LoopAssumption, DivMod, ClockAssumption DEF IO!WaitOver, Since, SwitchInv
    <3>2. dead' >= RelayWait[r]
      BY <2>3, <2>8, <2>10, <3>1, LoopAssumption
    <3> QED
      BY <2>2, <2>3, <2>10, <3>2 DEF IO!Settle, SwitchInv
  <2> QED
    BY <2>4, <2>6, <2>7, <2>8, <2>9, <2>10 DEF IO!Apply, IO!StartWait
<1> QED
  BY <1>1, <1>2

(* One relay replaces another only through all-off, and one that waited    *)
(* for its turn gets it no sooner than its interlock wait after the others *)
(* were released: however demands come and go, and across the wrap of the  *)
(* clock.                                                                  *)
THEOREM SwitchAlwaysWaits == LoopSpec => SwitchWaits
<1>1. LoopInit => SwitchInv
  BY ClockAssumption, LoopAssumption DEF LoopInit, Init, IO!Begin, SwitchInv
<1>2. SwitchInv /\ [LoopNext]_loopVars => SwitchInv'
  BY SwitchStep
<1>3. SwitchInv /\ [LoopNext]_loopVars =>
        [output' \notin {IO!None, output} =>
           output = IO!None /\ (pending # IO!None => dead' >= RelayWait[output'])]_loopVars
  BY SwitchStep
<1> QED
  BY <1>1, <1>2, <1>3, PTL DEF LoopSpec, SwitchWaits

-----------------------------------------------------------------------------
LEMMA LoopTypeStep == LoopTypeOK /\ [LoopNext]_loopVars => LoopTypeOK'
<1> SUFFICES ASSUME LoopTypeOK, [LoopNext]_loopVars PROVE LoopTypeOK'
  OBVIOUS
<1> DEFINE Switches == IO!Relays \union {IO!None}
<1>1. TypeOK'
  BY TypeStep, LoopStepIsStep DEF LoopTypeOK
<1>2. now' \in Times /\ 0 \in Times
  BY <1>1, ClockAssumption DEF TypeOK, Times
<1>3. ASSUME NEW d \in TickSteps, NEW beat \in Beats, NEW demand \in Demands,
             Pass(d, beat, demand)
      PROVE  LoopTypeOK'
  <2> DEFINE r == IF Unsafe' THEN IO!None ELSE IO!PickSingle(Demand')
  <2>1. r \in Switches
    BY DEF IO!PickSingle, IO!Relays
  <2>2. \/ IO!Settle(r)
        \/ IO!StartWait(now', r)
        \/ output' = IO!None /\ UNCHANGED <<active, pending, pending_since>>
    BY <1>3 DEF Pass, ApplyRelays, IO!Apply
  <2>3. active' \in Switches /\ output' \in Switches /\ pending' \in Switches /\ pending_since' \in Times
    <3> HIDE DEF r
    <3> QED
      BY <1>2, <2>1, <2>2 DEF IO!Settle, IO!StartWait, LoopTypeOK
  <2>4. \A n \in 0 .. RestCap : CapRest(n + d) \in 0 .. RestCap
    BY ClockAssumption, LoopAssumption DEF CapRest
  <2>5. coil_rest' \in [Equipment -> 0 .. RestCap] /\ dead' \in 0 .. RestCap
        /\ coil_cut' \subseteq Equipment
    BY <1>3, <2>4, LoopAssumption DEF Pass, RecordCoils, LoopTypeOK
  <2> QED
    BY <1>1, <2>3, <2>5 DEF LoopTypeOK
<1>4. ASSUME NEW locked \in BOOLEAN, DrainLockout(locked)
      PROVE  LoopTypeOK'
  BY <1>1, <1>4 DEF DrainLockout, relayVars, LoopTypeOK
<1>5. CASE UNCHANGED <<relayVars, coilVars>>
  BY <1>1, <1>5 DEF relayVars, coilVars, LoopTypeOK
<1> QED
  BY <1>3, <1>4, <1>5 DEF LoopNext, SomePass, DrainUser, loopVars

(* The relay layer and the ages around it stay typed, with the decisions.  *)
THEOREM LoopTypeCorrect == LoopSpec => []LoopTypeOK
<1>1. LoopInit => LoopTypeOK
  <2>1. 0 \in Times
    BY ClockAssumption DEF Times
  <2> QED
    BY <2>1, TypeInit, LoopAssumption DEF LoopInit, IO!Begin, LoopTypeOK
<1> QED
  BY <1>1, LoopTypeStep, PTL DEF LoopSpec
-----------------------------------------------------------------------------
(* The rest of a relay, against the off times of the decision core.        *)
CoilCapsReach == \A e \in Equipment : MinOff[e] <= RestCap

(* A rest that has reached its cap or is no less than the code's time      *)
(* since mark.                                                             *)
Rested(age, mark) == age = RestCap \/ age >= Since(mark, now)

(* A relay that is off, and that no lockout released, has rested since its *)
(* run was stamped as over, and for its off time if a new run is demanded  *)
(* but still waits at the interlock: a run that ends while it waits stamps *)
(* a later time than the relay's.                                          *)
CoilTrue ==
  \A e \in Equipment \ (coil_cut \union {output}) :
    /\ IF last_off[e] = Never THEN coil_rest[e] = RestCap ELSE Rested(coil_rest[e], last_off[e])
    /\ e \in on => coil_rest[e] >= MinOff[e]

(* Between passes only a lockout parts an energised relay from its run.    *)
CoilInv ==
  /\ output \in Equipment => output \in on \union coil_cut
  /\ CoilTrue

LoopInv == LoopTypeOK /\ SwitchInv /\ TimingInv /\ CoilInv

(* A pass in which a run is demanded and its relay is on leaves it on.     *)
LEMMA RunKeepsRelay ==
  ASSUME SwitchInv, RelayInv', NEW e \in Equipment, output = e, on' = {e}, ApplyRelays
  PROVE  output' = e
<1>1. ~fan' /\ ~Unsafe'
  BY DEF RelayInv, RelaysSafe, FanYields, NothingWhenUnsafe
<1>2. Demand' = {e}
  BY <1>1 DEF Demand
<1>3. IO!PickSingle({e}) = e /\ e # IO!None
  BY DEF IO!PickSingle, Equipment, IO!None
<1> QED
  BY <1>1, <1>2, <1>3 DEF ApplyRelays, IO!Apply, IO!Settle, SwitchInv

(* How the rest of a relay that was off before the pass follows the clock. *)
LEMMA CoilGrows ==
  ASSUME LoopTypeOK, NEW d \in Nat, RecordCoils(d), NEW e \in Equipment, output # e
  PROVE  /\ coil_rest[e] \in Nat /\ coil_rest'[e] \in Nat /\ RestCap \in Nat
         /\ coil_rest'[e] = RestCap \/ coil_rest'[e] = coil_rest[e] + d
         /\ coil_rest[e] = RestCap => coil_rest'[e] = RestCap
<1>1. coil_rest[e] \in 0 .. RestCap /\ coil_rest'[e] = CapRest(coil_rest[e] + d)
  BY DEF RecordCoils, LoopTypeOK
<1> QED
  BY <1>1, LoopAssumption DEF CapRest

(* One pass, for one relay: where CoilTrue speaks of it afterwards it      *)
(* holds, and so does the off time of a run that is demanded.              *)
LEMMA CoilPass ==
  ASSUME CoilCapsReach, LoopInv, LoopTypeOK', RelayInv',
         NEW d \in TickSteps, NEW beat \in Beats, NEW demand \in Demands, Pass(d, beat, demand),
         NEW e \in Equipment
  PROVE  /\ e \notin coil_cut /\ e # output =>
              /\ IF last_off'[e] = Never THEN coil_rest'[e] = RestCap
                 ELSE Rested(coil_rest[e], last_off[e])'
              /\ e \in on' => coil_rest'[e] >= MinOff[e]
         /\ e \notin coil_cut /\ e = output /\ e # output' =>
              e \notin on' /\ last_off'[e] = now'
<1>1. d \in Nat /\ now' \in Times /\ now' \in Nat /\ Since(now', now') = 0
  <2>1. d \in Nat /\ now' \in Times /\ Times \subseteq Nat
    BY ClockAssumption DEF LoopTypeOK, TypeOK, Times
  <2> QED
    BY <2>1, SinceZero
<1>2. /\ last_off \in [Equipment -> Times \union {Never}]
      /\ MinOff[e] \in Nat /\ MinOff[e] <= RestCap
  BY TimerAssumption DEF LoopInv, TimingInv, TypeOK, CoilCapsReach
<1>3. StaysIdle \/ \E f \in Equipment : GoesOn(f) \/ Ends(f) \/ Starts(f)
  BY TickOutcomes DEF LoopInv, TimingInv, RelayInv, Pass
<1>4. \/ last_off'[e] = last_off[e]
      \/ Ends(e) /\ last_off'[e] = now'
  BY <1>2, <1>3 DEF StaysIdle, GoesOn, Ends, Starts
<1>5. \A mark \in Times :
        /\ Since(mark, now) \in Nat /\ Since(mark, now') \in Nat
        /\ Since(mark, now') <= Since(mark, now) + d
  BY ClockTicks DEF LoopInv, TimingInv, Pass
<1>6. ASSUME e \notin coil_cut, e # output
      PROVE  /\ IF last_off'[e] = Never THEN coil_rest'[e] = RestCap
                ELSE Rested(coil_rest[e], last_off[e])'
             /\ e \in on' => coil_rest'[e] >= MinOff[e]
  <2>1. /\ IF last_off[e] = Never THEN coil_rest[e] = RestCap ELSE Rested(coil_rest[e], last_off[e])
        /\ e \in on => coil_rest[e] >= MinOff[e]
    BY <1>6 DEF LoopInv, CoilInv, CoilTrue
  <2>2. /\ coil_rest[e] \in Nat /\ coil_rest'[e] \in Nat /\ RestCap \in Nat
        /\ coil_rest'[e] = RestCap \/ coil_rest'[e] = coil_rest[e] + d
        /\ coil_rest[e] = RestCap => coil_rest'[e] = RestCap
    BY <1>1, <1>6, CoilGrows DEF LoopInv, Pass
  <2>3. CASE Ends(e) /\ last_off'[e] = now'
    <3>1. e \notin on' /\ now' # Never
      BY <1>1, <2>3 DEF Ends, Never
    <3> QED
      BY <1>1, <2>2, <2>3, <3>1 DEF Rested
  <2>4. CASE last_off'[e] = last_off[e]
    <3>1. last_off[e] # Never =>
            /\ Since(last_off[e], now) \in Nat /\ Since(last_off[e], now') \in Nat
            /\ Since(last_off[e], now') <= Since(last_off[e], now) + d
      BY <1>2, <1>5
    <3>2. IF last_off[e] = Never THEN coil_rest'[e] = RestCap
          ELSE coil_rest'[e] = RestCap \/ coil_rest'[e] >= Since(last_off[e], now')
      BY <1>1, <2>1, <2>2, <3>1 DEF Rested
    <3>3. ASSUME e \in on' PROVE coil_rest'[e] >= MinOff[e]
      <4>1. CASE e \in on
        BY <1>1, <1>2, <2>1, <2>2, <4>1
      <4>2. CASE e \notin on
        <5>1. Starts(e)
          BY <1>3, <3>3, <4>2 DEF StaysIdle, GoesOn, Ends, Starts
        <5>2. CASE last_off[e] = Never
          BY <1>2, <2>2, <3>2, <5>2
        <5>3. CASE last_off[e] # Never
          <6>1. Since(last_off[e], now') >= MinOff[e]
            BY <5>1, <5>3 DEF Starts
          <6> QED
            BY <1>2, <2>2, <3>1, <3>2, <5>3, <6>1
        <5> QED
          BY <5>2, <5>3
      <4> QED
        BY <4>1, <4>2
    <3> QED
      BY <2>4, <3>2, <3>3 DEF Rested
  <2> QED
    BY <1>4, <2>3, <2>4
<1>7. ASSUME e \notin coil_cut, e = output, e # output'
      PROVE  e \notin on' /\ last_off'[e] = now'
  <2>1. e \in on
    BY <1>7 DEF LoopInv, CoilInv
  <2>2. GoesOn(e) \/ Ends(e)
    BY <1>3, <2>1 DEF StaysIdle, GoesOn, Ends, Starts
  <2>3. ~GoesOn(e)
    BY <1>7, RunKeepsRelay DEF GoesOn, LoopInv, Pass
  <2> QED
    BY <1>2, <2>2, <2>3 DEF Ends
<1> QED
  BY <1>6, <1>7

LEMMA CoilStep ==
  ASSUME CoilCapsReach, LoopInv, [LoopNext]_loopVars
  PROVE  LoopInv'
<1>1. LoopTypeOK' /\ SwitchInv' /\ TimingInv'
  BY LoopTypeStep, SwitchStep, TimingStep, LoopStepIsStep DEF LoopInv
<1> SUFFICES CoilInv'
  BY <1>1 DEF LoopInv
<1>2. ASSUME NEW d \in TickSteps, NEW beat \in Beats, NEW demand \in Demands,
             Pass(d, beat, demand)
      PROVE  CoilInv'
  <2>1. coil_cut' = coil_cut \ {output'} /\ RelayInv'
    BY <1>1, <1>2 DEF Pass, RecordCoils, TimingInv
  <2>2. output' \in Equipment => output' \in on'
    <3>1. Demand' \in SUBSET IO!Relays /\ Unsafe' \in BOOLEAN
      BY <1>1 DEF LoopTypeOK, TypeOK, Demand, IO!Relays, Equipment, Unsafe
    <3>2. output' \in {IO!None} \union Demand'
      BY <1>2, <3>1, ApplyEnergises DEF Pass, ApplyRelays
    <3> QED
      BY <3>2 DEF Demand, IO!None, Equipment
  <2>3. ASSUME NEW e \in Equipment
        PROVE  /\ e \notin coil_cut /\ e # output =>
                    /\ IF last_off'[e] = Never THEN coil_rest'[e] = RestCap
                       ELSE Rested(coil_rest[e], last_off[e])'
                    /\ e \in on' => coil_rest'[e] >= MinOff[e]
               /\ e \notin coil_cut /\ e = output /\ e # output' =>
                    e \notin on' /\ last_off'[e] = now'
    BY <1>1, <1>2, <2>1, CoilPass
  <2>4. ASSUME NEW e \in Equipment, e \notin coil_cut', e # output'
        PROVE  /\ IF last_off'[e] = Never THEN coil_rest'[e] = RestCap
                  ELSE Rested(coil_rest[e], last_off[e])'
               /\ e \in on' => coil_rest'[e] >= MinOff[e]
    <3>1. e \notin coil_cut
      BY <2>1, <2>4
    <3>2. CASE e # output
      BY <2>3, <3>1, <3>2
    <3>3. CASE e = output
      <4>1. e \notin on' /\ last_off'[e] = now'
        BY <2>3, <2>4, <3>1, <3>3
      <4>2. now' \in Nat /\ coil_rest'[e] \in Nat /\ Since(now', now') = 0
        <5>1. now' \in Times /\ Times \subseteq Nat
          BY <1>1, ClockAssumption DEF LoopTypeOK, TypeOK, Times
        <5> QED
          BY <1>1, <5>1, LoopAssumption, SinceZero DEF LoopTypeOK
      <4>3. Rested(coil_rest[e], last_off[e])'
        BY <4>1, <4>2 DEF Rested
      <4> QED
        BY <4>1, <4>2, <4>3 DEF Never
    <3> QED
      BY <3>2, <3>3
  <2> QED
    BY <2>2, <2>3, <2>4 DEF CoilInv, CoilTrue
<1>3. ASSUME NEW locked \in BOOLEAN, DrainLockout(locked)
      PROVE  CoilInv'
  BY <1>3 DEF DrainLockout, SetHvacLockout, LoopInv, CoilInv, CoilTrue, Rested,
              relayVars, clockVars
<1>4. CASE UNCHANGED <<now, last_off, on, output, coil_rest, coil_cut>>
  BY <1>4 DEF LoopInv, CoilInv, CoilTrue, Rested
<1>5. DrainUser => UNCHANGED <<now, last_off, on, output, coil_rest, coil_cut>>
  BY DEF DrainUser, UserAction, ApplyCommand, SetWindowsOpen, NoteHeartbeat,
         clockVars, equipmentVars, relayVars, coilVars
<1>6. UNCHANGED loopVars => UNCHANGED <<now, last_off, on, output, coil_rest, coil_cut>>
  BY DEF loopVars, vars, clockVars, equipmentVars, relayVars, coilVars
<1> QED
  BY <1>2, <1>3, <1>4, <1>5, <1>6 DEF LoopNext, SomePass

LEMMA LoopStart == LoopInit => LoopInv
<1> SUFFICES ASSUME LoopInit PROVE LoopInv
  OBVIOUS
<1>1. TimingInv
  BY TimingStart DEF LoopInit
<1>2. LoopTypeOK
  <2>1. 0 \in Times
    BY ClockAssumption DEF Times
  <2> QED
    BY <2>1, TypeInit, LoopAssumption DEF LoopInit, IO!Begin, LoopTypeOK
<1>3. SwitchInv
  BY ClockAssumption, LoopAssumption DEF LoopInit, Init, IO!Begin, SwitchInv
<1>4. CoilInv
  <2>1. on = {} /\ output \notin Equipment
    BY DEF LoopInit, Init, IO!Begin, IO!None, Equipment
  <2>2. \A e \in Equipment : last_off[e] = Never /\ coil_rest[e] = RestCap
    BY DEF LoopInit, Init
  <2> QED
    BY <2>1, <2>2 DEF CoilInv, CoilTrue, Never
<1> QED
  BY <1>1, <1>2, <1>3, <1>4 DEF LoopInv

(* The minimum off time holds at the relay itself, whatever the interlock  *)
(* delays, whatever commands are drained between passes and however often  *)
(* the clock wraps, unless a lockout released the relay.                   *)
THEOREM CoilsAlwaysRest == CoilCapsReach => (LoopSpec => CoilRests)
<1> SUFFICES ASSUME CoilCapsReach PROVE LoopSpec => CoilRests
  OBVIOUS
<1>1. LoopInv /\ [LoopNext]_loopVars => LoopInv'
  BY CoilStep
<1>2. LoopInv /\ [LoopNext]_loopVars =>
        [\A e \in Equipment \ coil_cut :
           output' = e /\ output # e => coil_rest'[e] >= MinOff[e]]_loopVars
  <2> SUFFICES ASSUME LoopInv, [LoopNext]_loopVars, NEW e \in Equipment \ coil_cut,
                      output' = e, output # e
               PROVE  coil_rest'[e] >= MinOff[e]
    OBVIOUS
  <2>1. PICK d \in TickSteps, beat \in Beats, demand \in Demands : Pass(d, beat, demand)
    BY OnlyPassMoves DEF SomePass
  <2>2. LoopTypeOK' /\ RelayInv' /\ CoilInv'
    BY <1>1 DEF LoopInv, TimingInv
  <2>3. e \in on'
    <3>1. output' \notin coil_cut'
      BY <2>1 DEF Pass, RecordCoils
    <3> QED
      BY <2>2, <3>1 DEF CoilInv
  <2> QED
    BY <2>1, <2>2, <2>3, CoilPass
<1> QED
  BY <1>1, <1>2, LoopStart, PTL DEF LoopSpec, CoilRests

-----------------------------------------------------------------------------
(* The failsafe at the relays themselves, which follow the decisions only  *)
(* in a pass: between passes the silence can only be broken.               *)
OutputInTime == output # IO!None => silence <= FailsafeTimeout

LEMMA OutputStep ==
  ASSUME ShortUptime, TypeOK, RelayInv, BeatTrue, OutputInTime, [LoopNext]_loopVars
  PROVE  OutputInTime'
<1>1. TypeOK' /\ RelayInv' /\ BeatTrue'
  BY LoopStepIsStep, TypeStep, RelayStep, BeatHolds
<1>2. CASE SomePass
  <2>1. IO!Apply(now', Demand', Unsafe')
    BY <1>2 DEF SomePass, Pass, ApplyRelays
  <2>2. Demand' \in SUBSET IO!Relays /\ Unsafe' \in BOOLEAN
    BY <1>1 DEF TypeOK, Demand, IO!Relays, Equipment, Unsafe
  <2>3. output' # IO!None => ~Unsafe'
    BY <2>1, <2>2, ApplyEnergises
  <2> QED
    BY <1>1, <2>3 DEF Unsafe, BeatTrue, OutputInTime
<1>3. CASE ~SomePass
  <2>1. output' = output
    BY <1>3, OnlyPassMoves
  <2>2. silence' \in {silence, 0}
    BY <1>3 DEF LoopNext, DrainUser, UserAction, DrainLockout, ApplyCommand, SetWindowsOpen,
         NoteHeartbeat, SetHvacLockout, historyVars, loopVars, vars
  <2>3. FailsafeTimeout \in Nat
    BY TimerAssumption
  <2> QED
    BY <2>1, <2>2, <2>3 DEF OutputInTime
<1> QED
  BY <1>2, <1>3

(* No relay is energised once the display has been silent for the failsafe *)
(* timeout: not only is nothing demanded.                                  *)
THEOREM FailsafeReachesRelays == ShortUptime => (LoopSpec => []OutputInTime)
<1> SUFFICES ASSUME ShortUptime PROVE LoopSpec => []OutputInTime
  OBVIOUS
<1>1. LoopInit => TypeOK /\ RelayInv /\ BeatTrue /\ OutputInTime
  BY TimingStart, TimerAssumption DEF LoopInit, Init, IO!Begin, TimingInv, BeatTrue, OutputInTime
<1>2. TypeOK /\ RelayInv /\ BeatTrue /\ OutputInTime /\ [LoopNext]_loopVars =>
        (TypeOK /\ RelayInv /\ BeatTrue /\ OutputInTime)'
  BY LoopStepIsStep, TypeStep, RelayStep, BeatHolds, OutputStep
<1> QED
  BY <1>1, <1>2, PTL DEF LoopSpec
=============================================================================
