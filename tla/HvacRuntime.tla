----------------------------- MODULE HvacRuntime -----------------------------
(***************************************************************************)
(* The furnace controller's decision core: ControllerRuntime, with the     *)
(* heat / cool calls ControllerApp computes for it.  One Tick is one pass  *)
(* of ControllerNode::tick: the frames queued since the last pass are      *)
(* applied (here: was there a heartbeat), then the runtime decides which   *)
(* relays to demand.  Commands, lockout and the windows flag change the    *)
(* state between ticks, as the MQTT drain of the loop does.                *)
(*                                                                         *)
(* Clock values are the 32-bit millis() of the code: Wrap stands for 2^32, *)
(* all time arithmetic is modulo Wrap.  Horizon bounds the explored clock  *)
(* (a Horizon of at least 2 * Wrap bounds nothing).                        *)
(*                                                                         *)
(* on is the set of equipment whose relay the runtime demands              *)
(* (relay_.heat, relay_.cool); spare_relay_4_ is never set in the code.    *)
(* A timestamp with its has_..._ flag is one variable, Never standing for  *)
(* the flag being false.                                                   *)
(*                                                                         *)
(* Definitions named Faulty... are not part of the specification: each is  *)
(* a plausible mistake in a definition that follows it, and the property   *)
(* it is paired with must fail when it takes that definition's place.      *)
(***************************************************************************)
EXTENDS Integers, FiniteSets

CONSTANTS
  Wrap,            (* size of the millisecond clock: 2^32 in the code      *)
  Horizon,         (* bound: Tick does not advance the clock beyond it     *)
  TickSteps,       (* time that may pass between two ticks                 *)
  MinuteTicks,     (* kOneMinuteMs                                         *)
  FailsafeTimeout,
  MinIdle,
  MinOff, MinRun, MaxRun,   (* per equipment; MaxRun of 0: no limit        *)
  FanInputs,                (* fan modes the user selects                  *)
  CirculateConfigs,         (* fan circulation settings, in minutes        *)
  CirculateCycle,           (* bound: a multiple of every period           *)
  FilterCap,                (* bound on the counted filter minutes         *)
  AgeCap,                   (* bound on the history ages                   *)
  Beats,           (* whether a heartbeat may be among the drained frames  *)
  Demands,         (* room temperatures, relative to what the mode wants   *)
  InitialTempKnown,(* is the configured fallback temperature finite?       *)
  MaxReboots       (* bound on the restarts explored                       *)

Equipment == {"heat", "cool"}
Modes == {"off"} \union Equipment
FanModes == {"automatic", "on", "circulate"}
Never == -1
Times == 0 .. Wrap - 1
Ages == 0 .. AgeCap

(* The room relative to the target of the mode: "call" is beyond the       *)
(* deadband, "hold" inside the deadband/overrun band, "satisfied" beyond   *)
(* the overrun.                                                            *)
DemandLevels == {"call", "hold", "satisfied"}

ASSUME ClockAssumption ==
  /\ Wrap \in Nat \ {0}
  /\ Horizon \in Nat
  /\ TickSteps \subseteq Nat \ {0}
  /\ MinuteTicks \in Nat \ {0}

ASSUME TimerAssumption ==
  /\ FailsafeTimeout \in Nat
  /\ MinIdle \in Nat
  /\ MinOff \in [Equipment -> Nat]
  /\ MinRun \in [Equipment -> Nat]
  /\ MaxRun \in [Equipment -> Nat]

ASSUME CirculateAssumption ==
  /\ CirculateCycle \in Nat \ {0}
  /\ CirculateConfigs \subseteq [period : Nat \ {0}, duration : Nat \ {0}]
  /\ CirculateConfigs # {}
  /\ \A c \in CirculateConfigs : CirculateCycle % c.period = 0

ASSUME BoundAssumption ==
  /\ FilterCap \in Nat
  /\ AgeCap \in Nat
  /\ MaxReboots \in Nat
  /\ FanInputs \subseteq FanModes
  /\ Beats \subseteq BOOLEAN
  /\ Demands \subseteq DemandLevels
  /\ InitialTempKnown \subseteq BOOLEAN

VARIABLES
  now,               (* millis() at the last tick                          *)
  mode, fan_mode, circulate,
  hvac_lockout, windows_open, failsafe_active, max_runtime_exceeded,
  has_indoor_temp,
  heartbeat_last_seen,
  hvac_state, hvac_state_since, last_off, equipment_delay,
  on, fan,           (* relay_                                             *)
  fan_circulate_elapsed, last_minute_tick,
  filter_minutes,    (* filter_runtime_seconds_ / 60                       *)
  (* history, read by the properties only                                  *)
  rest,              (* per equipment: time since it last ran              *)
  run,               (* age of the current run, or of the one that just    *)
                     (* ended                                              *)
  silence,           (* time since the last heartbeat, or since boot       *)
  cut,               (* equipment whose last run lockout or reboot ended   *)
  reboots

clockVars == <<now, heartbeat_last_seen, failsafe_active>>
userVars == <<mode, fan_mode, circulate, hvac_lockout, windows_open>>
equipmentVars == <<hvac_state, hvac_state_since, last_off, equipment_delay, on>>
fanVars == <<fan, fan_circulate_elapsed, last_minute_tick>>
historyVars == <<rest, run, silence, cut, reboots>>
vars == <<clockVars, userVars, equipmentVars, fanVars, max_runtime_exceeded,
          has_indoor_temp, filter_minutes, historyVars>>

-----------------------------------------------------------------------------
(* uint32 subtraction, and elapsed_at_least. *)
Since(t0, t1) == (t1 - t0) % Wrap
FaultyElapsedLate(t0, t1, duration) == duration = 0 \/ Since(t0, t1) > duration
FaultyElapsedSigned(t0, t1, duration) == duration = 0 \/ t1 - t0 >= duration
ElapsedAtLeast(t0, t1, duration) == duration = 0 \/ Since(t0, t1) >= duration

(* A heartbeat stamp of 0 means that none was ever seen. *)
FaultyFailsafeNeedsBeat(t, beat) == beat # 0 /\ Since(beat, t) > FailsafeTimeout
FailsafeTimedOut(t, beat) ==
  IF beat = 0 THEN t > FailsafeTimeout ELSE Since(beat, t) > FailsafeTimeout

CapAge(n) == IF n > AgeCap THEN AgeCap ELSE n
CapFilter(n) == IF n > FilterCap THEN FilterCap ELSE n

-----------------------------------------------------------------------------
(* The runtime as constructed at power-up; mode and fan mode are what the  *)
(* persisted settings restore.                                             *)
Init ==
  /\ now = 0
  /\ mode \in Modes /\ fan_mode \in FanInputs
  /\ circulate \in CirculateConfigs
  /\ hvac_lockout = FALSE /\ windows_open = FALSE
  /\ failsafe_active = FALSE /\ max_runtime_exceeded = FALSE
  /\ has_indoor_temp \in InitialTempKnown
  /\ heartbeat_last_seen = 0
  /\ hvac_state = "idle" /\ hvac_state_since = 0
  /\ last_off = [e \in Equipment |-> Never]
  /\ equipment_delay = FALSE
  /\ on = {} /\ fan = FALSE
  /\ fan_circulate_elapsed = 0 /\ last_minute_tick = 0
  /\ filter_minutes = 0
  /\ rest = [e \in Equipment |-> AgeCap]
  /\ run = 0 /\ silence = 0 /\ cut = {} /\ reboots = 0

-----------------------------------------------------------------------------
(* compute_hvac_calls: the equipment the mode selects is called when the   *)
(* room is beyond the deadband and stays called, while its relay is on,    *)
(* until the room is beyond the overrun.                                   *)
Calls(demand) ==
  { e \in Equipment : /\ has_indoor_temp
                      /\ mode = e
                      /\ demand = "call" \/ (demand = "hold" /\ e \in on) }

(* An open window suppresses the cool call and nothing else. *)
FaultyAdmittedCalls(demand) == Calls(demand)
AdmittedCalls(demand) == Calls(demand) \ (IF windows_open THEN {"cool"} ELSE {})

(* enter_idle: leaving a run stamps its off time; staying idle moves the   *)
(* start of the idle period too.                                           *)
FaultyEnterIdleBackdated ==
  /\ UNCHANGED last_off
  /\ hvac_state' = "idle" /\ hvac_state_since' = now' - 2 * MinIdle - 1 /\ on' = {}

EnterIdle ==
  /\ last_off' = IF hvac_state = "idle" THEN last_off
                 ELSE [last_off EXCEPT ![hvac_state] = now']
  /\ hvac_state' = "idle"
  /\ hvac_state_since' = now'
  /\ on' = {}

(* enter_heating, enter_cooling *)
FaultyEnterRunKeepsFlag(e) ==
  /\ hvac_state' = e /\ hvac_state_since' = now' /\ on' = {e}
  /\ equipment_delay' = FALSE
  /\ UNCHANGED <<last_off, max_runtime_exceeded>>

FaultyEnterRunKeepsSince(e) ==
  /\ hvac_state' = e /\ on' = {e}
  /\ equipment_delay' = FALSE /\ max_runtime_exceeded' = FALSE
  /\ UNCHANGED <<last_off, hvac_state_since>>

EnterRun(e) ==
  /\ hvac_state' = e
  /\ hvac_state_since' = now'
  /\ on' = {e}
  /\ equipment_delay' = FALSE
  /\ max_runtime_exceeded' = FALSE
  /\ UNCHANGED last_off

(* apply_hvac_calls while a run of e is on. *)
RunningTick(e, calls) ==
  LET elapsed(duration) == ElapsedAtLeast(hvac_state_since, now', duration)
      tooLong == MaxRun[e] > 0 /\ elapsed(MaxRun[e])
  IN /\ hvac_state = e
     /\ UNCHANGED equipment_delay
     /\ \/ /\ tooLong
           /\ EnterIdle
           /\ max_runtime_exceeded' = TRUE
        \/ /\ ~tooLong /\ e \notin calls /\ elapsed(MinRun[e])
           /\ EnterIdle
           /\ UNCHANGED max_runtime_exceeded
        \/ /\ ~tooLong /\ (e \in calls \/ ~elapsed(MinRun[e]))
           /\ on' = {e}
           /\ UNCHANGED <<hvac_state, hvac_state_since, last_off, max_runtime_exceeded>>

(* The equipment that is called and whose idle and off times have passed. *)
FaultyStartableIgnoresOff(calls) ==
  { e \in calls : ElapsedAtLeast(hvac_state_since, now', MinIdle) }

Startable(calls) ==
  { e \in calls :
      /\ ElapsedAtLeast(hvac_state_since, now', MinIdle)
      /\ last_off[e] = Never \/ ElapsedAtLeast(last_off[e], now', MinOff[e]) }

(* apply_hvac_calls while idle: heat is considered before cool. *)
IdleTick(calls) ==
  /\ hvac_state = "idle"
  /\ \/ "heat" \in Startable(calls) /\ EnterRun("heat")
     \/ "heat" \notin Startable(calls) /\ "cool" \in Startable(calls) /\ EnterRun("cool")
     \/ /\ Startable(calls) = {}
        /\ on' = {}
        /\ equipment_delay' = (calls # {})
        /\ UNCHANGED <<hvac_state, hvac_state_since, last_off, max_runtime_exceeded>>

Unsafe == failsafe_active \/ hvac_lockout

UnsafeTick ==
  /\ EnterIdle
  /\ equipment_delay' = FALSE
  /\ UNCHANGED max_runtime_exceeded

ApplyHvacCalls(calls) ==
  \/ Unsafe' /\ UnsafeTick
  \/ ~Unsafe' /\ \E e \in Equipment : RunningTick(e, calls)
  \/ ~Unsafe' /\ IdleTick(calls)

(* The fan demand when apply_hvac_calls returns.  Circulate leaves it as   *)
(* it was, except that starting a run clears it.                           *)
FanAfterCalls ==
  /\ ~Unsafe'
  /\ \/ fan_mode = "on"
     \/ fan_mode = "circulate" /\ fan /\ ~(hvac_state = "idle" /\ hvac_state' # "idle")

(* The circulation window: the first duration minutes of every period.     *)
FaultyInWindow(elapsed) == elapsed % circulate.period < circulate.duration - 1
InWindow(elapsed) == elapsed % circulate.period < circulate.duration

(* run_minute_tasks, then enforce_safety_interlocks.  minutes is how often *)
(* the minute loop runs; FanAfter(j) is the fan demand after j rounds.     *)
RunMinuteTasks ==
  LET started == last_minute_tick # 0
      minutes == IF started THEN Since(last_minute_tick, now') \div MinuteTicks ELSE 0
      circulating == ~Unsafe' /\ fan_mode = "circulate"
      FanAfter(j) == IF j > 0 /\ circulating THEN InWindow(fan_circulate_elapsed + j) /\ on' = {}
                     ELSE FanAfterCalls
      counted == { j \in 1 .. minutes : on' # {} \/ FanAfter(j - 1) }
  IN /\ last_minute_tick' = IF started THEN (last_minute_tick + minutes * MinuteTicks) % Wrap
                            ELSE now'
     /\ filter_minutes' = CapFilter(filter_minutes + Cardinality(counted))
     /\ fan_circulate_elapsed' = IF minutes = 0 THEN fan_circulate_elapsed
                                 ELSE IF circulating
                                      THEN (fan_circulate_elapsed + minutes) % CirculateCycle
                                      ELSE 0
     /\ fan' = (FanAfter(minutes) /\ ~Unsafe' /\ on' = {})

(* History: ages grow with the clock; rest[e] restarts while e is on. *)
RecordTick(d, beat) ==
  /\ rest' = [e \in Equipment |-> IF e \in on THEN 0 ELSE CapAge(rest[e] + d)]
  /\ run' = IF on = {} THEN 0 ELSE CapAge(run + d)
  /\ silence' = IF beat THEN 0 ELSE CapAge(silence + d)
  /\ cut' = cut \ on'

(* One pass of the loop, d after the previous one: the drained heartbeat   *)
(* is stamped with this pass's time, then update_failsafe,                 *)
(* apply_hvac_calls, run_minute_tasks and enforce_safety_interlocks.       *)
Tick(d, beat, demand) ==
  /\ now + d <= Horizon
  /\ now' = (now + d) % Wrap
  /\ heartbeat_last_seen' = IF beat THEN now' ELSE heartbeat_last_seen
  /\ failsafe_active' = (~has_indoor_temp \/ FailsafeTimedOut(now', heartbeat_last_seen'))
  /\ UNCHANGED <<userVars, has_indoor_temp, reboots>>
  /\ ApplyHvacCalls(AdmittedCalls(demand))
  /\ RunMinuteTasks
  /\ RecordTick(d, beat)

-----------------------------------------------------------------------------
(* An accepted command word: mode, fan and filter reset (a preserved field *)
(* is a field equal to the current one).  Changing the mode acknowledges   *)
(* the maximum-runtime flag.                                               *)
ApplyCommand(m, f, filterReset) ==
  /\ mode' = m /\ fan_mode' = f
  /\ max_runtime_exceeded' = (max_runtime_exceeded /\ m = mode)
  /\ filter_minutes' = IF filterReset THEN 0 ELSE filter_minutes
  /\ UNCHANGED <<clockVars, circulate, hvac_lockout, windows_open, equipmentVars,
                 fanVars, has_indoor_temp, historyVars>>

(* set_hvac_lockout: engaging it drops the relays and the state at once,   *)
(* without the bookkeeping of enter_idle.                                  *)
FaultySetHvacLockout(locked) ==
  /\ hvac_lockout' = locked
  /\ UNCHANGED <<clockVars, mode, fan_mode, circulate, windows_open, equipmentVars, fanVars,
                 max_runtime_exceeded, has_indoor_temp, filter_minutes, historyVars>>

SetHvacLockout(locked) ==
  /\ hvac_lockout' = locked
  /\ hvac_state' = IF locked THEN "idle" ELSE hvac_state
  /\ on' = IF locked THEN {} ELSE on
  /\ fan' = (fan /\ ~locked)
  /\ rest' = IF locked THEN [e \in Equipment |-> IF e \in on THEN 0 ELSE rest[e]] ELSE rest
  /\ run' = IF locked THEN 0 ELSE run
  /\ cut' = IF locked THEN cut \union on ELSE cut
  /\ UNCHANGED <<clockVars, mode, fan_mode, circulate, windows_open, hvac_state_since,
                 last_off, equipment_delay, fan_circulate_elapsed, last_minute_tick,
                 max_runtime_exceeded, has_indoor_temp, filter_minutes, silence, reboots>>

SetWindowsOpen(open) ==
  /\ windows_open' = open
  /\ UNCHANGED <<clockVars, mode, fan_mode, circulate, hvac_lockout, equipmentVars, fanVars,
                 max_runtime_exceeded, has_indoor_temp, filter_minutes, historyVars>>

(* set_fan_circulate_period_min, set_fan_circulate_duration_min *)
SetCirculate(c) ==
  /\ circulate' = c
  /\ UNCHANGED <<clockVars, mode, fan_mode, hvac_lockout, windows_open, equipmentVars,
                 fanVars, max_runtime_exceeded, has_indoor_temp, filter_minutes, historyVars>>

(* A sign of life of a display that came over MQTT, noted as the loop      *)
(* drains its queue after the tick.                                        *)
NoteHeartbeat ==
  /\ heartbeat_last_seen' = now
  /\ silence' = 0
  /\ UNCHANGED <<now, failsafe_active, userVars, equipmentVars, fanVars, max_runtime_exceeded,
                 has_indoor_temp, filter_minutes, rest, run, cut, reboots>>

(* The first temperature reading; it is never withdrawn. *)
OnIndoorTemperature ==
  /\ ~has_indoor_temp
  /\ has_indoor_temp' = TRUE
  /\ UNCHANGED <<clockVars, userVars, equipmentVars, fanVars, max_runtime_exceeded,
                 filter_minutes, historyVars>>

(* Power loss or restart: every volatile field starts over, and setup()    *)
(* restores the persisted mode and fan.  Lockout and windows are not       *)
(* persisted; neither are the off times.  The filter minutes come back as  *)
(* last persisted, which may lag (maybe_persist_filter_runtime throttles). *)
Reboot(m, f) ==
  /\ reboots < MaxReboots
  /\ reboots' = reboots + 1
  /\ now' = 0 /\ heartbeat_last_seen' = 0 /\ failsafe_active' = FALSE
  /\ mode' = m /\ fan_mode' = f
  /\ hvac_lockout' = FALSE /\ windows_open' = FALSE
  /\ max_runtime_exceeded' = FALSE
  /\ has_indoor_temp' \in InitialTempKnown
  /\ hvac_state' = "idle" /\ hvac_state_since' = 0
  /\ last_off' = [e \in Equipment |-> Never]
  /\ equipment_delay' = FALSE /\ on' = {} /\ fan' = FALSE
  /\ fan_circulate_elapsed' = 0 /\ last_minute_tick' = 0
  /\ rest' = [e \in Equipment |-> IF e \in on THEN 0 ELSE rest[e]]
  /\ run' = 0 /\ silence' = 0 /\ cut' = Equipment
  /\ filter_minutes' \in 0 .. filter_minutes
  /\ UNCHANGED circulate

SomeTick == \E d \in TickSteps, beat \in Beats, demand \in Demands : Tick(d, beat, demand)

Next ==
  \/ SomeTick
  \/ \E m \in Modes, f \in FanInputs, reset \in BOOLEAN : ApplyCommand(m, f, reset)
  \/ \E locked \in BOOLEAN : SetHvacLockout(locked)
  \/ \E open \in BOOLEAN : SetWindowsOpen(open)
  \/ \E c \in CirculateConfigs : SetCirculate(c)
  \/ NoteHeartbeat
  \/ OnIndoorTemperature
  \/ \E m \in Modes, f \in FanInputs : Reboot(m, f)

Spec == Init /\ [][Next]_vars

(* The loop task never stops calling tick; nothing else is promised.       *)
FairSpec == Spec /\ WF_vars(SomeTick)

-----------------------------------------------------------------------------
TypeOK ==
  /\ now \in Times
  /\ mode \in Modes /\ fan_mode \in FanModes /\ circulate \in CirculateConfigs
  /\ hvac_lockout \in BOOLEAN /\ windows_open \in BOOLEAN
  /\ failsafe_active \in BOOLEAN /\ max_runtime_exceeded \in BOOLEAN
  /\ has_indoor_temp \in BOOLEAN
  /\ heartbeat_last_seen \in Times
  /\ hvac_state \in {"idle"} \union Equipment
  /\ hvac_state_since \in Times
  /\ last_off \in [Equipment -> Times \union {Never}]
  /\ equipment_delay \in BOOLEAN
  /\ on \subseteq Equipment /\ fan \in BOOLEAN
  /\ fan_circulate_elapsed \in 0 .. CirculateCycle - 1
  /\ last_minute_tick \in Times
  /\ filter_minutes \in 0 .. FilterCap
  /\ rest \in [Equipment -> Ages] /\ run \in Ages /\ silence \in Ages
  /\ cut \subseteq Equipment
  /\ reboots \in 0 .. MaxReboots

(* The relays the runtime demands are those of its state, heating,         *)
(* cooling and the fan exclude each other, and under failsafe or lockout   *)
(* nothing is demanded: also between ticks, when a command or a lockout    *)
(* has just been applied.                                                  *)
RelaysFollowState == on = {hvac_state} \ {"idle"}
FanYields == fan => on = {}
NothingWhenUnsafe == Unsafe => on = {} /\ ~fan
RelaysSafe == RelaysFollowState /\ FanYields /\ NothingWhenUnsafe

(* The two flags shown to the user never contradict the relays: equipment  *)
(* that waits, or was stopped for running too long, is not running.        *)
FlagsOnlyAtRest == equipment_delay \/ max_runtime_exceeded => on = {}

(* Short-cycle protection: equipment starts only after its own minimum off *)
(* time and after the minimum idle time since any equipment ran, whatever  *)
(* mode changes, windows and failsafe episodes came between, unless a      *)
(* lockout or a restart ended its last run.                                *)
RestBetweenRuns ==
  [][\A e \in on' \ on : /\ e \notin cut => rest'[e] >= MinOff[e]
                         /\ \A o \in Equipment \ cut : rest'[o] >= MinIdle]_vars

(* What docs/system-spec-and-parity.md (C-04) says of every start: the     *)
(* minimum off time is enforced.                                           *)
RestAlways == [][\A e \in on' \ on : rest'[e] >= MinOff[e]]_vars

(* A run ends before its minimum run time only for failsafe, lockout, the  *)
(* maximum run time or a restart; a mode change or an open window waits.   *)
MinimumRun ==
  [][\A e \in on \ on' : \/ run' >= MinRun[e]
                         \/ Unsafe' \/ reboots' # reboots
                         \/ MaxRun[e] > 0 /\ run' >= MaxRun[e]]_vars

(* No run outlasts the maximum run time by more than the pass noticing it. *)
MaximumRun == \A e \in on : MaxRun[e] > 0 => run < MaxRun[e]

(* Nothing runs once the display has been silent for the failsafe timeout. *)
FailsafeInTime == on # {} \/ fan => silence <= FailsafeTimeout

(* Equipment that is called for good, and allowed to run, keeps running or *)
(* coming back (checked with Demands = {"call"}).                          *)
CallIsServed ==
  \A e \in Equipment :
    <>[](mode = e /\ ~Unsafe /\ ~(e = "cool" /\ windows_open)) => []<>(e \in on)

(* Windows left open end cooling, and it stays off.                        *)
WindowsStopCooling == <>[]windows_open => <>[]("cool" \notin on)

(* With no equipment running, circulation runs the fan again and again.    *)
FanCirculates ==
  <>[](fan_mode = "circulate" /\ mode = "off" /\ ~Unsafe) => []<>fan
=============================================================================
