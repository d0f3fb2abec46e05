----------------------------- MODULE CommandPath -----------------------------
(***************************************************************************)
(* Commands from the displays to the controller.  A display (ThermostatApp *)
(* with its transport) sends each change over ESP-NOW, retries what was    *)
(* throttled or failed, and repeats its last word over MQTT; Home          *)
(* Assistant commands reach the same settings through the controller's     *)
(* shadow.  The controller keeps one sequence tracker per source, gates    *)
(* ESP-NOW words while MQTT is primary, and saves the settings it will     *)
(* restore after a restart.                                                *)
(*                                                                         *)
(* Time is left out: throttling, the primary hold and the debounce end     *)
(* whenever the model chooses.  Telemetry is the settings as they are when *)
(* the display hears of them.                                              *)
(***************************************************************************)
EXTENDS CommandRules, FiniteSets, Sequences

CONSTANTS
  Displays,
  MaxSources,        (* kMaxCommandSources                                 *)
  MaxRetries,        (* kMaxCommandRetries                                 *)
  RingSize,          (* of ControllerNode's inbound_ ring                  *)
  ModeInputs, FanInputs, Setpoints,   (* what users choose from            *)
  FieldInputs,       (* what they change at the display                    *)
  HaInputs,          (* what they change in Home Assistant                 *)
  DisplayStarts,     (* how displays start over: "boot", "reset"           *)
  MaxWords,          (* bound on the words a display sends                 *)
  MaxHa,             (* bound on Home Assistant commands                   *)
  MaxInFlight,       (* bound on the frames awaiting their send callback   *)
  MaxQueued,         (* bound on the MQTT words queued                     *)
  MaxRestarts        (* bound on restarts and sequence resets, each side   *)

Modes == {"off", "heat", "cool"}
NoWord == [id |-> 0]
NoOpts == [set |-> {}, sync |-> FALSE]
SyncOpts == [set |-> {}, sync |-> TRUE]
Unset == "unset"

ASSUME PathAssumption ==
  /\ MaxSources \in Nat /\ MaxRetries \in Nat /\ RingSize \in Nat
  /\ ModeInputs \subseteq Modes
  /\ FieldInputs \subseteq Fields /\ HaInputs \subseteq Fields
  /\ {MaxWords, MaxHa, MaxInFlight, MaxQueued, MaxRestarts} \subseteq Nat

VARIABLES
  (* per display *)
  local,        (* its mode, fan and setpoint bins                         *)
  seq_local, session,
  boots,        (* its boot count                                          *)
  last_word,    (* last_packed_command_                                    *)
  pending,      (* options of a throttled command, or NoOpts               *)
  unconfirmed,  (* options sent but not reported delivered, or NoOpts      *)
  retries,
  tracked,      (* what take_command_delivery would return                 *)
  debounce,     (* is the last local interaction recent?                   *)
  air,          (* accepted by esp_now_send, send callback outstanding     *)
  (* controller *)
  ring,         (* words received, not yet drained                         *)
  mqtt,         (* packed words on their way through the broker            *)
  espnow_command_enabled,
  sources,      (* trackers by display, the active slots only              *)
  settings,     (* the runtime's mode, fan and setpoint bins               *)
  shadow,       (* g_ctrl_shadow_...                                       *)
  persisted,    (* what NVS holds                                          *)
  (* history, and counters for the bounds *)
  want,         (* per display and field: the user's choice until applied  *)
  applied,      (* per display: its word applied last                      *)
  sent, ha_count, restarts

displayVars == <<local, seq_local, session, boots, last_word, pending, unconfirmed, retries,
                 tracked, debounce, sent>>
controllerVars == <<espnow_command_enabled, sources, settings, shadow, persisted, applied>>
vars == <<displayVars, air, ring, mqtt, controllerVars, want, ha_count, restarts>>

Initially(sp) == [mode |-> "off", fan |-> "automatic", heat |-> sp, cool |-> sp]
NothingWanted == [f \in Fields |-> Unset]
NeverApplied == [id |-> 0, session |-> 0, turn |-> 0]
NoShadow == [have |-> FALSE, mode |-> "off", fan |-> "automatic", setpoint |-> 0]
NothingSaved == [have |-> FALSE, mode |-> "off", fan |-> "automatic", heat |-> 0, cool |-> 0]

Init ==
  /\ \E sp \in Setpoints : local = [d \in Displays |-> Initially(sp)] /\ settings = Initially(sp)
  /\ seq_local = [d \in Displays |-> 0]
  /\ boots = [d \in Displays |-> 0]
  /\ session = [d \in Displays |-> NextSession(0)]
  /\ last_word = [d \in Displays |-> NoWord]
  /\ pending = [d \in Displays |-> NoOpts]
  /\ unconfirmed = [d \in Displays |-> NoOpts]
  /\ retries = [d \in Displays |-> 0]
  /\ tracked = [d \in Displays |-> "none"]
  /\ debounce = [d \in Displays |-> FALSE]
  /\ air = [d \in Displays |-> <<>>]
  /\ ring = <<>> /\ mqtt = <<>> /\ espnow_command_enabled = TRUE
  /\ sources = [d \in {} |-> NewTracker]
  /\ shadow = NoShadow /\ persisted = NothingSaved
  /\ want = [d \in Displays |-> NothingWanted]
  /\ applied = [d \in Displays |-> NeverApplied]
  /\ sent = [d \in Displays |-> 0]
  /\ ha_count = 0 /\ restarts = 0

(* History: the value a word carries for a field; wishes given up.         *)
Carried(word, f) == IF f = "filter" THEN TRUE ELSE word[f]
Forget(wishes, set) == [f \in Fields |-> IF f \in set THEN Unset ELSE wishes[f]]
Grant(wishes, word) ==
  Forget(wishes, { f \in word.set : wishes[f] # Unset /\ wishes[f] = Carried(word, f) })

-----------------------------------------------------------------------------
(* The display. *)

(* The word transmit_command builds from the settings and counters given,  *)
(* and what becomes of it: the transport throttles it, hands it to the     *)
(* radio (it is then the one word tracked), or the radio rejects it.       *)
(* open is unconfirmed as the caller left it.                              *)
Send(d, opts, settled, seq, sess, open) ==
  LET word == [id |-> sent[d] + 1, seq |-> seq, session |-> sess, set |-> opts.set,
               sync |-> opts.sync, mode |-> settled.mode, fan |-> settled.fan,
               setpoint |-> Target(settled)]
      untracked == [i \in DOMAIN air[d] |-> [air[d][i] EXCEPT !.tracked = FALSE]]
      throttled == /\ pending' = [pending EXCEPT ![d] = opts]
                   /\ unconfirmed' = [unconfirmed EXCEPT ![d] = open]
                   /\ tracked' = [tracked EXCEPT ![d] = "none"]
                   /\ air' = [air EXCEPT ![d] = untracked]
      attempted == /\ pending' = [pending EXCEPT ![d] = NoOpts]
                   /\ unconfirmed' = [unconfirmed EXCEPT ![d] = opts]
      accepted == /\ Len(air[d]) < MaxInFlight
                  /\ tracked' = [tracked EXCEPT ![d] = "pending"]
                  /\ air' = [air EXCEPT ![d] = Append(untracked, [word |-> word, tracked |-> TRUE])]
      rejected == /\ tracked' = [tracked EXCEPT ![d] = "failed"]
                  /\ air' = [air EXCEPT ![d] = untracked]
  IN /\ sent[d] < MaxWords
     /\ sent' = [sent EXCEPT ![d] = @ + 1]
     /\ seq_local' = [seq_local EXCEPT ![d] = seq]
     /\ last_word' = [last_word EXCEPT ![d] = word]
     /\ throttled \/ (attempted /\ (accepted \/ rejected))

(* transmit_command: what is throttled or unconfirmed is folded in. *)
Transmit(d, requested, settled, owed, open) ==
  Send(d, Merge(Merge(requested, owed), open), settled, NextSeq(seq_local[d]), session[d], open)

(* set_local_mode, set_local_fan_mode, set_local_setpoint_c,               *)
(* request_filter_reset: change the setting, start the debounce, send.     *)
Chosen(d, f, value) ==
  CASE f = "mode" -> [local[d] EXCEPT !.mode = value]
    [] f = "fan" -> [local[d] EXCEPT !.fan = value]
    [] f = "setpoint" -> IF local[d].mode = "cool" THEN [local[d] EXCEPT !.cool = value]
                         ELSE [local[d] EXCEPT !.heat = value]
    [] f = "filter" -> local[d]

Choices(f) ==
  CASE f = "mode" -> ModeInputs
    [] f = "fan" -> FanInputs
    [] f = "setpoint" -> Setpoints
    [] f = "filter" -> {TRUE}

SetLocal(d, f, value) ==
  /\ local' = [local EXCEPT ![d] = Chosen(d, f, value)]
  /\ debounce' = [debounce EXCEPT ![d] = TRUE]
  /\ retries' = [retries EXCEPT ![d] = 0]
  /\ Transmit(d, [set |-> {f}, sync |-> FALSE], local'[d], pending[d], unconfirmed[d])
  /\ want' = [want EXCEPT ![d][f] = value]
  /\ UNCHANGED <<session, boots, ring, mqtt, controllerVars, ha_count, restarts>>

RequestSync(d) ==
  /\ debounce' = [debounce EXCEPT ![d] = TRUE]
  /\ retries' = [retries EXCEPT ![d] = 0]
  /\ Transmit(d, SyncOpts, local[d], pending[d], unconfirmed[d])
  /\ UNCHANGED <<local, session, boots, ring, mqtt, controllerVars, want, ha_count, restarts>>

(* A word reported failed is sent again, a few times per local change. *)
FaultyMayRetry(d) == tracked[d] = "failed" /\ unconfirmed[d] # NoOpts
MayRetry(d) == tracked[d] = "failed" /\ unconfirmed[d] # NoOpts /\ retries[d] < MaxRetries

(* send_pending_command, on every pass of the loop.  A word reported       *)
(* delivered, or replaced by a throttled one, is no longer unconfirmed; a  *)
(* failed one is owed again until the retries run out.                     *)
SendPending(d) ==
  LET retry == MayRetry(d)
      open == IF retry \/ tracked[d] = "pending" THEN unconfirmed[d] ELSE NoOpts
      owed == IF retry THEN Merge(pending[d], unconfirmed[d]) ELSE pending[d]
  IN /\ retries' = [retries EXCEPT ![d] = IF retry THEN @ + 1 ELSE @]
     /\ \/ owed # NoOpts /\ Transmit(d, owed, local[d], owed, open)
        \/ /\ owed = NoOpts
           /\ tracked' = [tracked EXCEPT ![d] = IF @ = "pending" THEN @ ELSE "none"]
           /\ pending' = [pending EXCEPT ![d] = owed]
           /\ unconfirmed' = [unconfirmed EXCEPT ![d] = open]
           /\ UNCHANGED <<seq_local, last_word, air, sent>>
     /\ want' = IF tracked[d] = "failed" /\ ~retry
                THEN [want EXCEPT ![d] = Forget(@, unconfirmed[d].set)] ELSE want
     /\ UNCHANGED <<local, session, boots, debounce, ring, mqtt, controllerVars, ha_count, restarts>>

(* The send callback of the oldest frame that has one outstanding.  The    *)
(* controller receives it never, once or (an acknowledgement was lost)     *)
(* twice; an acknowledged frame was received.  Without room in the ring    *)
(* a received word is dropped.  A callback that never comes leaves a       *)
(* tracked word waiting.                                                   *)
SendCallback(d, copies, ack, called) ==
  LET frame == Head(air[d])
      fits == IF Len(ring) + copies > RingSize THEN RingSize - Len(ring) ELSE copies
  IN /\ air[d] # <<>>
     /\ ack => copies > 0
     /\ air' = [air EXCEPT ![d] = Tail(@)]
     /\ ring' = ring \o [i \in 1 .. fits |-> [from |-> d, word |-> frame.word]]
     /\ tracked' = [tracked EXCEPT ![d] = IF ~frame.tracked \/ ~called THEN @
                                          ELSE IF ack THEN "delivered" ELSE "failed"]
     /\ want' = IF copies > 0 /\ fits = 0
                THEN [want EXCEPT ![d] = Forget(@, frame.word.set)] ELSE want
     /\ UNCHANGED <<local, seq_local, session, boots, last_word, pending, unconfirmed, retries,
                    debounce, sent, mqtt, controllerVars, ha_count, restarts>>

(* check_lost_callbacks: the word whose callback is missing is reported    *)
(* failed.                                                                 *)
ResyncTracker(d) ==
  /\ tracked[d] = "pending" /\ air[d] = <<>>
  /\ tracked' = [tracked EXCEPT ![d] = "failed"]
  /\ UNCHANGED <<local, seq_local, session, boots, last_word, pending, unconfirmed, retries,
                 debounce, sent, air, ring, mqtt, controllerVars, want, ha_count, restarts>>

(* mqtt_publish_state repeats the last word, sent or not. *)
PublishPackedCommand(d) ==
  /\ last_word[d] # NoWord
  /\ Len(mqtt) < MaxQueued
  /\ mqtt' = Append(mqtt, [from |-> d, word |-> last_word[d]])
  /\ UNCHANGED <<displayVars, air, ring, controllerVars, want, ha_count, restarts>>

(* Telemetry, or the controller's MQTT state: ignored for the debounce     *)
(* time after a local change.                                              *)
HearController(d) ==
  /\ ~debounce[d]
  /\ local' = [local EXCEPT ![d] =
                 IntoBin([@ EXCEPT !.mode = settings.mode, !.fan = settings.fan],
                         settings.mode, Target(settings))]
  /\ UNCHANGED <<seq_local, session, boots, last_word, pending, unconfirmed, retries, tracked,
                 debounce, sent, air, ring, mqtt, controllerVars, want, ha_count, restarts>>

Settled(d) ==
  /\ pending[d] = NoOpts /\ unconfirmed[d] = NoOpts /\ tracked[d] = "none" /\ air[d] = <<>>
  /\ \A i \in DOMAIN ring : ring[i].from # d

(* The debounce (5 s) outlasts the retries of a change.                    *)
DebounceOver(d) ==
  /\ debounce[d] /\ Settled(d)
  /\ debounce' = [debounce EXCEPT ![d] = FALSE]
  /\ UNCHANGED <<local, seq_local, session, boots, last_word, pending, unconfirmed, retries, tracked,
                 sent, air, ring, mqtt, controllerVars, want, ha_count, restarts>>

(* reset_local_command_sequence, or the constructor after a restart (its   *)
(* session comes from the boot count), then the sync request that follows. *)
StartOver(d, settled, sess) ==
  /\ restarts < MaxRestarts
  /\ restarts' = restarts + 1
  /\ local' = [local EXCEPT ![d] = settled]
  /\ session' = [session EXCEPT ![d] = sess]
  /\ retries' = [retries EXCEPT ![d] = 0]
  /\ debounce' = [debounce EXCEPT ![d] = TRUE]
  /\ Send(d, SyncOpts, settled, NextSeq(0), sess, NoOpts)
  /\ want' = [want EXCEPT ![d] = NothingWanted]
  /\ UNCHANGED <<ring, mqtt, controllerVars, ha_count>>

ResetLocalSequence(d) == StartOver(d, local[d], NextSession(session[d])) /\ UNCHANGED boots

RestartDisplay(d) ==
  /\ boots' = [boots EXCEPT ![d] = @ + 1]
  /\ \E sp \in Setpoints :
       StartOver(d, Initially(sp), NextSession(boots'[d] % MaxSession))

-----------------------------------------------------------------------------
(* The controller. *)

(* ctrl_apply_packed_command once its word is accepted: the shadow follows *)
(* the settings, and they are saved.                                       *)
Remember(new) ==
  /\ shadow' = [have |-> TRUE, mode |-> new.mode, fan |-> new.fan, setpoint |-> Target(new)]
  /\ persisted' = [have |-> TRUE, mode |-> new.mode, fan |-> new.fan,
                   heat |-> new.heat, cool |-> new.cool]

(* apply_remote_command for a word of display d.  A display without a      *)
(* tracker takes a free slot; if there is none its word is rejected.  Only *)
(* a word that came over MQTT is remembered.                               *)
IsAccepted(d, word) ==
  IF d \in DOMAIN sources THEN IsFresh(sources[d], word)
  ELSE Cardinality(DOMAIN sources) < MaxSources

ApplyWord(d, word, viaMqtt) ==
  \/ /\ ~IsAccepted(d, word)
     /\ want' = IF word.id < applied[d].id THEN [want EXCEPT ![d] = Forget(@, word.set)] ELSE want
     /\ UNCHANGED <<sources, settings, shadow, persisted, applied>>
  \/ /\ IsAccepted(d, word)
     /\ sources' = [e \in DOMAIN sources \union {d} |->
                      IF e = d THEN [seq |-> word.seq, session |-> word.session] ELSE sources[e]]
     /\ settings' = Obey(settings, word)
     /\ IF viaMqtt THEN Remember(settings') ELSE UNCHANGED <<shadow, persisted>>
     /\ applied' = [applied EXCEPT ![d] = [id |-> word.id, session |-> word.session,
                                           turn |-> IF word.id = @.id THEN 1 - @.turn ELSE 0]]
     /\ want' = [want EXCEPT ![d] = Grant(@, word)]

(* One frame of drain_inbound; dropped when ESP-NOW commands are gated. *)
DrainRing ==
  /\ ring # <<>>
  /\ ring' = Tail(ring)
  /\ LET in == Head(ring)
     IN \/ espnow_command_enabled /\ ApplyWord(in.from, in.word, FALSE)
        \/ /\ ~espnow_command_enabled
           /\ want' = [want EXCEPT ![in.from] = Forget(@, in.word.set)]
           /\ UNCHANGED <<sources, settings, shadow, persisted, applied>>
  /\ UNCHANGED <<displayVars, air, mqtt, espnow_command_enabled, ha_count, restarts>>

(* A packed word drained from the MQTT queue. *)
DrainPackedCommand ==
  /\ mqtt # <<>>
  /\ mqtt' = Tail(mqtt)
  /\ ApplyWord(Head(mqtt).from, Head(mqtt).word, TRUE)
  /\ UNCHANGED <<displayVars, air, ring, espnow_command_enabled, ha_count, restarts>>

(* The broker or a reconnect loses the oldest word. *)
LosePackedCommand ==
  /\ mqtt # <<>>
  /\ mqtt' = Tail(mqtt)
  /\ UNCHANGED <<displayVars, air, ring, controllerVars, want, ha_count, restarts>>

(* set_espnow_command_enabled, in every pass: off while the broker is      *)
(* connected and the last MQTT command is recent.  Both are left out, so   *)
(* the gate is free.                                                       *)
SetCommandGate(enabled) ==
  /\ espnow_command_enabled' = enabled
  /\ UNCHANGED <<displayVars, air, ring, mqtt, sources, settings, shadow, persisted, applied,
                 want, ha_count, restarts>>

(* cmd/mode, cmd/fan_mode, cmd/target_temp_c, cmd/filter_reset and         *)
(* cmd/sync: set the shadow, then apply it as a word of the default source *)
(* that sets one field.  That source numbers its words itself and is       *)
(* always fresh.  A target given while the shadow says off also goes to    *)
(* the heat bin.                                                           *)
HaWord(set, sync, shown, base) ==
  LET word == [set |-> set, sync |-> sync, mode |-> shown.mode, fan |-> shown.fan,
               setpoint |-> shown.setpoint]
  IN /\ ha_count < MaxHa
     /\ ha_count' = ha_count + 1
     /\ settings' = Obey(base, word)
     /\ Remember(settings')
     /\ UNCHANGED <<displayVars, air, ring, mqtt, espnow_command_enabled, sources, applied,
                    want, restarts>>

HaSet(f, value) ==
  CASE f = "mode" -> HaWord({f}, FALSE, [shadow EXCEPT !.mode = value], settings)
    [] f = "fan" -> HaWord({f}, FALSE, [shadow EXCEPT !.fan = value], settings)
    [] f = "setpoint" -> HaWord({f}, FALSE, [shadow EXCEPT !.setpoint = value],
                                IF shadow.mode = "off" THEN [settings EXCEPT !.heat = value]
                                ELSE settings)
    [] f = "filter" -> shadow.have /\ HaWord({f}, FALSE, shadow, settings)

HaSync == shadow.have /\ HaWord({}, TRUE, shadow, settings)

(* cmd/reset_sequence: every tracker is forgotten. *)
ResetRemoteSequence ==
  /\ restarts < MaxRestarts
  /\ restarts' = restarts + 1
  /\ sources' = [d \in {} |-> NewTracker]
  /\ applied' = [d \in Displays |-> NeverApplied]
  /\ UNCHANGED <<displayVars, air, ring, mqtt, espnow_command_enabled, settings, shadow,
                 persisted, want, ha_count>>

(* The controller restarts: what was queued is gone, and setup() applies   *)
(* the saved settings through the shadow, preserving nothing.              *)
RestartController ==
  /\ restarts < MaxRestarts
  /\ restarts' = restarts + 1
  /\ ring' = <<>> /\ mqtt' = <<>> /\ espnow_command_enabled' = TRUE
  /\ sources' = [d \in {} |-> NewTracker]
  /\ \/ /\ persisted.have
        /\ settings' = [mode |-> persisted.mode, fan |-> persisted.fan,
                        heat |-> persisted.heat, cool |-> persisted.cool]
        /\ shadow' = [have |-> TRUE, mode |-> persisted.mode, fan |-> persisted.fan,
                      setpoint |-> Target(settings')]
     \/ /\ ~persisted.have
        /\ \E sp \in Setpoints : settings' = Initially(sp)
        /\ shadow' = NoShadow
  /\ applied' = [d \in Displays |-> [applied[d] EXCEPT !.session = 0]]
  /\ want' = [d \in Displays |-> NothingWanted]
  /\ UNCHANGED <<displayVars, air, persisted, ha_count>>

-----------------------------------------------------------------------------
DisplayNext(d) ==
  \/ \E f \in FieldInputs : \E value \in Choices(f) : SetLocal(d, f, value)
  \/ RequestSync(d)
  \/ SendPending(d)
  \/ \E copies \in 0 .. 2, ack, called \in BOOLEAN : SendCallback(d, copies, ack, called)
  \/ ResyncTracker(d)
  \/ PublishPackedCommand(d)
  \/ HearController(d)
  \/ DebounceOver(d)
  \/ ("reset" \in DisplayStarts /\ ResetLocalSequence(d))
  \/ ("boot" \in DisplayStarts /\ RestartDisplay(d))

ControllerNext ==
  \/ DrainRing
  \/ DrainPackedCommand
  \/ LosePackedCommand
  \/ \E enabled \in BOOLEAN : SetCommandGate(enabled)
  \/ \E f \in HaInputs : \E value \in Choices(f) : HaSet(f, value)
  \/ HaSync
  \/ ResetRemoteSequence
  \/ RestartController

Next == ControllerNext \/ \E d \in Displays : DisplayNext(d)

Spec == Init /\ [][Next]_vars

-----------------------------------------------------------------------------
Options == [set : SUBSET Fields, sync : BOOLEAN]
Settings == [mode : Modes, fan : FanInputs \union {"automatic"}, heat : Setpoints, cool : Setpoints]
Trackers == [seq : 0 .. SeqSize - 1, session : 1 .. MaxSession]

(* Types, with the limits the code promises: the retries of a change, the  *)
(* ring, one source slot per display, a sync request only on its own, and  *)
(* one word being tracked at a time.                                       *)
PathTypeOK ==
  /\ local \in [Displays -> Settings] /\ settings \in Settings
  /\ seq_local \in [Displays -> 0 .. SeqSize - 1]
  /\ session \in [Displays -> 1 .. MaxSession]
  /\ pending \in [Displays -> Options] /\ unconfirmed \in [Displays -> Options]
  /\ \A d \in Displays : \A o \in {pending[d], unconfirmed[d]} : o.sync => o.set = {}
  /\ retries \in [Displays -> 0 .. MaxRetries]
  /\ tracked \in [Displays -> {"none", "pending", "failed", "delivered"}]
  /\ debounce \in [Displays -> BOOLEAN] /\ espnow_command_enabled \in BOOLEAN
  /\ \A d \in Displays : Cardinality({ i \in DOMAIN air[d] : air[d][i].tracked }) <= 1
  /\ Len(ring) <= RingSize
  /\ Cardinality(DOMAIN sources) <= MaxSources
  /\ \A d \in DOMAIN sources : sources[d] \in Trackers

(* Within one session of a display, as far back as the controller knows of *)
(* it, it never applies a word again, nor an older one after a newer one,  *)
(* whichever path each copy took.  (docs/system-spec-and-parity.md, C-01)  *)
StaleRejected ==
  [][\A d \in Displays :
       applied'[d] # applied[d] /\ applied'[d].session = applied[d].session
       /\ applied[d].session # 0
         => applied'[d].id > applied[d].id]_vars

(* A word newer than everything applied from its display is applied when   *)
(* the ring is drained, however its sender restarted or reset since.       *)
(* (include/espnow_cmd_word.h:22)                                          *)
NewerWordApplied ==
  [][\A d \in Displays :
       (ring # <<>> /\ ring' = Tail(ring) /\ restarts' = restarts /\ espnow_command_enabled
        /\ Head(ring).from = d
        /\ Head(ring).word.id > applied[d].id)
         => applied'[d].id = Head(ring).word.id]_vars

(* Once a display owes nothing and nothing of it is on the way, each of    *)
(* the user's latest choices has reached the controller, unless a word     *)
(* that carried it was given up, found no room in the ring, was gated, or  *)
(* was overtaken by a newer word on the other path.                        *)
NoChoiceLost == \A d \in Displays : Settled(d) => want[d] = NothingWanted
=============================================================================
