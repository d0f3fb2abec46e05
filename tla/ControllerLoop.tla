---------------------------- MODULE ControllerLoop ----------------------------
(***************************************************************************)
(* One loop() pass of the controller: ControllerNode::tick, then the relay *)
(* layer applied with the snapshot of that same pass and the same now, and *)
(* between passes the commands, lockout and windows flag that the drained  *)
(* MQTT messages set.  What is energised is output, what the runtime       *)
(* demands is Demand; a lockout drained after the relay layer ran reaches  *)
(* the relays in the next pass.                                            *)
(***************************************************************************)
EXTENDS HvacRuntime

CONSTANTS
  RelayWait,   (* interlock wait per relay *)
  RestCap      (* bound on the history ages of this module *)

VARIABLES
  active, pending, pending_since, output,
  (* history *)
  coil_rest,   (* per equipment: time since its relay was energised *)
  dead,        (* time since any relay was energised *)
  coil_cut     (* equipment whose relay a lockout released *)

IO == INSTANCE RelayIo WITH Clock <- Wrap, Wait <- RelayWait

ASSUME LoopAssumption ==
  /\ RelayWait \in [IO!Relays -> Nat]
  /\ RestCap \in Nat /\ \A r \in IO!Relays : RelayWait[r] <= RestCap

relayVars == <<active, pending, pending_since, output>>
coilVars == <<coil_rest, dead, coil_cut>>
loopVars == <<vars, relayVars, coilVars>>

Demand == on \union (IF fan THEN {"fan"} ELSE {})

LoopInit ==
  /\ Init
  /\ IO!Begin
  /\ coil_rest = [e \in Equipment |-> RestCap]
  /\ dead = RestCap
  /\ coil_cut = {}

CapRest(n) == IF n > RestCap THEN RestCap ELSE n

(* Ages are read at the pass that energises a relay, and restart while it is on. *)
RecordCoils(d) ==
  /\ coil_rest' = [e \in Equipment |-> IF output = e THEN 0 ELSE CapRest(coil_rest[e] + d)]
  /\ dead' = IF output # IO!None THEN 0 ELSE CapRest(dead + d)
  /\ coil_cut' = coil_cut \ {output'}

(* g_relay_io.apply(now, snap.relay, failsafe or lockout), right after the tick. *)
FaultyApplyRelays == IO!Apply(now, Demand, FALSE)
ApplyRelays == IO!Apply(now', Demand', Unsafe')

Pass(d, beat, demand) ==
  /\ Tick(d, beat, demand)
  /\ ApplyRelays
  /\ RecordCoils(d)

(* Handlers of drained MQTT messages; none touches the relay layer. *)
UserAction ==
  \/ \E m \in Modes, f \in FanInputs, reset \in BOOLEAN : ApplyCommand(m, f, reset)
  \/ \E open \in BOOLEAN : SetWindowsOpen(open)
  \/ NoteHeartbeat

DrainUser == UserAction /\ UNCHANGED <<relayVars, coilVars>>

DrainLockout(locked) ==
  /\ SetHvacLockout(locked)
  /\ coil_cut' = IF locked THEN coil_cut \union ({output} \intersect Equipment) ELSE coil_cut
  /\ UNCHANGED <<relayVars, coil_rest, dead>>

SomePass == \E d \in TickSteps, beat \in Beats, demand \in Demands : Pass(d, beat, demand)

LoopNext ==
  \/ SomePass
  \/ DrainUser
  \/ \E locked \in BOOLEAN : DrainLockout(locked)

LoopSpec == LoopInit /\ [][LoopNext]_loopVars

-----------------------------------------------------------------------------
(* Types of the relay layer and of the ages around it, with those of the  *)
(* decision core.                                                          *)
LoopTypeOK ==
  /\ TypeOK
  /\ active \in IO!Relays \union {IO!None} /\ output \in IO!Relays \union {IO!None}
  /\ pending \in IO!Relays \union {IO!None}
  /\ pending_since \in Times
  /\ coil_rest \in [Equipment -> 0 .. RestCap] /\ dead \in 0 .. RestCap
  /\ coil_cut \subseteq Equipment

(* One relay replaces another only through all-off, and a relay that was   *)
(* waiting for its turn gets it no sooner than its interlock wait after    *)
(* the others were released.                                               *)
SwitchWaits ==
  [][output' \notin {IO!None, output} =>
       output = IO!None /\ (pending # IO!None => dead' >= RelayWait[output'])]_loopVars

(* What is energised after a pass is what the runtime demands in it, never *)
(* in failsafe or lockout.                                                 *)
OutputWithinDemand ==
  [][now' # now => output' \in {IO!None} \union Demand' /\ (Unsafe' => output' = IO!None)]_loopVars

(* The minimum off time holds at the relay itself: the interlock delays    *)
(* and the order of drains and passes do not eat into it, unless a lockout *)
(* released the relay.                                                     *)
CoilRests ==
  [][\A e \in Equipment \ coil_cut :
       output' = e /\ output # e => coil_rest'[e] >= MinOff[e]]_loopVars
=============================================================================
