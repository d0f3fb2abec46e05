------------------------------- MODULE RelayIo -------------------------------
(***************************************************************************)
(* ControllerRelayIo: turns the demanded relays into at most one energised *)
(* relay, with a dead time when one relay replaces another.  The module    *)
(* has no clock of its own: the time of the pass is the argument of Apply. *)
(*                                                                         *)
(* output is what was last written to the backend.                         *)
(***************************************************************************)
EXTENDS Integers

CONSTANTS
  Clock,   (* size of the millisecond clock: 2^32 in the code *)
  Wait     (* interlock wait per relay                        *)

Relays == {"heat", "cool", "fan", "spare"}
None == "none"

VARIABLES active, pending, pending_since, output
ioVars == <<active, pending, pending_since, output>>

(* begin(): everything off. *)
Begin == active = None /\ pending = None /\ pending_since = 0 /\ output = None

(* pick_single: the demanded relay of the highest priority. *)
PickSingle(demand) ==
  IF "heat" \in demand THEN "heat"
  ELSE IF "cool" \in demand THEN "cool"
  ELSE IF "fan" \in demand THEN "fan"
  ELSE IF "spare" \in demand THEN "spare"
  ELSE None

(* Make relay r (or None) the active one and drop any pending switch. *)
Settle(r) == active' = r /\ output' = r /\ pending' = None /\ pending_since' = 0

(* Everything off, r to follow after its wait. *)
FaultyStartWait(t, r) == pending' = r /\ pending_since' = t /\ UNCHANGED <<active, output>>
StartWait(t, r) == pending' = r /\ pending_since' = t /\ active' = None /\ output' = None

FaultyWaitOver(t) == (t - pending_since) % Clock < Wait[pending]
WaitOver(t) == (t - pending_since) % Clock >= Wait[pending]

(* The cases of apply() for a requested relay r, in its order. *)
Apply(t, demand, forceOff) ==
  LET r == IF forceOff THEN None ELSE PickSingle(demand)
      idle == active = None /\ pending = None
  IN \/ /\ r = None \/ r = active \/ idle
        /\ Settle(r)
     \/ /\ r \notin {None, active} /\ ~idle
        /\ \/ pending # r /\ StartWait(t, r)
           \/ pending = r /\ ~WaitOver(t) /\ output' = None /\ UNCHANGED <<active, pending, pending_since>>
           \/ pending = r /\ WaitOver(t) /\ Settle(r)
=============================================================================
