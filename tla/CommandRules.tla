----------------------------- MODULE CommandRules -----------------------------
(***************************************************************************)
(* The rules a command word obeys on its way from a display to the         *)
(* controller: sequence and session arithmetic (espnow_cmd), how the       *)
(* controller tells a fresh word from a stale one, what an accepted word   *)
(* does to the settings, and how the display folds commands together.      *)
(*                                                                         *)
(* A word names the fields it sets in set; the preserve_... bits are the   *)
(* fields left out of it.  Setting "filter" is the filter_reset bit.       *)
(***************************************************************************)
EXTENDS Integers

CONSTANTS
  SeqSize,      (* size of the sequence ring: 512 in the code *)
  MaxSession    (* kMaxSession *)

ASSUME RingAssumption == SeqSize \in Nat \ {0} /\ MaxSession \in Nat \ {0}

Fields == {"mode", "fan", "setpoint", "filter"}
NewTracker == [seq |-> 0, session |-> 0]

NextSeq(seq) == (seq + 1) % SeqSize
NextSession(session) == (session % MaxSession) + 1

(* is_newer_seq: ahead on the ring by at most half of it. *)
FaultyIsNewerSeq(last, incoming) == incoming # last
IsNewerSeq(last, incoming) == (incoming - last) % SeqSize \in 1 .. SeqSize \div 2

(* The check of apply_remote_command.  A new session is adopted whatever   *)
(* its seq; a stored seq of 0 counts as none.                              *)
FaultyIsFresh(tracker, word) == tracker.seq = 0 \/ IsNewerSeq(tracker.seq, word.seq)
IsFresh(tracker, word) ==
  \/ word.session \notin {0, tracker.session}
  \/ tracker.seq = 0
  \/ IsNewerSeq(tracker.seq, word.seq)

(* The setpoint the settings show: Off shows the heat bin. *)
Target(settings) == IF settings.mode = "cool" THEN settings.cool ELSE settings.heat

(* A setpoint goes to the bin of the mode; off has none. *)
IntoBin(settings, mode, sp) ==
  [settings EXCEPT !.heat = IF mode = "heat" THEN sp ELSE @,
                   !.cool = IF mode = "cool" THEN sp ELSE @]

(* What an accepted word does to the settings.  A sync request does        *)
(* nothing; the setpoint is routed by the mode that results.               *)
Obey(settings, word) ==
  LET mode == IF "mode" \in word.set THEN word.mode ELSE settings.mode
      fan == IF "fan" \in word.set THEN word.fan ELSE settings.fan
      new == [settings EXCEPT !.mode = mode, !.fan = fan]
  IN IF word.sync THEN settings
     ELSE IF "setpoint" \in word.set THEN IntoBin(new, mode, word.setpoint)
     ELSE new

(* merge_send_options: every field either one sets; a sync request only    *)
(* survives on its own.                                                    *)
FaultyMerge(a, b) == a
Merge(a, b) ==
  LET set == a.set \union b.set
  IN [set |-> set, sync |-> (a.sync \/ b.sync) /\ set = {}]
=============================================================================
