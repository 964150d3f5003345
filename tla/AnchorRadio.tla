----------------------------- MODULE AnchorRadio -----------------------------
(***************************************************************************)
(* Anchor's way back to the swarm (firmware/anchor, parts 8, 10, 11, 13    *)
(* and 14): the radio watchdog sees that the radio is down, that sends     *)
(* fail or that nothing is heard, restarts ESP-NOW at most every RescueMin *)
(* and, when an episode lasts too long, the whole node.                    *)
(*                                                                         *)
(* Instants are millis() in units of the watchdog's period, modulo Turn:   *)
(* the clock wraps around. As in the code, 0 stands for "never".           *)
(***************************************************************************)
EXTENDS Integers

CONSTANTS
  Turn,            (* 2^32 ms                                              *)
  MaxPause,        (* the longest pass of loop()                           *)
  DirectBlackout,  (* 4500 ms without Buzz, when unicasts to it fail       *)
  MasterBlackout, RxBlackout, RescueMin,    (* ANCHOR_RADIO_...            *)
  BootGrace, HardRestart, HardMinRescues    (* ANCHOR_SWARM_REJOIN_...     *)

ASSUME RadioTimers ==
  /\ Turn \in Nat /\ MaxPause \in Nat \ {0}
  /\ {DirectBlackout, MasterBlackout, RxBlackout, RescueMin, BootGrace,
      HardRestart, HardMinRescues} \subseteq Nat \ {0}
  /\ DirectBlackout < MasterBlackout /\ MasterBlackout < RxBlackout
  /\ BootGrace <= HardRestart
  (* The rescues that a restart asks for, 4 of 9 s, take less than its 15
     minutes, and all of it is short beside half a turn, 24.8 days. *)
  /\ HardMinRescues * (RescueMin + MaxPause - 1) < HardRestart
  /\ 2 * (2 * (MasterBlackout + HardRestart) + 4 * MaxPause) <= Turn

VARIABLES
  now,           (* millis() at the last pass of loop()                    *)
  espNow,        (* ESP-NOW runs: "up", "deaf" (nothing arrives) or "down" *)
  lastMasterMs, lastAnyRxMs,
  lastRescueMs,  (* anchorRadioLastRescueMs                                *)
  firstMissing,  (* anchorSwarmRejoinFirstMissingMs                        *)
  rescues,       (* anchorSwarmRejoinEpisodeRescues, up to HardMinRescues  *)
  quiet,         (* history: time since the node booted, heard Buzz or     *)
                 (* took up a slice that had waited                        *)
  unrescued      (* history: and since the last rescue                     *)

radioVars == <<now, espNow, lastMasterMs, lastAnyRxMs, lastRescueMs,
               firstMissing, rescues, quiet, unrescued>>

(* setup(): setupEspNow() may fail, and its callbacks may not register. *)
Boot(state) ==
  /\ now' = 0 /\ espNow' = state
  /\ lastMasterMs' = 0 /\ lastAnyRxMs' = 0 /\ lastRescueMs' = 0
  /\ firstMissing' = 0 /\ rescues' = 0 /\ quiet' = 0 /\ unrescued' = 0

RadioInit ==
  /\ now = 0 /\ espNow \in {"up", "deaf", "down"}
  /\ lastMasterMs = 0 /\ lastAnyRxMs = 0 /\ lastRescueMs = 0
  /\ firstMissing = 0 /\ rescues = 0 /\ quiet = 0 /\ unrescued = 0

----------------------------------------------------------------------------
(* janusSafeAgeMs: an instant that is more than half a turn back counts as
   the present. *)
SafeAge(t, then, missing) ==
  IF then = 0 THEN missing
  ELSE IF 2 * ((t - then) % Turn) >= Turn THEN 0 ELSE (t - then) % Turn

Never == Turn          (* 999999 ms: longer than every threshold *)

MasterAge(t) == SafeAge(t, lastMasterMs, Never)

(* Why the watchdog calls the node missing at the instant t. sending: what it
   knows of sends, which may have failed. No reason is left when jobAge alone
   is too high: jobBlackout asks for the age of the master blackout as well. *)
Missing(t, sending) ==
  \/ espNow = "down"
  \/ sending = "fails"
  \/ sending = "direct fails" /\ MasterAge(t) > DirectBlackout
  \/ t > MasterBlackout /\ MasterAge(t) > MasterBlackout
  \/ t > RxBlackout /\ SafeAge(t, lastAnyRxMs, Never) > RxBlackout

(* The episode, at an instant with a reason for it. *)
EpisodeStart(t) == IF firstMissing = 0 THEN t ELSE firstMissing

RestartIsDue(t) ==
  /\ t > BootGrace
  /\ SafeAge(t, EpisodeStart(t), 0) >= HardRestart
  /\ rescues >= HardMinRescues

(* A bug: the first rescue of a boot waits for a rescue before it. *)
MayRescueAgain(t) == lastRescueMs # 0 /\ (t - lastRescueMs) % Turn >= RescueMin

MayRescue(t) == (t - lastRescueMs) % Turn >= RescueMin

(* A bug: each rescue begins a new episode. *)
RescueAnew(t) ==
  /\ lastRescueMs' = t /\ unrescued' = 0
  /\ rescues' = 1 /\ firstMissing' = t
  /\ espNow' \in {"up", "deaf", "down"}

(* anchorRadioRescue: ESP-NOW is stopped and started, which may fail. *)
Rescue(t) ==
  /\ lastRescueMs' = t /\ unrescued' = 0
  /\ rescues' = IF rescues < HardMinRescues THEN rescues + 1 ELSE rescues
  /\ firstMissing' = EpisodeStart(t)
  /\ espNow' \in {"up", "deaf", "down"}

(* A pass of loop() in which anchorRadioWatchdog looks: what the clock reads,
   and then one of four endings. *)
Pass(pause) ==
  LET t == (now + pause) % Turn
  IN \E sending \in {"works", "fails", "direct fails"} :
       \/ /\ Missing(t, sending) /\ RestartIsDue(t)
          /\ \E state \in {"up", "deaf", "down"} : Boot(state)
       \/ /\ ~(Missing(t, sending) /\ RestartIsDue(t))
          /\ now' = t /\ quiet' = quiet + pause
          /\ UNCHANGED <<lastMasterMs, lastAnyRxMs>>
          /\ \/ Missing(t, sending) /\ MayRescue(t) /\ Rescue(t)
             \/ /\ Missing(t, sending) /\ ~MayRescue(t)
                /\ firstMissing' = EpisodeStart(t) /\ unrescued' = unrescued + pause
                /\ UNCHANGED <<espNow, lastRescueMs, rescues>>
             \/ /\ ~Missing(t, sending)
                /\ firstMissing' = 0 /\ unrescued' = unrescued + pause
                /\ rescues' = IF firstMissing = 0 THEN rescues ELSE 0
                /\ UNCHANGED <<espNow, lastRescueMs>>

(* A frame of Buzz, or of another node, is handled by loop(). *)
Hear ==
  /\ espNow = "up" /\ lastAnyRxMs' = now
  /\ \/ lastMasterMs' = now /\ quiet' = 0 /\ unrescued' = 0
     \/ UNCHANGED <<lastMasterMs, quiet, unrescued>>
  /\ UNCHANGED <<now, espNow, lastRescueMs, firstMissing, rescues>>

(* loop() begins the slice that waits in the queue, in silence too. To the
   node this counts as word from Buzz: janusJobAccept sets lastMasterMs. *)
TakeUpSlice ==
  /\ lastMasterMs' = now /\ quiet' = 0 /\ unrescued' = 0
  /\ UNCHANGED <<now, espNow, lastAnyRxMs, lastRescueMs, firstMissing, rescues>>

(* The peer is lost and cannot be added, or frames stop arriving. *)
RadioFails ==
  /\ espNow = "up" /\ espNow' \in {"deaf", "down"}
  /\ UNCHANGED <<now, lastMasterMs, lastAnyRxMs, lastRescueMs, firstMissing,
                 rescues, quiet, unrescued>>

RadioNext ==
  \/ Hear \/ TakeUpSlice \/ RadioFails
  \/ \E pause \in 1 .. MaxPause : Pass(pause)

RadioSpec == RadioInit /\ [][RadioNext]_radioVars

----------------------------------------------------------------------------
(* Properties. *)

(* "Every ESP-NOW swarm node must be able to return to the swarm without a
   manual reboot" (docs/swarm-critical-rules.md, rule 1). However the clock
   wraps around and whatever the rescues achieve, a node that neither hears
   Buzz nor begins a slice that waited tries again and again: the limit between rescues delays one by no more
   than itself, and the blindness of the watchdog while the clock is near 0 by
   no more than another blackout. *)
SilenceIsRescued ==
  unrescued < 2 * MasterBlackout + RescueMin + 2 * MaxPause

(* No silence outlasts the hard restart: an episode of HardRestart, or two of
   them when the clock wraps around in the first. So no instant grows half a
   turn old and looks young again. *)
SilenceEndsInRestart ==
  quiet < 2 * (MasterBlackout + HardRestart) + 3 * MaxPause
=============================================================================
