------------------------------ MODULE BuzzPool ------------------------------
(***************************************************************************)
(* Buzz's connection to the pool: microMinerTask in firmware/buzz/Buzz.ino. *)
(* The task passes through one loop: a thermal stop, lost Wi-Fi, the        *)
(* connection with its back-off, the lines of the pool, then hashing and    *)
(* the watchdogs that end a connection which looks alive and does nothing.  *)
(* When even that does not help the node restarts, or sleeps and wakes up,  *)
(* which is a restart as well.                                              *)
(*                                                                          *)
(* A pass takes one unit of time; lines, and what Wi-Fi, the pool and the   *)
(* heat do, take none. Timers stop at their largest threshold. A pass that  *)
(* hashes makes progress (effectiveMiningBatch() > 0), so the NO_PROGRESS   *)
(* and ZERO_HASH watchdogs share the timer of the shorter one.              *)
(***************************************************************************)
EXTENDS Integers

CONSTANTS
  Handshake, NoAuth, NoJob, NoProgress, MinUptime, Cooldown, (* JANUS_POOL_... *)
  WifiDark, PoolDark, Recovery, RestartAfter,   (* JANUS_FARM_BLACKOUT_...   *)
  HardResetAfter,                               (* ..._HARD_RESET_AFTER      *)
  StormFails                                    (* failures before the sleep *)

ASSUME PoolTimers ==
  /\ {Handshake, NoAuth, NoJob, NoProgress, MinUptime, Cooldown, WifiDark,
      PoolDark, Recovery, RestartAfter, HardResetAfter, StormFails} \subseteq Nat \ {0}
  /\ Handshake < MinUptime /\ MinUptime < NoJob /\ NoJob < NoProgress
  /\ Cooldown <= NoJob /\ WifiDark <= RestartAfter /\ PoolDark <= RestartAfter

VARIABLES
  wifi,        (* WiFi.status() == WL_CONNECTED                             *)
  hot,         (* janusThermalStop                                          *)
  link,        (* client.connected(), authorized, jobReady                  *)
  ex1,         (* extranonce1: "none", of the "own" connection or an "old"  *)
  worked,      (* janusFarmHadLiveWork()                                    *)
  fails,       (* poolReconnectFails, up to StormFails                      *)
  hold,        (* time left until poolReconnectHoldUntilMs                  *)
  escalation,  (* farmBlackoutEscalation                                    *)
  dark,        (* 0, or 1 + the time since farmBlackoutSinceMs              *)
  age          (* time since: the connection, the last progress, watchdog   *)
               (* and recovery; history: since this connection last hashed, *)
               (* and since the restart was due                             *)

poolVars == <<wifi, hot, link, ex1, worked, fails, hold, escalation, dark, age>>

Top == [conn |-> NoJob, prog |-> NoProgress, watch |-> Cooldown, rec |-> Recovery,
        silent |-> NoJob + 2, due |-> NoJob + Recovery]

Down == [up |-> FALSE, auth |-> FALSE, job |-> FALSE]

Booted ==
  [link |-> Down, ex1 |-> "none", worked |-> FALSE, fails |-> 0, hold |-> 0,
   escalation |-> 0, dark |-> 0,
   age |-> [Top EXCEPT !.prog = 0, !.silent = 0, !.due = 0]]

PoolInit ==
  /\ wifi \in BOOLEAN /\ hot = FALSE
  /\ link = Booted.link /\ ex1 = Booted.ex1 /\ worked = Booted.worked
  /\ fails = Booted.fails /\ hold = Booted.hold
  /\ escalation = Booted.escalation /\ dark = Booted.dark /\ age = Booted.age

(* ESP.restart(), or esp_deep_sleep_start() and the wake-up. *)
Restart ==
  /\ link' = Booted.link /\ ex1' = Booted.ex1 /\ worked' = Booted.worked
  /\ fails' = Booted.fails /\ hold' = Booted.hold
  /\ escalation' = Booted.escalation /\ dark' = Booted.dark /\ age' = Booted.age
  /\ UNCHANGED <<wifi, hot>>

----------------------------------------------------------------------------
(* Time. *)

Sooner(x, y) == IF x < y THEN x ELSE y

(* A restart is overdue only while the node is not in its thermal stop. *)
Overdue(due, d) ==
  IF d <= RestartAfter THEN 0 ELSE IF hot THEN due ELSE Sooner(due + 1, Top.due)

(* One unit passes, from the ages a and the blackout timer d. *)
Elapse(a, d) ==
  /\ dark' = IF d = 0 THEN 0 ELSE Sooner(d + 1, RestartAfter + 1)
  /\ age' = [t \in DOMAIN Top |->
       IF t = "due" THEN Overdue(a[t], d) ELSE Sooner(a[t] + 1, Top[t])]

Wait(h) == hold' = IF h = 0 THEN 0 ELSE h - 1

Failed == Sooner(fails + 1, StormFails)

Storm == fails + 1 >= StormFails

Ages(reset) == [t \in DOMAIN Top |-> IF t \in reset THEN 0 ELSE age[t]]

----------------------------------------------------------------------------
(* The branches without a connection. *)

ThermalPass ==
  /\ hot
  /\ link' = Down /\ Elapse(age, dark) /\ Wait(hold)
  /\ UNCHANGED <<wifi, hot, ex1, worked, fails, escalation>>

(* The farm blackout fuse. *)
Begun == IF worked /\ dark = 0 THEN 1 ELSE dark

Recovers(limit) == worked /\ Begun - 1 >= limit /\ age.rec >= Recovery

(* A bug: only the loss of Wi-Fi restarts the node. *)
RestartWithoutWifi(limit) ==
  limit = WifiDark /\ Recovers(limit) /\ Begun - 1 >= RestartAfter

RestartDue(limit) == Recovers(limit) /\ Begun - 1 >= RestartAfter

(* Each recovery that did not help counts, and the last is a hard reset. *)
Escalated(limit) ==
  IF Recovers(limit) THEN (escalation + 1) % HardResetAfter ELSE escalation

WifiPass ==
  /\ ~hot /\ ~wifi
  /\ \/ RestartDue(WifiDark) /\ Restart
     \/ /\ ~RestartDue(WifiDark)
        /\ link' = Down /\ escalation' = Escalated(WifiDark)
        /\ hold' = IF Recovers(WifiDark) \/ hold = 0 THEN 0 ELSE hold - 1
        /\ Elapse(Ages(IF Recovers(WifiDark) THEN {"rec"} ELSE {}), Begun)
        /\ UNCHANGED <<wifi, hot, ex1, worked, fails>>

Unlinked == ~hot /\ wifi /\ ~link.up

(* A recovery holds the connection for 2.5 s, longer than this pass. *)
Holds == hold > 0 \/ Recovers(PoolDark)

PoolRestart == Unlinked /\ RestartDue(PoolDark) /\ Restart

PoolHeld ==
  /\ Unlinked /\ ~RestartDue(PoolDark) /\ Holds
  /\ link' = Down /\ escalation' = Escalated(PoolDark)
  /\ fails' = IF Recovers(PoolDark) THEN Failed ELSE fails
  /\ hold' = IF Recovers(PoolDark) THEN 0 ELSE hold - 1
  /\ Elapse(Ages({"prog"} \union IF Recovers(PoolDark) THEN {"rec"} ELSE {}), Begun)
  /\ UNCHANGED <<wifi, hot, ex1, worked>>

(* The subscription of the last connection stays in extranonce1. *)
PoolConnects ==
  /\ Unlinked /\ ~Holds
  /\ link' = [Down EXCEPT !.up = TRUE]
  /\ ex1' = IF ex1 = "own" THEN "old" ELSE ex1
  /\ escalation' = IF escalation > 0 THEN escalation - 1 ELSE 0
  /\ hold' = 0 /\ Elapse(Ages({"conn", "prog", "silent"}), Begun)
  /\ UNCHANGED <<wifi, hot, worked, fails>>

PoolRefuses ==
  /\ Unlinked /\ ~Holds
  /\ \/ Storm /\ Restart
     \/ /\ ~Storm
        /\ link' = Down /\ fails' = Failed /\ hold' = 1
        /\ Elapse(Ages({"prog"}), Begun)
        /\ UNCHANGED <<wifi, hot, ex1, worked, escalation>>

----------------------------------------------------------------------------
(* The lines of the pool. *)

Linked == ~hot /\ wifi /\ link.up

Subscribed ==
  /\ Linked /\ ex1' = "own"
  /\ UNCHANGED <<wifi, hot, link, worked, fails, hold, escalation, dark, age>>

Authorized ==
  /\ Linked
  /\ \E ok \in BOOLEAN :
       /\ link' = [link EXCEPT !.auth = ok]
       /\ fails' = IF ok THEN 0 ELSE fails
       /\ age' = Ages(IF ok THEN {"prog"} ELSE {})
  /\ UNCHANGED <<wifi, hot, ex1, worked, hold, escalation, dark>>

SetExtranonce1 ==
  /\ Linked /\ ex1' = "own" /\ link' = [link EXCEPT !.job = FALSE]
  /\ UNCHANGED <<wifi, hot, worked, fails, hold, escalation, dark, age>>

(* A job is taken whether or not the worker is authorized. *)
JobNotified ==
  /\ Linked /\ link' = [link EXCEPT !.job = TRUE]
  /\ worked' = TRUE /\ escalation' = 0 /\ dark' = 0
  /\ age' = [Ages({"prog"}) EXCEPT !.due = 0]
  /\ UNCHANGED <<wifi, hot, ex1, fails, hold>>

(* The task ends the connection itself; in two places it sleeps instead when
   that happened too often. *)
HangUp ==
  /\ link' = Down /\ ex1' = "none" /\ fails' = Failed /\ hold' = 1
  /\ UNCHANGED <<wifi, hot, worked, escalation>>

ClientReconnect ==
  /\ Linked
  /\ IF Storm THEN Restart ELSE HangUp /\ UNCHANGED <<dark, age>>

----------------------------------------------------------------------------
(* The end of the pass. *)

Unanswered == (~link.auth \/ ex1 = "none") /\ age.conn > Handshake

HandshakeFails ==
  /\ Linked /\ Unanswered
  /\ IF Storm THEN Restart ELSE HangUp /\ Elapse(age, dark)

Shaken == Linked /\ ~Unanswered

(* 25 minutes of submits and no accept: no hold, and extranonce1 stays. *)
NoAcceptReconnect ==
  /\ Shaken /\ link.auth /\ link' = Down
  /\ Elapse(age, dark) /\ Wait(hold)
  /\ UNCHANGED <<wifi, hot, ex1, worked, fails, escalation>>

(* A bug: an authorized connection may stay without a job. *)
TooLongWithJob ==
  /\ age.conn >= MinUptime /\ age.watch >= Cooldown
  /\ \/ ~link.auth /\ age.conn >= NoAuth
     \/ link.job /\ age.prog >= NoProgress

(* The watchdogs NO_AUTH, NO_JOB and NO_PROGRESS. *)
TooLong ==
  /\ age.conn >= MinUptime /\ age.watch >= Cooldown
  /\ \/ ~link.auth /\ age.conn >= NoAuth
     \/ link.auth /\ ~link.job /\ age.conn >= NoJob
     \/ link.job /\ age.prog >= NoProgress

(* Hashing, or waiting for a job. *)
HashPass ==
  /\ Shaken /\ link.auth /\ link.job
  /\ dark' = 0 /\ escalation' = 0
  /\ age' = [t \in DOMAIN Top |-> IF t \in {"prog", "silent", "due"} THEN 0
                                  ELSE Sooner(age[t] + 1, Top[t])]
  /\ Wait(hold)
  /\ UNCHANGED <<wifi, hot, link, ex1, worked, fails>>

WaitPass ==
  /\ Shaken /\ ~(link.auth /\ link.job)
  /\ ~TooLong
  /\ Elapse(age, dark) /\ Wait(hold)
  /\ UNCHANGED <<wifi, hot, link, ex1, worked, fails, escalation>>

WatchdogReconnect ==
  /\ Shaken /\ ~(link.auth /\ link.job) /\ TooLong
  /\ HangUp /\ Elapse(Ages({"prog", "watch"}), dark)

----------------------------------------------------------------------------
(* Wi-Fi, the pool and the heat. *)

WifiChanges ==
  /\ wifi' = ~wifi
  /\ UNCHANGED <<hot, link, ex1, worked, fails, hold, escalation, dark, age>>

HeatChanges ==
  /\ hot' = ~hot
  /\ UNCHANGED <<wifi, link, ex1, worked, fails, hold, escalation, dark, age>>

PoolHangsUp ==
  /\ link.up /\ link' = [link EXCEPT !.up = FALSE]
  /\ UNCHANGED <<wifi, hot, ex1, worked, fails, hold, escalation, dark, age>>

PoolPass ==
  \/ ThermalPass \/ WifiPass \/ PoolRestart \/ PoolHeld \/ PoolConnects \/ PoolRefuses
  \/ HandshakeFails \/ NoAcceptReconnect \/ HashPass \/ WaitPass \/ WatchdogReconnect

PoolLine ==
  Subscribed \/ Authorized \/ SetExtranonce1 \/ JobNotified \/ ClientReconnect

PoolNext == PoolPass \/ PoolLine \/ WifiChanges \/ HeatChanges \/ PoolHangsUp

PoolSpec == PoolInit /\ [][PoolNext]_poolVars

----------------------------------------------------------------------------
(* Properties. *)

(* A connection that hashes nothing is dropped, whichever of its answers is
   missing: "the rare state where socket/auth/job look alive but pool H/s
   stays 0 until a manual Buzz reboot" does not last. *)
SilentLinkIsDropped == link.up => age.silent <= NoJob + 1

(* Once the farm is dark for RestartAfter, the node restarts, in whichever
   branch it is, unless it is in its thermal stop: the recovery that has just
   been tried and one connection without a job may delay the restart, but not
   one connection after another. *)
BlackoutEndsInRestart == age.due < NoJob + Recovery
=============================================================================
