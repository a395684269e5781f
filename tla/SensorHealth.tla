----------------------------- MODULE SensorHealth -----------------------------
(***************************************************************************)
(* The controller's view of whether its sensors report: the sensors table, *)
(* written by stream handlers (TouchSensor and the upsert of Store.Insert) *)
(* and by the monitor goroutine checkSensorHealth (controller/alerts.go),  *)
(* which reads a snapshot of all rows and then, for each silent sensor,    *)
(* inserts a trigger event, runs the rules and marks the row, in separate  *)
(* transactions.  The trigger is an event of that sensor, so inserting it  *)
(* also refreshes the row.                                                 *)
(*                                                                         *)
(* Time is counted in ages, cut off where the reporting window ends.       *)
(***************************************************************************)
EXTENDS Naturals, FiniteSets

CONSTANTS Sensors,
          Window,    \* unhealthyAfter, 2 minutes
          Backlog,   \* events a sensor replays from its spool
          NoSensor   \* marker

ASSUME SensorHealthAssumption ==
    /\ Window \in Nat \ {0} /\ Backlog \in Nat
    /\ NoSensor \notin Sensors

VARIABLES
    age,        \* per sensor, now - last_seen
    recorded,   \* per sensor, the status column
    linked,     \* sensors with a stream to the controller
    backlog,    \* per sensor, old events in its spool
    mpc,        \* where checkSensorHealth is
    todo,       \* sensors the snapshot found silent, still to be handled
    cur,        \* the sensor being handled
    quiet,      \* history: per sensor, time since it was last heard
    told,       \* history: per sensor, alerts since it was last heard
    lapsed      \* history: sensors whose mark was lost since they were last heard

monitor == <<mpc, todo, cur>>
healthVars == <<age, recorded, linked, backlog, mpc, todo, cur, quiet, told, lapsed>>
history == <<quiet, told, lapsed>>

Late == Window + 1

HealthTypeOK ==
    /\ age \in [Sensors -> 0..Late] /\ quiet \in [Sensors -> 0..Late]
    /\ recorded \in [Sensors -> {"healthy", "unhealthy"}]
    /\ linked \subseteq Sensors
    /\ backlog \in [Sensors -> 0..Backlog]
    /\ mpc \in {"idle", "loop", "process", "mark"}
    /\ todo \subseteq Sensors
    /\ cur \in Sensors \cup {NoSensor}
    /\ cur # NoSensor <=> mpc \in {"process", "mark"}
    /\ told \in [Sensors -> 0..2] /\ lapsed \subseteq Sensors

(* The controller has rows from an earlier run. *)
HealthInit ==
    /\ age = [s \in Sensors |-> 0] /\ quiet = [s \in Sensors |-> 0]
    /\ recorded = [s \in Sensors |-> "healthy"]
    /\ linked = {}
    /\ backlog = [s \in Sensors |-> Backlog]
    /\ mpc = "idle" /\ todo = {} /\ cur = NoSensor
    /\ told = [s \in Sensors |-> 0] /\ lapsed = {}

(* What SensorHealth reports for a sensor. *)
Status(s) == IF age[s] > Window THEN "unhealthy" ELSE recorded[s]

(* Mutant: the upsert leaves the status alone. *)
RefreshTime(s, a) ==
    /\ age' = [age EXCEPT ![s] = a]
    /\ UNCHANGED recorded

(* The upsert of a sensor's row with an event or contact of age a. *)
Refresh(s, a) ==
    /\ age' = [age EXCEPT ![s] = a]
    /\ recorded' = [recorded EXCEPT ![s] = "healthy"]

(* History: the sensor was heard. *)
Heard(s) ==
    /\ quiet' = [quiet EXCEPT ![s] = 0]
    /\ told' = [told EXCEPT ![s] = 0]
    /\ lapsed' = lapsed \ {s}
-------------------------------------------------------------------------------
(* TouchSensor, as a stream starts and at every heartbeat. *)
Connect(s) ==
    /\ s \notin linked
    /\ linked' = linked \cup {s}
    /\ Refresh(s, 0) /\ Heard(s)
    /\ UNCHANGED <<backlog, monitor>>

Heartbeat(s) ==
    /\ s \in linked
    /\ Refresh(s, 0) /\ Heard(s)
    /\ UNCHANGED <<linked, backlog, monitor>>

(* Insert sets last_seen to the time of the event, which may be long past
   when it comes from the spool; a row that is there already changes nothing. *)
Deliver(s) ==
    /\ s \in linked
    /\ Refresh(s, 0) /\ Heard(s)
    /\ UNCHANGED <<linked, backlog, monitor>>

Replay(s, a) ==
    /\ s \in linked /\ backlog[s] > 0
    /\ backlog' = [backlog EXCEPT ![s] = @ - 1]
    /\ Refresh(s, a) /\ Heard(s)
    /\ UNCHANGED <<linked, monitor>>

Repeat(s) ==
    /\ s \in linked /\ backlog[s] > 0
    /\ backlog' = [backlog EXCEPT ![s] = @ - 1]
    /\ Heard(s)
    /\ UNCHANGED <<age, recorded, linked, monitor>>

Disconnect(s) ==
    /\ s \in linked
    /\ linked' = linked \ {s}
    /\ UNCHANGED <<age, recorded, backlog, monitor, history>>

(* Time passes; a connected sensor sends something every 30 s. *)
Older(f) == [s \in Sensors |-> IF f[s] < Late THEN f[s] + 1 ELSE Late]

HealthTick ==
    /\ \A s \in linked : quiet[s] < Window
    /\ age' = Older(age) /\ quiet' = Older(quiet)
    /\ UNCHANGED <<recorded, linked, backlog, monitor, told, lapsed>>
-------------------------------------------------------------------------------
(* checkSensorHealth, every minute: read all rows ... *)
Silent(s) == Status(s) = "unhealthy" /\ recorded[s] # "unhealthy"

Check ==
    /\ mpc = "idle"
    /\ todo' = {s \in Sensors : Silent(s)}
    /\ mpc' = "loop"
    /\ UNCHANGED <<age, recorded, linked, backlog, cur, history>>

(* ... then insert a trigger event in the name of each silent sensor ... *)
Trigger(s) ==
    /\ mpc = "loop" /\ s \in todo
    /\ todo' = todo \ {s}
    /\ cur' = s
    /\ Refresh(s, 0)
    /\ mpc' = "process"
    /\ UNCHANGED <<linked, backlog, history>>

(* ... run the rules on it, which raise the alert (see Findings) ... *)
Process ==
    /\ mpc = "process"
    /\ told' = [told EXCEPT ![cur] = IF @ < 2 THEN @ + 1 ELSE 2]
    /\ mpc' = "mark"
    /\ UNCHANGED <<age, recorded, linked, backlog, todo, cur, quiet, lapsed>>

(* Mutant: the status is not recorded. *)
MarkNothing ==
    /\ mpc = "mark"
    /\ cur' = NoSensor
    /\ mpc' = "loop"
    /\ UNCHANGED <<age, recorded, linked, backlog, todo, history>>

(* ... and record the status. *)
Mark ==
    /\ mpc = "mark"
    /\ recorded' = [recorded EXCEPT ![cur] = "unhealthy"]
    /\ cur' = NoSensor
    /\ mpc' = "loop"
    /\ UNCHANGED <<age, linked, backlog, todo, history>>

CheckEnd ==
    /\ mpc = "loop" /\ todo = {}
    /\ mpc' = "idle"
    /\ UNCHANGED <<age, recorded, linked, backlog, todo, cur, history>>

(* An error of Insert or SetSensorStatus ends the check, a crash the process. *)
Abort ==
    /\ mpc # "idle"
    /\ mpc' = "idle" /\ todo' = {} /\ cur' = NoSensor
    /\ lapsed' = lapsed \cup ({cur} \ {NoSensor})
    /\ UNCHANGED <<age, recorded, linked, backlog, quiet, told>>

Contact(s) == Connect(s) \/ Heartbeat(s) \/ Deliver(s) \/ Repeat(s) \/ Disconnect(s)
              \/ \E a \in 0..Late : Replay(s, a)

MonitorStep == Check \/ (\E s \in Sensors : Trigger(s)) \/ Process \/ Mark \/ CheckEnd

HealthNext == (\E s \in Sensors : Contact(s)) \/ HealthTick \/ MonitorStep \/ Abort

HealthSpec == HealthInit /\ [][HealthNext]_healthVars

(* Time passes, the monitor runs, a connected sensor sends its heartbeats.  The
   monitor may fail again and again, but not at the same call each time. *)
HealthFairness ==
    /\ WF_healthVars(HealthTick) /\ WF_healthVars(MonitorStep)
    /\ \A s \in Sensors :
          /\ WF_healthVars(Heartbeat(s))
          /\ SF_healthVars(Trigger(s))
          /\ SF_healthVars(cur = s /\ Process)
          /\ SF_healthVars(cur = s /\ Mark)

HealthFairSpec == HealthSpec /\ HealthFairness
-------------------------------------------------------------------------------
(* A silent sensor is alerted about once: the check repeats every minute and
   each trigger refreshes the row it is about, but there is no second alert
   until the sensor has been heard again, unless a failure lost the mark that
   goes with the first (alerts.go 335-345). *)
AtMostOneAlert == \A s \in Sensors : told[s] > 1 => s \in lapsed

(* A sensor that stays away is in the end shown as unhealthy for good. *)
SilenceShown ==
    \A s \in Sensors :
        <>[](quiet[s] > Window) => <>[](Status(s) = "unhealthy")

(* A sensor that stays connected is in the end shown as healthy for good: a
   late mark of the monitor or a replayed time stamp does not stick. *)
Heals ==
    \A s \in Sensors :
        <>[](s \in linked) => <>[](Status(s) = "healthy")

===============================================================================
