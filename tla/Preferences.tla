------------------------------ MODULE Preferences ------------------------------
(***************************************************************************)
(* Alert preferences: the handler of PUT /preferences/alerts, which first  *)
(* saves to the settings table and then changes the running engine         *)
(* (controller/api.go, alerts.go), the engine's start from configuration   *)
(* file and table (cmd/fyke/main.go), and the form of SettingsPage         *)
(* (frontend/src/App.tsx), which starts with built-in values and is filled *)
(* when its request is answered.  Handlers run concurrently.               *)
(***************************************************************************)
EXTENDS ConsoleState

CONSTANTS
    Values,       \* preferences an operator may want
    FileValue,    \* those of the configuration file
    FormValue,    \* those built into the form: no webhooks, default rules
    Secrets,      \* signing secrets an operator may supply
    FileSecret,   \* that of the configuration file, or None
    Handlers      \* PUT requests that can be under way at once

ASSUME PreferencesAssumption ==
    /\ None \notin Values \cup {FileValue, FormValue} \cup Secrets
    /\ FormValue \notin Values /\ FormValue # FileValue
    /\ {"none", "out", "filled"} \cap (Values \cup {FileValue, FormValue}) = {}

VARIABLES
    stored,    \* the row "alerts" of the settings table
    running,   \* AlertEngine.cfg
    psecret,   \* the protected setting alerts.webhook_signing_secret
    secret,    \* AlertEngine.secret
    put,       \* per handler: where it is, its preferences and secret
    mixed,     \* history: two handlers were under way at once
    unsaved,   \* history: writing the protected setting failed
    form,      \* the fields of SettingsPage
    load,      \* its request: none, out, or the preferences it was answered with
    early      \* history: the form was saved before it was filled

prefVars == <<stored, running, psecret, secret, put, mixed, unsaved, form, load, early>>

Idle == [pc |-> "none", v |-> None, s |-> None]
Busy == {h \in Handlers : put[h].pc # "none"}

PrefInit ==
    /\ stored = None /\ running = FileValue
    /\ psecret = IF FileSecret = None THEN "random" ELSE FileSecret
    /\ secret = psecret
    /\ put = [h \in Handlers |-> Idle] /\ mixed = FALSE /\ unsaved = FALSE
    /\ form = FormValue /\ load = "none" /\ early = FALSE

(* SettingsPage is mounted and asks; leaving it forgets the form. *)
OpenSettings == form' = FormValue /\ load' = "out" /\ UNCHANGED <<stored, running, psecret, secret, put, mixed, unsaved, early>>
LeaveSettings == form' = FormValue /\ load' = "none" /\ UNCHANGED <<stored, running, psecret, secret, put, mixed, unsaved, early>>

(* GET /preferences/alerts *)
ServePreferences ==
    /\ run = "up" /\ load = "out"
    /\ load' = running
    /\ UNCHANGED <<run, page, stored, running, psecret, secret, put, mixed, unsaved, form, early>>

(* The effect on alertData overwrites the form, edits included. *)
FillForm ==
    /\ load \notin {"none", "out", "filled"}
    /\ form' = load /\ load' = "filled"
    /\ UNCHANGED <<run, page, stored, running, psecret, secret, put, mixed, unsaved, early>>

(* An edit of the fields, and the save: the button works before the form is
   filled and while another save is under way. *)
EditForm(v) ==
    /\ page = "settings"
    /\ form' = v
    /\ UNCHANGED <<run, page, stored, running, psecret, secret, put, mixed, unsaved, load, early>>

Save(h, s) ==
    /\ page = "settings" /\ run = "up" /\ put[h].pc = "none"
    /\ put' = [put EXCEPT ![h] = [pc |-> "store", v |-> form, s |-> s]]
    /\ mixed' = (mixed \/ Busy # {})
    /\ early' = (early \/ (load # "filled" /\ form = FormValue))
    /\ UNCHANGED <<run, page, stored, running, psecret, secret, unsaved, form, load>>

(* alertPreferences: SetSetting, and only if it succeeds UpdateConfig. *)
SetSetting(h) ==
    /\ run = "up" /\ put[h].pc = "store"
    /\ stored' = put[h].v
    /\ put' = [put EXCEPT ![h] = [pc |-> "update", v |-> put[h].v, s |-> put[h].s]]
    /\ UNCHANGED <<run, page, running, psecret, secret, mixed, unsaved, form, load, early>>

(* Mutant: the engine is changed although the save failed. *)
SetSettingFailsAnyway(h) ==
    /\ run = "up" /\ put[h].pc = "store"
    /\ put' = [put EXCEPT ![h] = [pc |-> "update", v |-> put[h].v, s |-> put[h].s]]
    /\ UNCHANGED <<run, page, stored, running, psecret, secret, mixed, unsaved, form, load, early>>

SetSettingFails(h) ==
    /\ run = "up" /\ put[h].pc = "store"
    /\ put' = [put EXCEPT ![h] = Idle]
    /\ UNCHANGED <<run, page, stored, running, psecret, secret, mixed, unsaved, form, load, early>>

(* UpdateConfig; setSigningSecret ignores a failure of its protected write. *)
UpdateConfig(h) ==
    /\ run = "up" /\ put[h].pc = "update"
    /\ running' = put[h].v
    /\ \/ put[h].s = None /\ UNCHANGED <<psecret, secret, unsaved>>
       \/ put[h].s # None /\ psecret' = put[h].s /\ secret' = put[h].s /\ UNCHANGED unsaved
       \/ put[h].s # None /\ unsaved' = TRUE /\ secret' = put[h].s /\ UNCHANGED psecret
    /\ put' = [put EXCEPT ![h] = Idle]
    /\ UNCHANGED <<run, page, stored, mixed, form, load, early>>

(* The controller stops: handlers and requests are cut off. *)
PrefStop ==
    /\ put' = [h \in Handlers |-> Idle]
    /\ load' = IF load = "out" THEN "none" ELSE load
    /\ UNCHANGED <<stored, running, psecret, secret, mixed, unsaved, form, early>>

(* controllerCmd: the table's preferences over those of the file; the secret of
   the file, when it has one, over the protected one.  (Rules are merged by name:
   the file is taken to name no rule that the form lacks.) *)
PrefStart ==
    /\ running' = IF stored = None THEN FileValue ELSE stored
    /\ psecret' = IF FileSecret = None THEN psecret ELSE FileSecret
    /\ secret' = psecret'
    /\ UNCHANGED <<stored, put, mixed, unsaved, form, load, early>>

PrefStep ==
    \/ ServePreferences \/ FillForm
    \/ \E h \in Handlers : SetSetting(h) \/ SetSettingFails(h) \/ UpdateConfig(h)

-----------------------------------------------------------------------------
(* Preferences survive a restart: while the controller is up and no PUT is under
   way, it runs with the preferences a restart would load, provided that PUTs
   were never under way together; and it signs with the secret a restart would
   load, provided further that the configuration file has none and that the
   protected write did not fail.  And the values built
   into the form are saved only by a save made before the form was filled; a
   save never resets preferences that were shown.  Code: alertPreferences,
   UpdateConfig, setSigningSecret, controllerCmd, SettingsPage. *)
PreferencesKept ==
    /\ (run = "up" /\ Busy = {} /\ ~mixed) =>
          running = (IF stored = None THEN FileValue ELSE stored)
    /\ (run = "up" /\ FileSecret = None /\ Busy = {} /\ ~mixed /\ ~unsaved) =>
          secret = psecret
    /\ FormValue \in {stored, running} => early
=============================================================================
