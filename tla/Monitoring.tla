------------------------------ MODULE Monitoring ------------------------------
(* GET /v1/platform/status probes the components, answers, and without being   *)
(* waited for records what it saw: a throttled uptime sample, and for each     *)
(* component an alert opened, refreshed or resolved.  Nothing else observes,   *)
(* and no statement shares a transaction with another, so that the views of    *)
(* several operators interleave.  Operators acknowledge alerts and attest      *)
(* backups and restore drills in between.                                      *)
(*                                                                             *)
(* "email" stands for the components whose health comes from outside, "backup" *)
(* and "restore" for themselves; the details of a check are its status.  The   *)
(* retention of the tables is in BoundedLogs: no bound here reaches it.        *)
EXTENDS Integers, Sequences, FiniteSets

CONSTANTS
    Viewers,     \* status requests in flight at once
    Operators,   \* ops admins who acknowledge and attest
    Nobody,      \* who has acknowledged an alert that nobody has
    Components,  \* those observed, a subset of {"email", "backup", "restore"}
    Throttle,    \* least time between samples: 60 s in the code
    MaxAge,      \* age at which a verification or a drill is stale: days in the code
    MaxNow,      \* last time of the clock
    MaxChanges,  \* changes of the health that is probed, verifications and attestations
    MaxLost      \* requests cut off by a server that stops

MonitoringConstants ==
    /\ Components \subseteq {"email", "backup", "restore"} /\ Components # {}
    /\ Nobody \notin Operators
    /\ Throttle \in Nat /\ MaxAge \in Nat /\ MaxNow \in Nat /\ MaxChanges \in Nat /\ MaxLost \in Nat

VARIABLES
    now,          \* the clock
    provider,     \* how a component outside answers a probe
    attested,     \* the latest verification and drill: its time, and whether it passed
    samples,      \* times of the uptime samples, as inserted
    alerts,       \* the alerts, as inserted
    viewers,      \* the status requests
    acks,         \* the alert an operator read unacknowledged, 0 for none
    changes, lost  \* how often the bounded events happened

vars == <<now, provider, attested, samples, alerts, viewers, acks, changes, lost>>

Unhealthy == {"degraded", "fail"}  \* and "timeout" and "misconfigured", which are treated alike
Statuses == {"ok"} \cup Unhealthy
Never == -1

Idle == [at |-> "idle", time |-> 0, seen |-> [c \in Components |-> "ok"], todo |-> {}, found |-> 0]

Init ==
    /\ now = 0 /\ provider = "ok"
    /\ attested = [c \in Components \ {"email"} |-> [time |-> 0, passed |-> TRUE]]
    /\ samples = <<>> /\ alerts = <<>>
    /\ viewers = [v \in Viewers |-> Idle]
    /\ acks = [o \in Operators |-> 0]
    /\ changes = 0 /\ lost = 0

-----------------------------------------------------------------------------
(* The world the views look at.                                              *)

Tick ==
    /\ now < MaxNow
    /\ now' = now + 1
    /\ UNCHANGED <<provider, attested, samples, alerts, viewers, acks, changes, lost>>

ProviderChanges ==
    /\ "email" \in Components /\ changes < MaxChanges
    /\ \E s \in Statuses \ {provider} : provider' = s
    /\ changes' = changes + 1
    /\ UNCHANGED <<now, attested, samples, alerts, viewers, acks, lost>>

\* POST /v1/platform/backup/verify
VerifyBackup ==
    /\ "backup" \in Components /\ changes < MaxChanges
    /\ attested' = [attested EXCEPT !["backup"].time = now]
    /\ changes' = changes + 1
    /\ UNCHANGED <<now, provider, samples, alerts, viewers, acks, lost>>

\* POST /v1/platform/restore/attest
AttestDrill ==
    /\ "restore" \in Components /\ changes < MaxChanges
    /\ \E passed \in BOOLEAN : attested' = [attested EXCEPT !["restore"] = [time |-> now, passed |-> passed]]
    /\ changes' = changes + 1
    /\ UNCHANGED <<now, provider, samples, alerts, viewers, acks, lost>>

Fresh(c, time) == time - attested[c].time <= MaxAge

assessBackupComponent(time) == IF Fresh("backup", time) THEN "ok" ELSE "degraded"

assessRestoreComponent(time) ==
    IF ~attested["restore"].passed THEN "fail"
    ELSE IF Fresh("restore", time) THEN "ok" ELSE "degraded"

Health(c, time) ==
    CASE c = "email" -> provider
      [] c = "backup" -> assessBackupComponent(time)
      [] c = "restore" -> assessRestoreComponent(time)

-----------------------------------------------------------------------------
(* A status request.                                                         *)

\* The clock and the attestations are read before the providers are probed.
ViewStatus(v) ==
    /\ viewers[v].at = "idle"
    /\ viewers' = [viewers EXCEPT ![v] =
           [Idle EXCEPT !.at = "probe", !.time = now,
                        !.seen = [c \in Components |-> Health(c, now)]]]
    /\ UNCHANGED <<now, provider, attested, samples, alerts, acks, changes, lost>>

\* collectOperationalComponents waits for the providers.
Probe(v) ==
    /\ viewers[v].at = "probe"
    /\ viewers' = [viewers EXCEPT ![v].at = "throttle",
           ![v].seen = [c \in Components |-> IF c = "email" THEN provider ELSE viewers[v].seen[c]]]
    /\ UNCHANGED <<now, provider, attested, samples, alerts, acks, changes, lost>>

Latest == CHOOSE t \in {samples[i] : i \in DOMAIN samples} : \A i \in DOMAIN samples : samples[i] <= t
Sync(view) == [view EXCEPT !.at = "find", !.todo = Components]

\* A plausible bug: a throttled view records nothing at all.
ThrottleAll(v) ==
    /\ viewers[v].at = "throttle"
    /\ viewers' = [viewers EXCEPT ![v] =
           IF samples # <<>> /\ viewers[v].time - Latest < Throttle THEN Idle
           ELSE [@ EXCEPT !.at = "sample"]]
    /\ UNCHANGED <<now, provider, attested, samples, alerts, acks, changes, lost>>

\* A sample too soon after the latest is skipped, the alerts are not.
ReadLatestSample(v) ==
    /\ viewers[v].at = "throttle"
    /\ viewers' = [viewers EXCEPT ![v] =
           IF samples # <<>> /\ viewers[v].time - Latest < Throttle THEN Sync(@)
           ELSE [@ EXCEPT !.at = "sample"]]
    /\ UNCHANGED <<now, provider, attested, samples, alerts, acks, changes, lost>>

AppendSample(v) ==
    /\ viewers[v].at = "sample"
    /\ samples' = Append(samples, viewers[v].time)
    /\ viewers' = [viewers EXCEPT ![v] = Sync(@)]
    /\ UNCHANGED <<now, provider, attested, alerts, acks, changes, lost>>

\* The order of PLATFORM_ALERT_COMPONENTS.
First(todo) ==
    IF "email" \in todo THEN "email" ELSE IF "backup" \in todo THEN "backup" ELSE "restore"
Component(v) == First(viewers[v].todo)
OpenAlerts(c) == {i \in DOMAIN alerts : alerts[i].component = c /\ alerts[i].resolved = Never}

\* findOpenPlatformAlertForComponent: one of the newest, 0 for none.
FindOpenAlert(v) ==
    /\ viewers[v].at = "find"
    /\ LET open == OpenAlerts(Component(v)) IN
       \E i \in open \cup {0} :
           /\ i = 0 <=> open = {}
           /\ \A j \in open : alerts[j].opened <= alerts[i].opened
           /\ viewers' = [viewers EXCEPT ![v].at = "write", ![v].found = i]
    /\ UNCHANGED <<now, provider, attested, samples, alerts, acks, changes, lost>>

Done(view) ==
    IF view.todo = {First(view.todo)} THEN Idle
    ELSE [view EXCEPT !.at = "find", !.todo = @ \ {First(@)}, !.found = 0]

NewAlert(v) ==
    [component |-> Component(v), opened |-> viewers[v].time, status |-> viewers[v].seen[Component(v)],
     resolved |-> Never, by |-> Nobody]

\* A refresh is by the alert's key: it may have been resolved since it was found.
OpenOrRefreshAlert(v) ==
    /\ viewers[v].at = "write" /\ viewers[v].seen[Component(v)] \in Unhealthy
    /\ alerts' = IF viewers[v].found = 0 THEN Append(alerts, NewAlert(v))
                 ELSE [alerts EXCEPT ![viewers[v].found].status = viewers[v].seen[Component(v)]]
    /\ viewers' = [viewers EXCEPT ![v] = Done(@)]
    /\ UNCHANGED <<now, provider, attested, samples, acks, changes, lost>>

\* The table refuses a resolution older than the opening
\* (platform_alerts_resolved_not_before_opened); the error ends the recording
\* and is swallowed.
ResolveOpenAlert(v) ==
    /\ viewers[v].at = "write" /\ viewers[v].seen[Component(v)] \notin Unhealthy
    /\ LET i == viewers[v].found
           refused == i # 0 /\ alerts[i].opened > viewers[v].time IN
       /\ alerts' = IF i = 0 \/ refused THEN alerts
                    ELSE [alerts EXCEPT ![i].resolved = viewers[v].time]
       /\ viewers' = [viewers EXCEPT ![v] = IF refused THEN Idle ELSE Done(@)]
    /\ UNCHANGED <<now, provider, attested, samples, acks, changes, lost>>

\* Nothing waits for the recording: a server that stops drops what is left of it.
StopServer(v) ==
    /\ viewers[v].at # "idle" /\ lost < MaxLost
    /\ viewers' = [viewers EXCEPT ![v] = Idle]
    /\ lost' = lost + 1
    /\ UNCHANGED <<now, provider, attested, samples, alerts, acks, changes>>

-----------------------------------------------------------------------------
(* Acknowledging: the alert is read, and written by its key.                 *)

ReadAlert(o) ==
    /\ acks[o] = 0
    /\ \E i \in DOMAIN alerts :
           /\ alerts[i].by = Nobody
           /\ acks' = [acks EXCEPT ![o] = i]
    /\ UNCHANGED <<now, provider, attested, samples, alerts, viewers, changes, lost>>

AcknowledgeAlert(o) ==
    /\ acks[o] # 0
    /\ alerts' = [alerts EXCEPT ![acks[o]].by = o]
    /\ acks' = [acks EXCEPT ![o] = 0]
    /\ UNCHANGED <<now, provider, attested, samples, viewers, changes, lost>>

-----------------------------------------------------------------------------

StepOf(v) ==
    \/ Probe(v) \/ ReadLatestSample(v) \/ AppendSample(v)
    \/ FindOpenAlert(v) \/ OpenOrRefreshAlert(v) \/ ResolveOpenAlert(v)

Next ==
    \/ Tick \/ ProviderChanges \/ VerifyBackup \/ AttestDrill
    \/ \E v \in Viewers : ViewStatus(v) \/ StepOf(v) \/ StopServer(v)
    \/ \E o \in Operators : ReadAlert(o) \/ AcknowledgeAlert(o)

Spec == Init /\ [][Next]_vars

-----------------------------------------------------------------------------
\* Rows of the attestations and of platform_alerts.
AttestationRows == [time : Nat, passed : BOOLEAN]
AlertRow(alert) ==
    /\ alert.component \in Components /\ alert.status \in Unhealthy
    /\ alert.opened \in 0..now /\ alert.by \in Operators \cup {Nobody}
    /\ alert.resolved = Never \/ alert.resolved \in alert.opened..now

(* Type correctness, and a view's place in its list of components.           *)
TypeOK ==
    /\ now \in 0..MaxNow /\ provider \in Statuses
    /\ attested \in [Components \ {"email"} -> AttestationRows]
    /\ samples \in Seq(0..now)
    /\ \A i \in DOMAIN alerts : AlertRow(alerts[i])
    /\ \A v \in Viewers :
           /\ viewers[v].at \in {"idle", "probe", "throttle", "sample", "find", "write"}
           /\ viewers[v].at \in {"find", "write"} => viewers[v].todo # {}
           /\ viewers[v].found # 0 =>
                  viewers[v].found \in {i \in DOMAIN alerts : alerts[i].component = Component(v)}
    /\ acks \in [Operators -> {0} \cup DOMAIN alerts]
    /\ changes \in 0..MaxChanges /\ lost \in 0..MaxLost

(* What was resolved or acknowledged stays so, and no alert changes its        *)
(* component or opening, although refreshes and resolutions write by the key   *)
(* of an alert they found before.                                              *)
ClosedStays ==
    \A i \in DOMAIN alerts :
        /\ alerts'[i].component = alerts[i].component /\ alerts'[i].opened = alerts[i].opened
        /\ alerts[i].resolved # Never => alerts'[i].resolved # Never
        /\ alerts[i].by # Nobody => alerts'[i].by # Nobody
ClosedStaysClosed == [][ClosedStays]_vars

(* "Still sync alerts so a sudden failure is visible even when throttled": an   *)
(* alert of its present status is open for an unhealthy component and none for *)
(* a healthy one.  It settles so if the console keeps being looked at, which is *)
(* the one thing that observes: see MCProgress.                                *)
Current(c) == Health(c, now)
Settled(c) ==
    /\ OpenAlerts(c) = {} <=> Current(c) \notin Unhealthy
    /\ Current(c) \in Unhealthy => \E i \in OpenAlerts(c) : alerts[i].status = Current(c)

(* "Minimum gap between persisted samples": the latest sample is read in one   *)
(* statement and the new one inserted in another.                              *)
Apart(i, j) == samples[i] - samples[j] >= Throttle \/ samples[j] - samples[i] >= Throttle
SamplesAreSpaced == \A i, j \in DOMAIN samples : i # j => Apart(i, j)
=============================================================================
