---------------------------- MODULE ScrobbleBuffer ----------------------------
(* The buffered scrobbler of one external service: core/scrobbler/           *)
(* buffered_scrobbler.go over the table scrobble_buffer, and the part of     *)
(* play_tracker.go that creates and stops it. A built-in service is there    *)
(* from the start of the process; a plugin service comes and goes with its   *)
(* plugin, and play_tracker notices that only when somebody plays a track.   *)
EXTENDS Naturals, Sequences, FiniteSets, Functions

CONSTANTS
    Entries,      \* the scrobbles players submit
    UserOf,       \* [Entries -> users]
    PlayTime,     \* [Entries -> Nat], chosen by the player
    Runners,      \* identities for the run goroutines, each used once
    NoRunner,
    NoEntry,
    Builtin,      \* TRUE: a built-in scrobbler; FALSE: a plugin
    MaxLoads,     \* bound: how often the plugin is loaded
    MaxErrors,    \* bound: database statements that fail
    MaxBusy,      \* bound: answers ErrRetryLater
    MaxCrashes    \* bound: process crashes

ASSUME EntriesAssumption ==
    /\ NoEntry \notin Entries /\ NoRunner \notin Runners
    /\ "new" \notin Runners /\ "done" \notin Runners
ASSUME PlayTimeAssumption == PlayTime \in [Entries -> Nat]
ASSUME BufferBoundsAssumption ==
    /\ Builtin \in BOOLEAN
    /\ MaxLoads \in Nat /\ MaxErrors \in Nat /\ MaxBusy \in Nat /\ MaxCrashes \in Nat

VARIABLES
    buf,        \* the entries that have a row
    loaded,     \* is the plugin in the manager's map
    loads,      \* how often it was loaded: identifies the instance
    active,     \* the bufferedScrobbler in play_tracker's map
    stopped,    \* runners whose context was cancelled
    run,        \* per runner: program counter and locals of the goroutine
    wakeSignal, \* per runner: the channel of capacity one
    timer,      \* per runner: a pending AfterFunc
    target,     \* per entry: the scrobbler Submit found, "new" or "done"
    errs, busy, crashes,
    enqueued,   \* the entries ever inserted, in the order of their rowids
    accepted,   \* history: how often the service took an entry
    rejected    \* history: entries the service refused for good

submitVars == <<target, enqueued>>
pluginVars == <<loaded, loads, active, stopped>>
bounds == <<errs, busy, crashes>>
vars == <<buf, pluginVars, run, wakeSignal, timer, submitVars, bounds, accepted, rejected>>

Users == {UserOf[e] : e \in Entries}
Idle == [pc |-> "off", users |-> {}, user |-> NoEntry, entry |-> NoEntry, inst |-> 0, ok |-> TRUE]
Fresh(r) == run[r].pc = "off"
Cancelled(r) == r \in stopped
Becomes(r, state) == run' = [run EXCEPT ![r] = state]

DBError == errs < MaxErrors /\ errs' = errs + 1 /\ UNCHANGED <<busy, crashes>>

-----------------------------------------------------------------------------
(* play_tracker: submissions and the life of the plugin                      *)

sendWakeSignal(r) == wakeSignal' = [wakeSignal EXCEPT ![r] = TRUE]

\* newBufferedScrobbler: the goroutine starts with a pass over the table.
Started(r) == Becomes(r, [run[r] EXCEPT !.pc = "users"])

\* A scrobbler whose plugin is gone is stopped and leaves the map.
RemoveScrobbler == stopped' = stopped \cup {active} /\ active' = NoRunner /\ UNCHANGED run

\* refreshPluginScrobblers, for the one name this module is about.
refreshPluginScrobblers ==
    \/ /\ ~Builtin /\ loaded /\ active = NoRunner
       /\ \E r \in Runners : Fresh(r) /\ active' = r /\ Started(r)
       /\ UNCHANGED stopped
    \/ ~Builtin /\ ~loaded /\ active # NoRunner /\ RemoveScrobbler
    \/ /\ (Builtin \/ loaded) <=> (active # NoRunner)
       /\ UNCHANGED <<active, stopped, run>>

\* dispatchScrobble takes its own copy of the map of scrobblers...
getActiveScrobblers(e) ==
    /\ target[e] = "new"
    /\ refreshPluginScrobblers
    /\ target' = [target EXCEPT ![e] = IF active' = NoRunner THEN "done" ELSE active']
    /\ UNCHANGED <<buf, loaded, loads, wakeSignal, timer, enqueued, bounds, accepted, rejected>>

\* ... and later asks that scrobbler, which may be stopped by then.  IsAuthorized and the
\* insert are one step, and the insert does not fail.
Scrobble(e) ==
    /\ target[e] \in Runners
    /\ IF loaded
       THEN /\ buf' = buf \cup {e}
            /\ enqueued' = Append(enqueued, e)
            /\ sendWakeSignal(target[e])
       ELSE UNCHANGED <<buf, enqueued, wakeSignal>>   \* IsAuthorized is false
    /\ target' = [target EXCEPT ![e] = "done"]
    /\ UNCHANGED <<pluginVars, run, timer, bounds, accepted, rejected>>

\* dispatchNowPlaying refreshes the map too.
dispatchNowPlaying ==
    /\ refreshPluginScrobblers
    /\ UNCHANGED <<buf, loaded, loads, wakeSignal, timer, submitVars, bounds, accepted, rejected>>

LoadPlugin ==
    /\ ~Builtin /\ ~loaded /\ loads < MaxLoads
    /\ loaded' = TRUE /\ loads' = loads + 1
    /\ UNCHANGED <<buf, active, stopped, run, wakeSignal, timer, submitVars, bounds, accepted, rejected>>

UnloadPlugin ==
    /\ ~Builtin /\ loaded /\ loaded' = FALSE
    /\ UNCHANGED <<buf, loads, active, stopped, run, wakeSignal, timer, submitVars, bounds,
                   accepted, rejected>>

\* The process dies and starts again; the constructor starts built-in runners.
Crash ==
    /\ crashes < MaxCrashes /\ crashes' = crashes + 1
    /\ LET gone == [r \in Runners |-> IF Fresh(r) THEN run[r] ELSE [Idle EXCEPT !.pc = "done"]]
       IN  IF Builtin
           THEN \E r \in Runners : Fresh(r) /\ active' = r /\ run' = [gone EXCEPT ![r].pc = "users"]
           ELSE active' = NoRunner /\ run' = gone
    /\ target' = [e \in Entries |-> IF target[e] = "new" THEN "new" ELSE "done"]
    /\ wakeSignal' = [r \in Runners |-> FALSE] /\ timer' = [r \in Runners |-> FALSE]
    /\ UNCHANGED <<buf, loaded, loads, stopped, enqueued, errs, busy, accepted, rejected>>

-----------------------------------------------------------------------------
(* The goroutine run of one bufferedScrobbler                                *)

Runner == <<buf, pluginVars, wakeSignal, timer, submitVars, accepted, rejected>>
Goto(r, label) == Becomes(r, [run[r] EXCEPT !.pc = label])

\* processUserQueue gives up on the user; the pass will be repeated.
GiveUp(r) == Becomes(r, [run[r] EXCEPT !.pc = "user", !.ok = FALSE, !.entry = NoEntry])

\* A statement under the runner's context fails once Stop cancelled it.
StatementFails(r) == (Cancelled(r) /\ UNCHANGED bounds) \/ DBError

UserIDs(r) ==
    /\ run[r].pc = "users"
    /\ \/ /\ ~Cancelled(r) /\ UNCHANGED bounds
          /\ Becomes(r, [run[r] EXCEPT !.pc = "user", !.ok = TRUE, !.users = {UserOf[e] : e \in buf}])
       \/ StatementFails(r) /\ Becomes(r, [run[r] EXCEPT !.pc = "user", !.ok = FALSE, !.users = {}])
    /\ UNCHANGED Runner

NextUser(r) ==
    /\ run[r].pc = "user"
    /\ \E u \in run[r].users :
         Becomes(r, [run[r] EXCEPT !.pc = "next", !.user = u, !.users = @ \ {u}])
    /\ UNCHANGED <<Runner, bounds>>

RowsOf(u) == {e \in buf : UserOf[e] = u}

InsertedBefore(d, e) == \E i, j \in DOMAIN enqueued : i < j /\ enqueued[i] = d /\ enqueued[j] = e

\* mutant: newest play first
Latest(rows) == CHOOSE e \in rows : \A f \in rows : PlayTime[e] >= PlayTime[f]

\* ORDER BY play_time, rowid LIMIT 1
Earliest(rows) == CHOOSE e \in rows : \A f \in rows \ {e} :
                     \/ PlayTime[e] < PlayTime[f]
                     \/ PlayTime[e] = PlayTime[f] /\ InsertedBefore(e, f)

Next(r) ==
    /\ run[r].pc = "next"
    /\ \/ /\ ~Cancelled(r) /\ UNCHANGED bounds
          /\ LET rows == RowsOf(run[r].user)
             IN  IF rows = {} THEN Goto(r, "user")
                 ELSE Becomes(r, [run[r] EXCEPT !.pc = "load", !.entry = Earliest(rows)])
       \/ StatementFails(r) /\ GiveUp(r)
    /\ UNCHANGED Runner

\* The loader looks the plugin up now; the instance is used in the next step.
Load(r) ==
    /\ run[r].pc = "load"
    /\ IF loaded THEN Becomes(r, [run[r] EXCEPT !.pc = "send", !.inst = loads]) ELSE GiveUp(r)
    /\ UNCHANGED <<Runner, bounds>>

Accept(r) ==
    /\ run[r].pc = "send"
    /\ accepted' = [accepted EXCEPT ![run[r].entry] = @ + 1]
    /\ Goto(r, "dequeue")
    /\ UNCHANGED <<buf, pluginVars, wakeSignal, timer, submitVars, rejected, bounds>>

\* ErrNotAuthorized, ErrUnrecoverable: "Discarding".
Reject(r) ==
    /\ run[r].pc = "send"
    /\ rejected' = rejected \cup {run[r].entry}
    /\ Goto(r, "dequeue")
    /\ UNCHANGED <<buf, pluginVars, wakeSignal, timer, submitVars, accepted, bounds>>

\* The call itself broke: its instance was closed or its context cancelled
\* before the service heard of the entry. mapScrobblerError makes this
\* ErrUnrecoverable.
Broken(r) ==
    /\ run[r].pc = "send"
    /\ Cancelled(r) \/ (~Builtin /\ (~loaded \/ run[r].inst # loads))
    /\ Goto(r, "dequeue")
    /\ UNCHANGED <<Runner, bounds>>

\* mutant: the entry the service asked to see again is dropped like any other
GiveUpForgetting(r) == Goto(r, "dequeue")

\* ErrRetryLater keeps the entry at the head of its user's queue.
AfterRetryLater(r) == GiveUp(r)

RetryLater(r) ==
    /\ run[r].pc = "send"
    /\ busy < MaxBusy /\ busy' = busy + 1
    /\ AfterRetryLater(r)
    /\ UNCHANGED <<Runner, errs, crashes>>

\* mutant: the row is left behind
RowsAfterNoDelete(e) == buf

RowsAfterDequeue(e) == buf \ {e}

Dequeue(r) ==
    /\ run[r].pc = "dequeue"
    /\ \/ /\ ~Cancelled(r) /\ UNCHANGED bounds
          /\ buf' = RowsAfterDequeue(run[r].entry)
          /\ Becomes(r, [run[r] EXCEPT !.pc = "next", !.entry = NoEntry])
       \/ StatementFails(r) /\ GiveUp(r) /\ UNCHANGED buf
    /\ UNCHANGED <<pluginVars, wakeSignal, timer, submitVars, accepted, rejected>>

\* mutant: no timer is armed after a pass that gave up
NoRetryTimer(r) == UNCHANGED timer

RetryTimer(r) == timer' = [timer EXCEPT ![r] = IF run[r].ok THEN @ ELSE TRUE]

EndOfPass(r) ==
    /\ run[r].pc = "user" /\ run[r].users = {}
    /\ RetryTimer(r)
    /\ Goto(r, "wait")
    /\ UNCHANGED <<buf, pluginVars, wakeSignal, submitVars, accepted, rejected, bounds>>

Wake(r) ==
    /\ run[r].pc = "wait" /\ wakeSignal[r]
    /\ wakeSignal' = [wakeSignal EXCEPT ![r] = FALSE]
    /\ Goto(r, "users")
    /\ UNCHANGED <<buf, pluginVars, timer, submitVars, accepted, rejected, bounds>>

Stopped(r) ==
    /\ run[r].pc = "wait" /\ Cancelled(r)
    /\ Goto(r, "done")
    /\ UNCHANGED <<Runner, bounds>>

TimerFires(r) ==
    /\ timer[r] /\ timer' = [timer EXCEPT ![r] = FALSE]
    /\ sendWakeSignal(r)
    /\ UNCHANGED <<buf, pluginVars, run, submitVars, bounds, accepted, rejected>>

runSteps(r) ==
    \/ UserIDs(r) \/ NextUser(r) \/ Next(r) \/ Load(r)
    \/ Accept(r) \/ Reject(r) \/ Broken(r) \/ RetryLater(r)
    \/ Dequeue(r) \/ EndOfPass(r) \/ Wake(r) \/ Stopped(r)

-----------------------------------------------------------------------------
Init ==
    /\ buf = {} /\ enqueued = <<>>
    /\ loaded = Builtin /\ loads = IF Builtin THEN 1 ELSE 0
    /\ stopped = {}
    /\ IF Builtin
       THEN active \in Runners /\ run = [r \in Runners |-> IF r = active THEN [Idle EXCEPT !.pc = "users"] ELSE Idle]
       ELSE active = NoRunner /\ run = [r \in Runners |-> Idle]
    /\ wakeSignal = [r \in Runners |-> FALSE] /\ timer = [r \in Runners |-> FALSE]
    /\ target = [e \in Entries |-> "new"]
    /\ errs = 0 /\ busy = 0 /\ crashes = 0
    /\ accepted = [e \in Entries |-> 0] /\ rejected = {}

Step ==
    \/ \E e \in Entries : getActiveScrobblers(e) \/ Scrobble(e)
    \/ dispatchNowPlaying \/ LoadPlugin \/ UnloadPlugin \/ Crash
    \/ \E r \in Runners : runSteps(r) \/ TimerFires(r)

Spec == Init /\ [][Step]_vars

\* Goroutines run, timers fire, and the service answers.
Fairness == \A r \in Runners : WF_vars(runSteps(r)) /\ WF_vars(TimerFires(r))

FairSpec == Spec /\ Fairness
-----------------------------------------------------------------------------
(* Properties                                                                *)

RunStates ==
    [pc : {"off", "users", "user", "next", "load", "send", "dequeue", "wait", "done"},
     users : SUBSET Users, user : Users \cup {NoEntry}, entry : Entries \cup {NoEntry},
     inst : Nat, ok : BOOLEAN]

TypeOK ==
    /\ buf \subseteq Entries /\ enqueued \in Seq(Entries)
    /\ loaded \in BOOLEAN /\ loads \in 0..(MaxLoads + 1)
    /\ active \in Runners \cup {NoRunner}
    /\ stopped \subseteq Runners
    /\ run \in [Runners -> RunStates]
    /\ \A r \in Runners : run[r].pc \in {"load", "send", "dequeue"} => run[r].entry \in Entries
    /\ wakeSignal \in [Runners -> BOOLEAN] /\ timer \in [Runners -> BOOLEAN]
    /\ target \in [Entries -> Runners \cup {"new", "done"}]
    /\ errs \in Nat /\ busy \in Nat /\ crashes \in Nat
    /\ accepted \in [Entries -> Nat] /\ rejected \subseteq Entries

\* An entry leaves the table only when the service took it or refused it for
\* good: plugins/README.md says a scrobble is discarded on "Permanent failure".
NothingLost ==
    \A e \in Range(enqueued) : e \in buf \/ accepted[e] > 0 \/ e \in rejected

\* The service hears a user's plays in the order they happened: while an older
\* play waits for a retry, none submitted after it has been sent.
Earlier(d, e) ==
    /\ UserOf[d] = UserOf[e] /\ PlayTime[d] <= PlayTime[e]
    /\ InsertedBefore(d, e)

InOrder ==
    \A d, e \in Entries :
        Earlier(d, e) /\ d \in buf => accepted[e] = 0 /\ e \notin rejected

\* A play is reported twice only if deleting its row failed, the process
\* crashed, or a stopped scrobbler was still sending while its successor read
\* the same row.
DuplicatesExplained ==
    \A e \in Entries : accepted[e] <= 1 + errs + crashes + Cardinality(stopped)

\* A buffered play is eventually taken or refused, through crashes, failing
\* statements and a service that is busy for a while.
BufferDrains == \A e \in Entries : e \in buf ~> e \notin buf
=============================================================================
