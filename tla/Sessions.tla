------------------------------ MODULE Sessions ------------------------------
(***************************************************************************)
(* One agent session from `syrogo run` to its end: the launcher's reporter *)
(* (cmd/syrogo/launcher.go), the /session endpoints, the reaper, and the   *)
(* snapshot store with the restarts it is there for (internal/sessions).   *)
(*                                                                         *)
(* A unit of time is the reporter's ticker: in each unit the reporter      *)
(* makes one report, and the reaper, whose ticker is twice as fast, sweeps.*)
(* Requests time out, and in-flight handlers end, within a unit.  A        *)
(* request may be lost, its answer may be lost, and a request given up by  *)
(* the launcher may still reach the store.                                 *)
(***************************************************************************)
EXTENDS SessionStore

CONSTANTS HookEvents,      \* the hook events the agent may report
          Capability,      \* the values of heartbeat_capability launchers send
          MaxFaults,       \* bound: lost and late requests and answers, and failed saves
          MaxRestarts,     \* bound: how often the core stops or crashes
          None

ASSUME ReporterAssumption ==
  /\ Capability \subseteq BOOLEAN /\ HookEvents \subseteq STRING \X STRING
  /\ MaxFaults \in Nat /\ MaxRestarts \in Nat
  /\ LeaseTTL > 1   \* a lease is 45 s, sessionHeartbeatInterval 10 s

VARIABLES core,        \* "up", "closing" or "down"
          session,     \* store.sessions, for this session's ID
          dirty,       \* store.generation # snapshotStore.persisted
          newer,       \* the generation has moved since the save under way exported
          saving,      \* what the save under way has exported, or None
          disk,        \* latest.json
          swept,       \* the reaper has swept in this unit
          phase,       \* where the launcher is
          capable,     \* whether it declares heartbeat_v1
          registered,  \* reporter.registered
          reported,    \* it has made this unit's report
          late,        \* a request the launcher has given up that may still arrive
          faults, restarts,
          missed,      \* history: consecutive reports a running core did not get
          ended,       \* history: the session was told to stop
          outage       \* history: as many were missed in a row as the lease allows

coreVars == <<core, session, dirty, newer, saving, disk, swept, restarts>>
launcherVars == <<phase, capable, registered, reported, late, faults, missed, ended, outage>>
vars == <<coreVars, launcherVars>>

Phases == {"new", "starting", "running", "reregister", "closing", "stopping", "done"}
Alive == phase \in {"starting", "running", "reregister"}

TypeOK ==
  /\ core \in {"up", "closing", "down"}
  /\ session \in Session \cup {NoSession} /\ disk \in Session \cup {NoSession}
  /\ saving \in Session \cup {NoSession, None}
  /\ {dirty, newer, swept, capable, registered, reported, ended, outage} \subseteq BOOLEAN
  /\ phase \in Phases
  /\ late \in {"register", "heartbeat", "stopped", None}
  /\ faults \in 0 .. MaxFaults /\ restarts \in 0 .. MaxRestarts
  /\ missed \in 0 .. LeaseTTL - 1

Init ==
  /\ core = "up" /\ session = NoSession /\ disk = NoSession
  /\ dirty = FALSE /\ newer = FALSE /\ saving = None /\ swept = FALSE
  /\ phase = "new" /\ capable \in Capability /\ registered = FALSE /\ reported = FALSE
  /\ late = None /\ faults = 0 /\ restarts = 0
  /\ missed = 0 /\ ended = FALSE /\ outage = FALSE

(***************************************************************************)
(* The store.  setSessionLocked moves the generation when the session      *)
(* changed, and Sweep when it removed one.                                 *)
(***************************************************************************)
SetSession(s) ==
  /\ session' = s
  /\ dirty' = (dirty \/ s # session)
  /\ newer' = (saving # None /\ (newer \/ s # session))

Handle(request) ==
  CASE request = "register"  -> SetSession(Register(session, capable))
    [] request = "heartbeat" -> SetSession(Heartbeat(session))
    [] request = "stopped"   -> SetSession(MarkStopped(session))

ReachesStore(request) ==
  /\ Handle(request)
  /\ missed' = 0 /\ outage' = outage
  /\ ended' = (ended \/ request = "stopped")
  /\ UNCHANGED <<core, saving, disk, swept, restarts, capable>>

StoreUntouched ==
  /\ missed' = IF core = "up" /\ missed < LeaseTTL - 1 THEN missed + 1 ELSE missed
  /\ outage' = (outage \/ missed' = LeaseTTL - 1)
  /\ UNCHANGED <<coreVars, capable, ended>>

Fault == faults < MaxFaults /\ faults' = faults + 1

(***************************************************************************)
(* postSessionJSONContext: a request of the launcher that the core answers *)
(* with a 2xx status, and one that ends in an error for the launcher: it   *)
(* did not arrive, its answer did not, or it arrives after the timeout.    *)
(***************************************************************************)
Answered(request) ==
  /\ core = "up" /\ ReachesStore(request)
  /\ UNCHANGED <<late, faults>>

Failed(request) ==
  \/ core # "up" /\ StoreUntouched /\ UNCHANGED <<late, faults>>
  \/ core = "up" /\ Fault /\ StoreUntouched /\ UNCHANGED late
  \/ core = "up" /\ Fault /\ ReachesStore(request) /\ UNCHANGED late
  \/ core = "up" /\ Fault /\ late = None /\ late' = request /\ StoreUntouched

LateArrival ==
  /\ core # "down" /\ late # None
  /\ ReachesStore(late) /\ late' = None
  /\ UNCHANGED <<phase, registered, reported, faults>>

(***************************************************************************)
(* The launcher.  startClaudeSessionReporter registers before the ticker   *)
(* starts; runClaudeSessionReporter makes one report a tick.               *)
(***************************************************************************)
Launch ==
  /\ phase = "new" /\ phase' = "starting"
  /\ UNCHANGED <<coreVars, capable, registered, reported, late, faults, missed, ended, outage>>

InitialRegister ==
  /\ phase = "starting" /\ phase' = "running" /\ reported' = TRUE
  /\ \/ Answered("register") /\ registered' = TRUE
     \/ Failed("register") /\ registered' = FALSE

RetryRegister ==
  /\ phase = "running" /\ ~reported /\ ~registered
  /\ phase' = phase /\ reported' = TRUE
  /\ \/ Answered("register") /\ registered' = TRUE
     \/ Failed("register") /\ UNCHANGED registered

(* A heartbeat the store answers, or one that fails: the reporter waits    *)
(* for the next tick in both cases.                                        *)
SendHeartbeat ==
  /\ phase = "running" /\ ~reported /\ registered /\ capable
  /\ phase' = phase /\ reported' = TRUE /\ UNCHANGED registered
  /\ \/ session # NoSession /\ Answered("heartbeat")
     \/ Failed("heartbeat")

(* The core does not know the session (404): register again, at once.      *)
HeartbeatNotFound ==
  /\ phase = "running" /\ ~reported /\ registered /\ capable
  /\ session = NoSession /\ Answered("heartbeat")
  /\ phase' = "reregister" /\ UNCHANGED <<registered, reported>>

Reregister ==
  /\ phase = "reregister" /\ phase' = "running" /\ reported' = TRUE
  /\ \/ Answered("register") /\ registered' = TRUE
     \/ Failed("register") /\ registered' = FALSE

(* A launcher of another kind that declares no capability only registers.  *)
NoReport ==
  /\ phase = "running" /\ ~reported /\ registered /\ ~capable /\ reported' = TRUE
  /\ UNCHANGED <<coreVars, phase, capable, registered, late, faults, missed, ended, outage>>

(* The agent exits: reporter.Close cancels the report under way.           *)
AgentExits ==
  /\ phase \in {"running", "reregister"}
  /\ registered' = (registered /\ phase = "running")
  /\ phase' = IF registered' THEN "stopping" ELSE "closing"
  /\ UNCHANGED <<coreVars, capable, reported, late, faults, missed, ended, outage>>

FinalRegister ==
  /\ phase = "closing" /\ phase' = "stopping"
  /\ \/ Answered("register") /\ registered' = TRUE
     \/ Failed("register") /\ UNCHANGED registered
  /\ UNCHANGED reported

PostStopped ==
  /\ phase = "stopping" /\ phase' = "done"
  /\ Answered("stopped") \/ Failed("stopped")
  /\ UNCHANGED <<registered, reported>>

(* The launcher is killed and says nothing.                                *)
LauncherKilled ==
  /\ phase \notin {"new", "done"} /\ phase' = "done"
  /\ UNCHANGED <<coreVars, capable, registered, reported, late, faults, missed, ended, outage>>

(* A hook process of the agent reports an event; one that fails is lost.   *)
HookEvent ==
  /\ core = "up" /\ Alive
  /\ \E event \in HookEvents :
       /\ SetSession(ApplyHookEvent(session, event))
       /\ ended' = (ended \/ event[1] = "SessionEnd")
  /\ UNCHANGED <<core, saving, disk, swept, restarts, phase, capable, registered,
                 reported, late, faults, missed, outage>>

(***************************************************************************)
(* The core: the reaper and the snapshot store.                            *)
(***************************************************************************)
ReaperSweep ==
  /\ core = "up" /\ SetSession(Sweep(session)) /\ swept' = TRUE
  /\ UNCHANGED <<core, saving, disk, restarts, launcherVars>>

SaveExport ==
  /\ core = "up" /\ saving = None /\ dirty
  /\ saving' = session /\ newer' = FALSE
  /\ UNCHANGED <<core, session, dirty, disk, swept, restarts, launcherVars>>

(* Mutant: persisted is set to the generation of the moment.               *)
SaveWriteForgetsNewer ==
  /\ core = "up" /\ saving # None /\ saving' = None
  /\ \/ disk' = saving /\ dirty' = FALSE /\ UNCHANGED faults
     \/ Fault /\ disk' \in {disk, saving} /\ UNCHANGED dirty
  /\ newer' = FALSE
  /\ UNCHANGED <<core, session, swept, restarts, phase, capable, registered, reported, late,
                 missed, ended, outage>>

(* writeSnapshotAtomic, and persisted := the generation exported; when it  *)
(* fails, before the rename or after it, at the directory, the next tick   *)
(* saves again.                                                            *)
SaveWrite ==
  /\ core = "up" /\ saving # None /\ saving' = None
  /\ \/ disk' = saving /\ dirty' = newer /\ UNCHANGED faults
     \/ Fault /\ disk' \in {disk, saving} /\ UNCHANGED dirty
  /\ newer' = FALSE
  /\ UNCHANGED <<core, session, swept, restarts, phase, capable, registered, reported, late,
                 missed, ended, outage>>

(* A signal: the listeners close, then App.Close stops the reaper and      *)
(* saves once more; handlers still running may change the store meanwhile. *)
Shutdown ==
  /\ core = "up" /\ restarts < MaxRestarts /\ core' = "closing"
  /\ restarts' = restarts + 1
  /\ UNCHANGED <<session, dirty, newer, saving, disk, swept, launcherVars>>

CloseSnapshotStore ==
  /\ core = "closing" /\ core' = "down"
  /\ disk' = session /\ session' = NoSession /\ saving' = None
  /\ dirty' = FALSE /\ newer' = FALSE /\ swept' = FALSE
  /\ UNCHANGED <<restarts, launcherVars>>

Crash ==
  /\ core # "down" /\ restarts < MaxRestarts /\ core' = "down"
  /\ restarts' = restarts + 1
  /\ session' = NoSession /\ saving' = None
  /\ dirty' = FALSE /\ newer' = FALSE /\ swept' = FALSE
  /\ UNCHANGED <<disk, launcherVars>>

(* AcquireInstanceLock, then Load: persisted is the snapshot's generation, *)
(* and the store's is one more when the import changed a session.          *)
Restart ==
  /\ core = "down" /\ core' = "up"
  /\ session' = ImportSnapshot(disk)
  /\ dirty' = (session' # disk) /\ newer' = FALSE /\ missed' = 0
  /\ UNCHANGED <<saving, disk, swept, restarts, phase, capable, registered, reported, late,
                 faults, ended, outage>>

Tick ==
  /\ late = None /\ saving = None /\ core # "closing"
  /\ core = "up" => swept
  /\ phase \in {"running", "done", "new"} /\ (phase = "running" => reported)
  /\ session' = Older(session) /\ disk' = Older(disk)
  /\ swept' = FALSE /\ reported' = FALSE
  /\ UNCHANGED <<core, dirty, newer, saving, restarts, phase, capable, registered, late,
                 faults, missed, ended, outage>>

Report == InitialRegister \/ RetryRegister \/ SendHeartbeat \/ HeartbeatNotFound \/ Reregister
          \/ NoReport

Next ==
  \/ Launch \/ Report \/ AgentExits \/ FinalRegister \/ PostStopped \/ LauncherKilled
  \/ HookEvent \/ LateArrival
  \/ ReaperSweep \/ SaveExport \/ SaveWrite \/ Shutdown \/ CloseSnapshotStore \/ Crash
  \/ Restart \/ Tick

(***************************************************************************)
(* Time passes, the tickers fire, a started launcher keeps going, saves    *)
(* end, and systemd restarts the core (Restart=always).                    *)
(***************************************************************************)
Fairness ==
  /\ WF_vars(Tick) /\ WF_vars(ReaperSweep) /\ WF_vars(Report)
  /\ WF_vars(FinalRegister) /\ WF_vars(PostStopped) /\ WF_vars(LateArrival)
  /\ WF_vars(SaveWrite) /\ WF_vars(CloseSnapshotStore) /\ WF_vars(Restart)

Spec == Init /\ [][Next]_vars /\ Fairness

(***************************************************************************)
(* The flush ticker writes nothing when the generation has not moved since *)
(* the last save (save, snapshot_store.go): in that case latest.json holds *)
(* the store, whatever hooks, sweeps and imports happened around the save. *)
(***************************************************************************)
SnapshotInSync == core = "up" /\ ~dirty => session = disk

(***************************************************************************)
(* The reaper gives up a session (Sweep, store.go) for want of heartbeats  *)
(* only when the network really lost as many reports in a row as the lease *)
(* allows: neither one lost report, nor a restart of the core, nor the     *)
(* time it was down, ends the session of a running agent.                  *)
(***************************************************************************)
NoFalseStop ==
  Alive /\ capable /\ Stopped(session) => ended \/ outage

(***************************************************************************)
(* As long as the core runs, a stopped session stays stopped until it is   *)
(* pruned: late heartbeats, hooks and registrations do not revive it.      *)
(***************************************************************************)
StoppedIsFinal ==
  [][core = "up" /\ core' # "down" /\ Stopped(session)
       => session' = NoSession \/ Stopped(session')]_vars

(***************************************************************************)
(* Once the launcher is gone its session does not stay active for ever,    *)
(* even when the stop request was lost, a late registration created the    *)
(* session after it, or a crash brought back an older snapshot: the lease  *)
(* runs out (Sweep).  Without the capability only the launcher's word ends *)
(* it.                                                                     *)
(***************************************************************************)
DeadAgentsStop ==
  [](phase = "done" /\ capable => <>[](session = NoSession \/ Stopped(session)))

(***************************************************************************)
(* A running agent is not lost for good: after an outage that stopped its  *)
(* session, a restart or a crash, requests are attributed to it again      *)
(* (LatestActive).  A stopped session answers heartbeats with 200, so this *)
(* waits for the prune, the 404 after it and the new registration.         *)
(***************************************************************************)
LiveAgentReturns == Alive /\ capable ~> LatestActive(session) \/ ~Alive
=============================================================================
