------------------------------- MODULE Reload -------------------------------
(***************************************************************************)
(* internal/app/reload.go: the manager that changes the configuration file *)
(* and the running configuration, with the history it keeps, and the       *)
(* process it runs in (internal/app/app.go).                               *)
(*                                                                         *)
(* Operations hold the manager's lock, so one is under way at a time; its  *)
(* steps are apart because requests see the listeners change one by one,   *)
(* each step can fail, and the process can crash between them.  A file     *)
(* replaced by rename changes in one step.  Someone may edit the file by   *)
(* hand, but not while an operation is under way.                          *)
(***************************************************************************)
EXTENDS ConfigResources

CONSTANTS Listeners,        \* the number of listeners, swapped in this order
          InitialConfig,
          InitialHistories, \* what earlier runs of the process may have left
          Submitted,        \* configurations submitted whole, or edited by hand
          HistoryLimit,     \* configHistoryLimit
          MaxOps, MaxFaults, MaxCrashes,   \* bounds
          None

ASSUME ReloadAssumption ==
  /\ Listeners \in Nat /\ HistoryLimit \in Nat /\ HistoryLimit > 1
  /\ IsConfig(InitialConfig) /\ Validate(InitialConfig)
  /\ \A c \in Submitted : IsConfig(c)
  /\ \A h \in InitialHistories : h \in Seq(ToSet(h)) /\ \A c \in ToSet(h) : IsConfig(c)

VARIABLES up,        \* the process is running
          file,      \* the configuration file
          edited,    \* its content was put there by hand
          running,   \* app.cfg
          served,    \* the RuntimeState each listener's handler serves from
          history,   \* .syrogo-history, newest first
          op,        \* the operation under way: [kind, at, file, next, swapped], or NoOp
          result,    \* how the last operation ended
          ops, faults, crashes

managerVars == <<file, edited, running, served, history, op, result>>
reloadVars == <<up, managerVars, ops, faults, crashes>>

NoOp == [kind |-> "none"]

Load(c) ==
  /\ running' = c
  /\ served' = [l \in 1 .. Listeners |-> c]

ReloadInit ==
  /\ up = TRUE /\ file = InitialConfig /\ edited = FALSE
  /\ running = InitialConfig /\ served = [l \in 1 .. Listeners |-> InitialConfig]
  /\ history \in InitialHistories /\ op = NoOp /\ result = "ok"
  /\ ops = 0 /\ faults = 0 /\ crashes = 0

restartRequired(current, next) == current.fixed # next.fixed

(* SaveBytes and Prune: the newest entries stay. *)
Saved(c) ==
  LET entries == <<c>> \o history
  IN  SubSeq(entries, 1, Min({Len(entries), HistoryLimit}))

Idle == up /\ op = NoOp /\ ops < MaxOps

Begin(kind, at, next) ==
  /\ op' = [kind |-> kind, at |-> at, file |-> file, next |-> next, swapped |-> 0]
  /\ ops' = ops + 1
  /\ UNCHANGED <<up, file, edited, running, served, history, result, faults, crashes>>

At(step) == op # NoOp /\ op.at = step

GoTo(step) == op' = [op EXCEPT !.at = step] /\ UNCHANGED result

End(how) == op' = NoOp /\ result' = how

Fault == faults < MaxFaults /\ faults' = faults + 1

NoFault == UNCHANGED faults

-----------------------------------------------------------------------------
(* UpdateConfig: the file only, if its revision is the expected one or *)
(* "*" was given (expected = None).                                    *)
UpdateConfig(expected, data) ==
  /\ Idle
  /\ expected \in {None, file} /\ Validate(data)
  /\ file' = data /\ edited' = FALSE /\ ops' = ops + 1
  /\ UNCHANGED <<up, running, served, history, op, result, faults, crashes>>

(* Mutant: the mutated configuration is not validated again. *)
MutateUnvalidated(next) ==
  /\ Idle
  /\ Validate(file) /\ ~restartRequired(running, file)
  /\ ~restartRequired(running, next)
  /\ Begin("mutate", "history", next)

(* mutateConfig up to the runtime being built. *)
MutateConfig(next) ==
  /\ Idle
  /\ Validate(file) /\ ~restartRequired(running, file)
  /\ Validate(next) /\ ~restartRequired(running, next)
  /\ Begin("mutate", "history", next)

(* applyConfigLocked as an operation of its own, up to the runtime being built. *)
ApplyConfig ==
  /\ Idle
  /\ Validate(file) /\ ~restartRequired(running, file)
  /\ Begin("apply", "save running", file)

Rollback(i) ==
  /\ Idle
  /\ i \in DOMAIN history /\ Validate(history[i])
  /\ Begin("rollback", "history", history[i])

(* history.SaveBytes with the file as the operation read it. *)
SaveFile ==
  /\ At("history") /\ NoFault
  /\ history' = Saved(op.file)
  /\ GoTo("write")
  /\ UNCHANGED <<up, file, edited, running, served, ops, crashes>>

(* Saving fails, before or after the entry has been written. *)
SaveFails ==
  /\ At("history") /\ Fault
  /\ history' \in {history, Saved(op.file)}
  /\ End("error")
  /\ UNCHANGED <<up, file, edited, running, served, ops, crashes>>

WriteFile ==
  /\ At("write") /\ NoFault
  /\ file' = op.next /\ edited' = FALSE
  /\ GoTo(IF op.kind = "mutate" THEN "trackers" ELSE "build")
  /\ UNCHANGED <<up, running, served, history, ops, crashes>>

WriteFails ==
  /\ At("write") /\ Fault
  /\ End("error")
  /\ UNCHANGED <<up, file, edited, running, served, history, ops, crashes>>

(* rollback calls applyConfigLocked on the file it has written: it builds   *)
(* the runtime, unless a restart is required, and then the file stays.      *)
RollbackBuilds ==
  /\ At("build") /\ NoFault
  /\ IF restartRequired(running, op.next) THEN End("restart") ELSE GoTo("save running")
  /\ UNCHANGED <<up, file, edited, running, served, history, ops, crashes>>

RollbackBuildFails ==
  /\ At("build") /\ Fault /\ ~restartRequired(running, op.next)
  /\ GoTo("restore")
  /\ UNCHANGED <<up, file, edited, running, served, history, ops, crashes>>

(* history.SaveConfig with the running configuration. *)
SaveRunning ==
  /\ At("save running") /\ NoFault
  /\ history' = Saved(running)
  /\ GoTo("trackers")
  /\ UNCHANGED <<up, file, edited, running, served, ops, crashes>>

SaveRunningFails ==
  /\ At("save running") /\ Fault
  /\ history' \in {history, Saved(running)}
  /\ IF op.kind = "rollback" THEN GoTo("restore") ELSE End("error")
  /\ UNCHANGED <<up, file, edited, running, served, ops, crashes>>

(* Mutant: a failed rollback leaves the file it has written. *)
RestoreSkipped ==
  /\ At("restore") /\ NoFault
  /\ End("error")
  /\ UNCHANGED <<up, file, edited, running, served, history, ops, crashes>>

(* A failed rollback writes the old file back, which WriteValidatedFile *)
(* refuses if that was not valid.                                       *)
Restore ==
  /\ At("restore") /\ NoFault
  /\ file' = (IF Validate(op.file) THEN op.file ELSE file)
  /\ End("error")
  /\ UNCHANGED <<up, edited, running, served, history, ops, crashes>>

(* Its error is not looked at: what is reported is that of the apply. *)
RestoreFails ==
  /\ At("restore") /\ Fault
  /\ End("error")
  /\ UNCHANGED <<up, file, edited, running, served, history, ops, crashes>>

(* applyRuntimeLocked: the trackers (see Gateway), then each handler. *)
ReconfigureTrackers ==
  /\ At("trackers") /\ NoFault
  /\ GoTo("swap")
  /\ UNCHANGED <<up, file, edited, running, served, history, ops, crashes>>

(* Mutant: the first listener alone gets the new configuration. *)
SwapFirst ==
  /\ At("swap") /\ op.swapped < Listeners /\ NoFault
  /\ served' = [served EXCEPT ![1] = op.next]
  /\ op' = [op EXCEPT !.swapped = @ + 1]
  /\ UNCHANGED <<up, file, edited, running, history, result, ops, crashes>>

ApplyRuntime ==
  /\ At("swap") /\ op.swapped < Listeners /\ NoFault
  /\ served' = [served EXCEPT ![op.swapped + 1] = op.next]
  /\ op' = [op EXCEPT !.swapped = @ + 1]
  /\ UNCHANGED <<up, file, edited, running, history, result, ops, crashes>>

Commit ==
  /\ At("swap") /\ op.swapped = Listeners /\ NoFault
  /\ running' = op.next
  /\ End("ok")
  /\ UNCHANGED <<up, file, edited, served, history, ops, crashes>>

-----------------------------------------------------------------------------
(* A file that does not load is always edited again. *)
EditFile(content) ==
  /\ op = NoOp /\ (ops < MaxOps \/ ~Validate(file))
  /\ file' = content /\ edited' = TRUE /\ ops' = Min({ops + 1, MaxOps})
  /\ UNCHANGED <<up, running, served, history, op, result, faults, crashes>>

Crash ==
  /\ up /\ crashes < MaxCrashes
  /\ up' = FALSE /\ op' = NoOp /\ crashes' = crashes + 1
  /\ UNCHANGED <<file, edited, running, served, history, result, ops, faults>>

(* main loads the file, and NewWithOptions builds the application from it. *)
Start ==
  /\ ~up /\ Validate(file)
  /\ up' = TRUE /\ Load(file) /\ result' = "ok"
  /\ UNCHANGED <<file, edited, history, op, ops, faults, crashes>>

Revisions == {None, file} \cup {history[i] : i \in DOMAIN history}

ManagerNext ==
  \/ \E expected \in Revisions, data \in Submitted : UpdateConfig(expected, data)
  \/ \E next \in ProviderUpserts(file) : MutateConfig(next)
  \/ \E next \in ProviderDeletes(file) : MutateConfig(next)
  \/ \E next \in ProviderEnables(file) : MutateConfig(next)
  \/ \E next \in ClientUpserts(file) : MutateConfig(next)
  \/ \E next \in ClientDeletes(file) : MutateConfig(next)
  \/ \E next \in BindingUpserts(file) : MutateConfig(next)
  \/ \E next \in BindingDeletes(file) : MutateConfig(next)
  \/ \E next \in RouteUpserts(file) : MutateConfig(next)
  \/ \E next \in RouteDeletes(file) : MutateConfig(next)
  \/ \E seen \in Revisions \ {None} : \E next \in RouteReorders(file, seen.rules) : MutateConfig(next)
  \/ ApplyConfig
  \/ \E i \in DOMAIN history : Rollback(i)
  \/ \E content \in Submitted : EditFile(content)
  \/ SaveFile \/ SaveFails \/ WriteFile \/ WriteFails
  \/ RollbackBuilds \/ RollbackBuildFails \/ SaveRunning \/ SaveRunningFails
  \/ Restore \/ RestoreFails \/ ApplyRuntime \/ Commit

-----------------------------------------------------------------------------
(* The file always loads at the next start, unless someone has put what is *)
(* in it there by hand: every way the manager writes the file, the         *)
(* restoring after a failed rollback included, goes through Validate.      *)
FileLoads == edited \/ Validate(file)

(* Between operations every listener serves the one configuration the      *)
(* manager takes to be running, and compares changes to (app.cfg).         *)
ServedAgrees == (up /\ op = NoOp) => \A l \in 1 .. Listeners : served[l] = running

(* An operation is done or not done.  One that reports an error has not    *)
(* changed what is served.  It has not changed the file either: rollback   *)
(* writes before it applies, and takes that back, except when the old file *)
(* was not valid or writing it back fails too (reload.go:279 drops that    *)
(* error).  Then, as with all that is replaced, nothing is lost for good:  *)
(* whenever the file has changed its old content is in the history, and    *)
(* when an apply or a rollback changes what is running, so is the          *)
(* configuration that ran.                                                 *)
AllOrNothing ==
  [][/\ (op # NoOp /\ op' = NoOp /\ up' /\ result' = "error") =>
          /\ running' = running /\ served' = served
          /\ file' = op.file \/ ~Validate(op.file) \/ RestoreFails
          /\ file' = op.file \/ Contains(history', op.file)
     /\ WriteFile => Contains(history', file)
     /\ (Commit /\ op.kind # "mutate") => Contains(history', running)]_reloadVars

(* A mutation of one resource leaves no dangling reference and no route    *)
(* without clients: a tag that rules route from keeps a binding that       *)
(* supplies it, and a provider that prices refer to stays                  *)
(* (validateClientTagRemoval, validateProviderDelete).                     *)
ReferencesKept ==
  [][(WriteFile /\ op.kind = "mutate") =>
       /\ \A tag \in RoutedTags(file) : Sources(file, tag) # {} => Sources(file', tag) # {} \/ tag \notin RoutedTags(file')
       /\ \A name \in file.pricing : (\E i \in DOMAIN file.outbounds : file.outbounds[i].name = name) =>
            \E i \in DOMAIN file'.outbounds : file'.outbounds[i].name = name]_reloadVars
=============================================================================
