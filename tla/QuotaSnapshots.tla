--------------------------- MODULE QuotaSnapshots ---------------------------
(***************************************************************************)
(* latest.json as internal/quota/snapshot_store.go writes it: a save       *)
(* exports the trackers' state, truncates and writes the one temporary     *)
(* file, and renames it over latest.json, with no lock.  A store saves     *)
(* from its ticker and once more when it is closed; a reload starts the    *)
(* new store before it closes the old one.  Files are inodes: whoever has  *)
(* one open writes to it under whatever name it has by then.               *)
(***************************************************************************)
EXTENDS Integers, FiniteSets

CONSTANTS Inodes,       \* one more than can be in use
          MaxUsage,     \* bound: changes of the trackers' state
          MaxLives,     \* bound: starts of the process
          NoFile

ASSUME SnapshotsAssumption ==
  NoFile \notin Inodes /\ IsFiniteSet(Inodes) /\ Cardinality(Inodes) > 4

Savers == {"ticker", "closer", "newTicker"}   \* the old store's two, and the new store's

VARIABLES trackers,     \* the state of the trackers, as the number of its changes
          tmp, latestFile, \* the inodes named latest.json.tmp and latest.json
          content,      \* per inode: a state, or -1 when it does not decode
          saver,        \* per saver: [at, state, inode]
          lives,        \* starts so far
          process,      \* "up", "reloaded", "swapped", "down" or "refused"
          overlapped,   \* history: two saves have been under way at once
          lastSaved     \* history: the state of the last save that was finished

snapshotVars == <<trackers, tmp, latestFile, content, saver, lives, process, overlapped, lastSaved>>

Off == [at |-> "off", state |-> 0, inode |-> NoFile]
SaverIdle == [Off EXCEPT !.at = "idle"]
Saving(s) == saver[s].at \in {"exported", "open", "written"}

SnapshotsInit ==
  /\ trackers = 0 /\ tmp = NoFile /\ latestFile = NoFile
  /\ content = [i \in Inodes |-> -1]
  /\ saver = [s \in Savers |-> IF s = "ticker" THEN SaverIdle ELSE Off]
  /\ lives = 1 /\ process = "up" /\ overlapped = FALSE /\ lastSaved = 0

Running == process \in {"up", "reloaded", "swapped"}

UseQuota ==
  /\ Running /\ trackers < MaxUsage /\ trackers' = trackers + 1
  /\ UNCHANGED <<tmp, latestFile, content, saver, lives, process, overlapped, lastSaved>>

(* run's tick, and Close's last save: Save begins with ExportState. *)
Export(s) ==
  /\ saver[s].at = "idle"
  /\ saver' = [saver EXCEPT ![s] = [at |-> "exported", state |-> trackers, inode |-> NoFile]]
  /\ overlapped' = (overlapped \/ \E o \in Savers : Saving(o))
  /\ UNCHANGED <<trackers, tmp, latestFile, content, lives, process, lastSaved>>

(* os.WriteFile opens the temporary file, truncating it or making it anew. *)
Free == Inodes \ ({tmp, latestFile} \cup {saver[s].inode : s \in Savers})

OpenTmp(s) ==
  /\ saver[s].at = "exported"
  /\ LET i == IF tmp = NoFile THEN CHOOSE f \in Free : TRUE ELSE tmp
     IN  /\ tmp' = i /\ content' = [content EXCEPT ![i] = -1]
         /\ saver' = [saver EXCEPT ![s].at = "open", ![s].inode = i]
  /\ UNCHANGED <<trackers, latestFile, lives, process, overlapped, lastSaved>>

(* The payload is written from the start.  Over another's payload, a longer *)
(* one leaves its tail.                                                     *)
WriteTmp(s) ==
  /\ saver[s].at = "open"
  /\ LET i == saver[s].inode
     IN  \E v \in {saver[s].state} \cup (IF content[i] = -1 THEN {} ELSE {-1}) :
           content' = [content EXCEPT ![i] = v]
  /\ saver' = [saver EXCEPT ![s].at = "written"]
  /\ UNCHANGED <<trackers, tmp, latestFile, lives, process, overlapped, lastSaved>>

(* os.Rename: the file that had the name is gone. *)
Replace ==
  /\ latestFile' = tmp /\ tmp' = NoFile
  /\ content' = IF latestFile = NoFile THEN content ELSE [content EXCEPT ![latestFile] = -1]

Done(s) == IF s = "closer" THEN Off ELSE SaverIdle

(* Mutant: the file is put in place before it is written. *)
RenameFirst(s) ==
  /\ saver[s].at \in {"open", "written"}
  /\ IF tmp = NoFile THEN UNCHANGED <<tmp, latestFile, content, lastSaved>>
     ELSE Replace /\ lastSaved' = saver[s].state
  /\ saver' = [saver EXCEPT ![s] = IF saver[s].at = "written" THEN Done(s) ELSE saver[s]]
  /\ UNCHANGED <<trackers, lives, process, overlapped>>

(* The rename takes whatever file has the name; without one it fails. *)
Rename(s) ==
  /\ saver[s].at = "written"
  /\ IF tmp = NoFile THEN UNCHANGED <<tmp, latestFile, content, lastSaved>>
     ELSE Replace /\ lastSaved' = saver[s].state
  /\ saver' = [saver EXCEPT ![s] = Done(s)]
  /\ UNCHANGED <<trackers, lives, process, overlapped>>

(* A reload builds the new store around the same trackers ... *)
StartNewStore ==
  /\ process = "up" /\ process' = "reloaded" /\ saver["closer"].at = "off"
  /\ saver' = [saver EXCEPT !["newTicker"] = SaverIdle]
  /\ UNCHANGED <<trackers, tmp, latestFile, content, lives, overlapped, lastSaved>>

(* ... and closes the old one, or the new one if the reload fails: Close   *)
(* stops the ticker, waits for its save to end, and saves once more.       *)
Close(s) ==
  /\ process = "reloaded" /\ saver[s].at = "idle" /\ saver["closer"].at = "off"
  /\ saver' = [saver EXCEPT ![s] = Off, !["closer"] = SaverIdle]
  /\ process' = IF s = "newTicker" THEN "up" ELSE "swapped"
  /\ UNCHANGED <<trackers, tmp, latestFile, content, lives, overlapped, lastSaved>>

CrashProcess ==
  /\ Running /\ process' = "down"
  /\ saver' = [s \in Savers |-> Off]
  /\ UNCHANGED <<trackers, tmp, latestFile, content, lives, overlapped, lastSaved>>

(* Load: without a file the trackers start empty; one that does not decode *)
(* stops the start.                                                        *)
StartProcess ==
  /\ process = "down" /\ lives < MaxLives /\ lives' = lives + 1
  /\ IF latestFile # NoFile /\ content[latestFile] = -1
     THEN process' = "refused" /\ UNCHANGED <<trackers, saver>>
     ELSE /\ process' = "up"
          /\ trackers' = IF latestFile = NoFile THEN 0 ELSE content[latestFile]
          /\ saver' = [saver EXCEPT !["ticker"] = SaverIdle]
  /\ UNCHANGED <<tmp, latestFile, content, overlapped, lastSaved>>

SnapshotsNext ==
  \/ UseQuota \/ StartNewStore \/ (\E s \in {"ticker", "newTicker"} : Close(s)) \/ CrashProcess \/ StartProcess
  \/ \E s \in Savers : Export(s) \/ OpenTmp(s) \/ WriteTmp(s) \/ Rename(s)

SnapshotsSpec == SnapshotsInit /\ [][SnapshotsNext]_snapshotVars

(* As long as no two saves have overlapped, latest.json holds the state of *)
(* the last save that was finished, whole, whenever the process crashes,   *)
(* and a start restores it (snapshot_store.go Save, Load).  Two saves do   *)
(* overlap when a ticker fires while the old store is closed in a reload.  *)
SavesAreAtomic ==
  ~overlapped => /\ process # "refused"
                 /\ latestFile # NoFile => content[latestFile] = lastSaved
=============================================================================
