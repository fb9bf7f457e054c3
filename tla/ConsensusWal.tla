---------------------------- MODULE ConsensusWal ----------------------------
(***************************************************************************)
(* The log in which Overlord keeps its consensus state: one file per       *)
(* update, named by the wall clock in milliseconds and opening with the    *)
(* checksum of its content (core/consensus/src/wal.rs).  An update writes  *)
(* a new file and then deletes the older ones; a load reads the files from *)
(* the newest name down.  The process may die between any two system calls *)
(* and the wall clock may be set back.                                     *)
(***************************************************************************)
EXTENDS Naturals

CONSTANTS
    MaxTime,     \* the last tick of the wall clock
    MaxSaves,    \* how many updates Overlord makes
    MaxFaults,   \* crashes and failed system calls, together
    MaxBacks     \* how often the wall clock is set back

ASSUME WalAssumption ==
    /\ MaxTime \in Nat
    /\ MaxSaves \in Nat
    /\ MaxFaults \in Nat
    /\ MaxBacks \in Nat

VARIABLES
    files,     \* what the directory holds under each timestamp
    clock,     \* the wall clock
    pc,        \* where the log's only user is
    info,      \* the number of the last update started
    timestamp, \* the name the running update chose
    listing,   \* directory entries the running clean-up or load has left
    saved,     \* the last update that returned Ok
    loaded,    \* what the last load returned, 0 for an error
    faults, backs,
    skewed     \* history: the clock was set back and no update has made up for it

vars == <<files, clock, pc, info, timestamp, listing, saved, loaded, faults,
          backs, skewed>>

Time == 0..MaxTime
Info == 0..MaxSaves

\* A file shorter than a checksum, one whose checksum does not match, and one
\* whose content can be read back.
Size == {"short", "torn", "whole"}
NoFile == [info |-> 0, size |-> "none"]
File == [info : Info, size : Size \cup {"none"}]
Names == {t \in Time : files[t].size # "none"}

TypeOK ==
    /\ files \in [Time -> File]
    /\ clock \in Time
    /\ pc \in {"down", "load", "idle", "stamp", "open", "write", "clean"}
    /\ info \in Info
    /\ timestamp \in Time
    /\ listing \in SUBSET Time
    /\ saved \in Info
    /\ loaded \in Info
    /\ faults \in 0..MaxFaults
    /\ backs \in 0..MaxBacks
    /\ skewed \in BOOLEAN

Init ==
    /\ files = [t \in Time |-> NoFile]
    /\ clock = 0
    /\ pc = "down"
    /\ info = 0
    /\ timestamp = 0
    /\ listing = {}
    /\ saved = 0
    /\ loaded = 0
    /\ faults = 0
    /\ backs = 0
    /\ skewed = FALSE

-----------------------------------------------------------------------------
(* update_overlord_wal *)

SaveBegin ==
    /\ pc = "idle"
    /\ info < MaxSaves
    /\ info' = info + 1
    /\ pc' = "stamp"
    /\ UNCHANGED <<files, clock, timestamp, listing, saved, loaded, faults, backs, skewed>>

\* A bug's name: the next millisecond instead of the wait.
SaveStampAhead ==
    /\ pc = "stamp"
    /\ timestamp' = IF clock \in Names THEN clock + 1 ELSE clock
    /\ pc' = "open"
    /\ UNCHANGED <<files, clock, info, listing, saved, loaded, faults, backs, skewed>>

\* The loop that waits for a millisecond no file is named after.
SaveStamp ==
    /\ pc = "stamp"
    /\ clock \notin Names
    /\ timestamp' = clock
    /\ pc' = "open"
    /\ UNCHANGED <<files, clock, info, listing, saved, loaded, faults, backs, skewed>>

\* A bug's order: the old files are deleted before the new one is written.
SaveOpenCleans ==
    /\ pc = "open"
    /\ files' = [t \in Time |->
                   CASE t = timestamp -> [info |-> info, size |-> "short"]
                     [] t < timestamp -> NoFile
                     [] t > timestamp -> files[t]]
    /\ pc' = "write"
    /\ UNCHANGED <<clock, info, timestamp, listing, saved, loaded, faults, backs, skewed>>

SaveOpen ==
    /\ pc = "open"
    /\ files' = [files EXCEPT ![timestamp] = [info |-> info, size |-> "short"]]
    /\ pc' = "write"
    /\ UNCHANGED <<clock, info, timestamp, listing, saved, loaded, faults, backs, skewed>>

\* write_all may take several writes: after the first ones the file holds a
\* checksum and a part of the content.
SaveWritePart ==
    /\ pc = "write"
    /\ files[timestamp].size = "short"
    /\ files' = [files EXCEPT ![timestamp].size = "torn"]
    /\ UNCHANGED <<clock, pc, info, timestamp, listing, saved, loaded, faults, backs, skewed>>

SaveWrite ==
    /\ pc = "write"
    /\ files' = [files EXCEPT ![timestamp].size = "whole"]
    /\ listing' = Names
    /\ pc' = "clean"
    /\ UNCHANGED <<clock, info, timestamp, saved, loaded, faults, backs, skewed>>

SaveClean ==
    /\ pc = "clean"
    /\ \E t \in listing :
          /\ listing' = listing \ {t}
          /\ files' = IF t < timestamp THEN [files EXCEPT ![t] = NoFile] ELSE files
    /\ UNCHANGED <<clock, pc, info, timestamp, saved, loaded, faults, backs, skewed>>

\* The name of the file is not ahead of the clock and no file has a later one.
LatestName == timestamp <= clock /\ \A t \in Names : t <= timestamp

SaveReturns ==
    /\ pc = "clean"
    /\ listing = {}
    /\ saved' = info
    /\ pc' = "idle"
    /\ skewed' = (skewed /\ ~LatestName)
    /\ UNCHANGED <<files, clock, info, timestamp, listing, loaded, faults, backs>>

\* The file cannot be created, written or removed: the update returns the
\* error, and what it did so far stays.
SaveFails ==
    /\ pc \in {"open", "write", "clean"}
    /\ faults < MaxFaults
    /\ faults' = faults + 1
    /\ listing' = {}
    /\ pc' = "idle"
    /\ UNCHANGED <<files, clock, info, timestamp, saved, loaded, backs, skewed>>

Save ==
    \/ SaveBegin
    \/ SaveStamp
    \/ SaveOpen
    \/ SaveWritePart
    \/ SaveWrite
    \/ SaveClean
    \/ SaveReturns
    \/ SaveFails

-----------------------------------------------------------------------------
(* load_overlord_wal, which Overlord calls when the node starts *)

LoadBegin ==
    /\ pc = "down"
    /\ listing' = Names
    /\ pc' = "load"
    /\ UNCHANGED <<files, clock, info, timestamp, saved, loaded, faults, backs, skewed>>

\* A bug's order: the sort without Reverse.
OldestFirst(t) == t \in listing /\ \A u \in listing : t <= u

\* The sort by Reverse and the index into it.
Newest(t) == t \in listing /\ \A u \in listing : u <= t

\* `continue` in the loop: the index stays, so the same file is read again.
LoadShort ==
    /\ pc = "load"
    /\ \E t \in Time : Newest(t) /\ files[t].size = "short"
    /\ UNCHANGED vars

LoadTorn ==
    /\ pc = "load"
    /\ \E t \in Time :
          /\ Newest(t)
          /\ files[t].size = "torn"
          /\ listing' = listing \ {t}
    /\ UNCHANGED <<files, clock, pc, info, timestamp, saved, loaded, faults, backs, skewed>>

LoadWhole ==
    /\ pc = "load"
    /\ \E t \in Time :
          /\ Newest(t)
          /\ files[t].size = "whole"
          /\ loaded' = files[t].info
    /\ listing' = {}
    /\ pc' = "idle"
    /\ UNCHANGED <<files, clock, info, timestamp, saved, faults, backs, skewed>>

LoadNothing ==
    /\ pc = "load"
    /\ listing = {}
    /\ loaded' = 0
    /\ pc' = "idle"
    /\ UNCHANGED <<files, clock, info, timestamp, listing, saved, faults, backs, skewed>>

\* A file that cannot be opened ends the load with the error.
LoadFails ==
    /\ pc = "load"
    /\ listing # {}
    /\ faults < MaxFaults
    /\ faults' = faults + 1
    /\ loaded' = 0
    /\ listing' = {}
    /\ pc' = "idle"
    /\ UNCHANGED <<files, clock, info, timestamp, saved, backs, skewed>>

Load ==
    \/ LoadBegin
    \/ LoadShort
    \/ LoadTorn
    \/ LoadWhole
    \/ LoadNothing
    \/ LoadFails

-----------------------------------------------------------------------------
(* The process and the clock *)

Crash ==
    /\ pc # "down"
    /\ faults < MaxFaults
    /\ faults' = faults + 1
    /\ listing' = {}
    /\ pc' = "down"
    /\ UNCHANGED <<files, clock, info, timestamp, saved, loaded, backs, skewed>>

Tick ==
    /\ clock < MaxTime
    /\ clock' = clock + 1
    /\ UNCHANGED <<files, pc, info, timestamp, listing, saved, loaded, faults, backs, skewed>>

SetBack ==
    /\ backs < MaxBacks
    /\ backs' = backs + 1
    /\ \E t \in Time : t < clock /\ clock' = t
    /\ skewed' = TRUE
    /\ UNCHANGED <<files, pc, info, timestamp, listing, saved, loaded, faults>>

Next ==
    \/ Save
    \/ Load
    \/ Crash
    \/ Tick
    \/ SetBack

Spec == Init /\ [][Next]_vars

\* A load is a plain loop of one thread: it keeps running.
LoadSpec == Spec /\ WF_vars(Load)

-----------------------------------------------------------------------------
(* Properties *)

\* Once update_overlord_wal has returned Ok, a readable file with that state
\* or a later one is in the directory, wherever later updates are cut short,
\* fail, or find the clock set back: the clean-up deletes only what the file
\* just written replaces.
LastSaveOnDisk ==
    saved > 0 => \E t \in Time : files[t].size = "whole" /\ files[t].info >= saved

\* load_overlord_wal returns an error or the latest of all the states that can
\* be read back, the last one saved included: a crash in the middle of a
\* clean-up leaves several whole files, and torn ones may lie above them.  Only
\* a clock that was set back makes it return an older one, and only until an
\* update returns Ok whose file has the latest name: its clean-up deletes the
\* ones that were out of order.
LoadNeverStale ==
    [][~skewed /\ pc = "load" /\ pc' = "idle" /\ loaded' # 0 =>
          /\ loaded' >= saved
          /\ \A t \in Time : files[t].size = "whole" => loaded' >= files[t].info]_vars

\* load_overlord_wal ends: "get a latest and valid wal if possible".
LoadReturns == pc = "load" ~> pc # "load"

=============================================================================
