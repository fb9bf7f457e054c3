------------------------- MODULE ConsensusWalProofs -------------------------
(***************************************************************************)
(* Proofs about the consensus log: the last state saved is always in the   *)
(* directory, and a load never returns an older one, except between a      *)
(* set-back of the clock and the next update under the latest name.        *)
(***************************************************************************)
EXTENDS ConsensusWal, TLAPS

\* What the running update knows of its own file: the name is free when it is
\* chosen, and the file is whole before the clean-up starts.
OwnFile ==
    /\ saved <= info
    /\ pc = "open" => files[timestamp].size = "none"
    /\ pc \in {"write", "clean"} => files[timestamp].info = info
    /\ pc = "clean" => files[timestamp].size = "whole"

DiskInv == TypeOK /\ OwnFile /\ LastSaveOnDisk

\* The clean-up has every older file in its listing.
CleanAhead ==
    pc = "clean" => \A t \in Names : t < timestamp => t \in listing

\* Unless the clock was set back and no update has made up for it, the names
\* are in the order of the updates, and the running one comes last.
Ordered ==
    /\ \A t \in Names : t <= clock /\ files[t].info <= info
    /\ \A t, u \in Names : t < u => files[t].info < files[u].info
    /\ pc \in {"stamp", "open"} => \A t \in Names : files[t].info < info
    /\ pc = "open" => timestamp <= clock /\ \A t \in Names : t < timestamp
    /\ pc \in {"write", "clean"} => timestamp \in Names

\* A running load has not passed a whole file yet.
LoadAhead ==
    pc = "load" =>
        /\ listing \subseteq Names
        /\ \A t \in Time : files[t].size = "whole" => t \in listing

MonotoneInv == DiskInv /\ CleanAhead /\ (~skewed => Ordered) /\ LoadAhead

-----------------------------------------------------------------------------
(* The variables' types *)

\* An absent file is one of the directory's entries.
LEMMA NoFileType == NoFile \in File
BY WalAssumption DEF NoFile, File, Info

\* Every system call keeps the types.
LEMMA TypeStep == ASSUME TypeOK, [Next]_vars PROVE TypeOK'
<1> USE WalAssumption DEF TypeOK, Time, Info
<1>1. CASE Save
  <2>1. CASE SaveBegin BY <2>1 DEF SaveBegin
  <2>2. CASE SaveStamp BY <2>2 DEF SaveStamp
  <2>3. CASE SaveOpen
    <3>1. [info |-> info, size |-> "short"] \in File BY DEF File, Size
    <3> QED BY <2>3, <3>1 DEF SaveOpen
  <2>4. CASE SaveWritePart
    <3>1. [files[timestamp] EXCEPT !.size = "torn"] \in File BY Zenon DEF File, Size
    <3> QED BY <2>4, <3>1 DEF SaveWritePart
  <2>5. CASE SaveWrite
    <3>1. [files[timestamp] EXCEPT !.size = "whole"] \in File BY Zenon DEF File, Size
    <3> QED BY <2>5, <3>1 DEF SaveWrite, Names
  <2>6. CASE SaveClean BY <2>6, NoFileType DEF SaveClean
  <2>7. CASE SaveReturns BY <2>7 DEF SaveReturns
  <2>8. CASE SaveFails BY <2>8 DEF SaveFails
  <2> QED BY <1>1, <2>1, <2>2, <2>3, <2>4, <2>5, <2>6, <2>7, <2>8 DEF Save
<1>2. CASE Load
  <2>1. CASE LoadBegin BY <2>1 DEF LoadBegin, Names
  <2>2. CASE LoadShort BY <2>2 DEF LoadShort, vars
  <2>3. CASE LoadTorn BY <2>3 DEF LoadTorn
  <2>4. CASE LoadWhole BY <2>4 DEF LoadWhole, File
  <2>5. CASE LoadNothing BY <2>5 DEF LoadNothing
  <2>6. CASE LoadFails BY <2>6 DEF LoadFails
  <2> QED BY <1>2, <2>1, <2>2, <2>3, <2>4, <2>5, <2>6 DEF Load
<1>3. CASE Crash BY <1>3 DEF Crash
<1>4. CASE Tick BY <1>4 DEF Tick
<1>5. CASE SetBack BY <1>5 DEF SetBack
<1>6. CASE UNCHANGED vars BY <1>6 DEF vars
<1> QED BY <1>1, <1>2, <1>3, <1>4, <1>5, <1>6 DEF Next

-----------------------------------------------------------------------------
(* The last saved state stays in the directory *)

\* Steps that change neither the directory nor what counts as saved.
LEMMA QuietStep ==
    ASSUME DiskInv, files' = files, saved' = saved, info' = info,
           timestamp' = timestamp, pc' = pc \/ pc' \in {"idle", "load", "down"}
    PROVE  OwnFile' /\ LastSaveOnDisk'
BY DEF DiskInv, OwnFile, LastSaveOnDisk

\* An update deletes files only when its own is whole, so no step loses the last saved state.
LEMMA DiskStep == ASSUME DiskInv, [Next]_vars PROVE DiskInv'
<1>t. TypeOK' BY TypeStep DEF DiskInv
<1> USE WalAssumption
<1>n. /\ info \in Nat /\ saved \in Nat /\ timestamp \in Time
      /\ DOMAIN files = Time
      /\ \A t \in Time : files[t].info \in Nat /\ DOMAIN files[t] = {"info", "size"}
  BY DEF DiskInv, TypeOK, Info, File
<1>1. CASE SaveBegin
  BY <1>1, <1>t, <1>n DEF SaveBegin, DiskInv, OwnFile, LastSaveOnDisk
<1>2. CASE SaveStamp
  BY <1>2, <1>t, <1>n DEF SaveStamp, Names, DiskInv, OwnFile, LastSaveOnDisk, TypeOK
<1>3. CASE SaveOpen
  <2>1. files'[timestamp].info = info BY <1>3, <1>n DEF SaveOpen
  <2>2. \A t \in Time : files[t].size = "whole" => files'[t] = files[t]
    BY <1>3, <1>n DEF SaveOpen, DiskInv, OwnFile
  <2> QED BY <1>3, <2>1, <2>2, <1>t, <1>n
          DEF SaveOpen, DiskInv, OwnFile, LastSaveOnDisk
<1>4. CASE SaveWritePart
  <2>1. files'[timestamp].info = files[timestamp].info
    BY <1>4, <1>n DEF SaveWritePart
  <2>2. \A t \in Time : files[t].size = "whole" => files'[t] = files[t]
    BY <1>4, <1>n DEF SaveWritePart
  <2> QED BY <1>4, <2>1, <2>2, <1>t, <1>n
          DEF SaveWritePart, DiskInv, OwnFile, LastSaveOnDisk
<1>5. CASE SaveWrite
  <2>1. /\ files'[timestamp].info = files[timestamp].info
        /\ files'[timestamp].size = "whole"
    BY <1>5, <1>n DEF SaveWrite
  <2> QED BY <1>5, <2>1, <1>t, <1>n
          DEF SaveWrite, DiskInv, OwnFile, LastSaveOnDisk
<1>6. CASE SaveClean
  <2>1. files'[timestamp] = files[timestamp]
    BY <1>6, <1>n DEF SaveClean, Time
  <2> QED BY <1>6, <2>1, <1>t, <1>n
          DEF SaveClean, DiskInv, OwnFile, LastSaveOnDisk
<1>7. CASE SaveReturns
  BY <1>7, <1>t, <1>n DEF SaveReturns, DiskInv, OwnFile, LastSaveOnDisk
<1>8. CASE SaveFails \/ Load \/ Crash \/ Tick \/ SetBack \/ UNCHANGED vars
  BY <1>8, <1>t, QuietStep
     DEF SaveFails, Load, LoadBegin, LoadShort, LoadTorn, LoadWhole, LoadNothing,
         LoadFails, Crash, Tick, SetBack, vars, DiskInv
<1> QED BY <1>1, <1>2, <1>3, <1>4, <1>5, <1>6, <1>7, <1>8 DEF Next, Save

\* An empty directory before the first update.
LEMMA DiskInit == ASSUME Init PROVE DiskInv
<1>0. skewed = FALSE BY DEF Init
<1>1. TypeOK
  <2>1. skewed \in BOOLEAN BY <1>0, Zenon
  <2> QED BY <2>1, WalAssumption, NoFileType DEF Init, TypeOK, Time, Info
<1> QED BY <1>1 DEF Init, DiskInv, OwnFile, LastSaveOnDisk

\* Every behaviour keeps DiskInv.
LEMMA DiskInvariance == Spec => []DiskInv
BY DiskInit, DiskStep, PTL DEF Spec

\* The log's variables keep their types, whatever the number of updates,
\* faults and clock changes.
THEOREM WalTypesHold == Spec => []TypeOK
BY DiskInvariance, PTL DEF DiskInv

\* After update_overlord_wal has returned Ok the directory always holds a
\* readable file with that state or a later one, for every number of crashes,
\* failed system calls and clock changes.
THEOREM LastSaveStays == Spec => []LastSaveOnDisk
BY DiskInvariance, PTL DEF DiskInv

-----------------------------------------------------------------------------
(* A load never returns an older state *)

\* A file leaves the listing of the clean-up only when it is deleted.
LEMMA CleanAheadStep ==
    ASSUME DiskInv, CleanAhead, [Next]_vars
    PROVE  CleanAhead'
<1>n. timestamp \in Time /\ DOMAIN files = Time
  BY DEF DiskInv, TypeOK
<1>1. CASE pc' # "clean" BY <1>1 DEF CleanAhead
<1>2. CASE SaveWrite
  <2>1. timestamp' = timestamp /\ listing' = Names BY <1>2 DEF SaveWrite
  <2>2. \A t \in Time : t # timestamp => files'[t] = files[t] BY <1>2, <1>n DEF SaveWrite
  <2>3. ASSUME NEW t \in Names', t < timestamp PROVE t \in Names
    BY <2>2, <2>3, WalAssumption, <1>n DEF Names, Time
  <2> QED BY <2>1, <2>3 DEF CleanAhead
<1>3. CASE SaveClean
  <2>1. pc = "clean" /\ timestamp' = timestamp BY <1>3 DEF SaveClean
  <2>2. PICK t \in listing :
           /\ listing' = listing \ {t}
           /\ files' = IF t < timestamp THEN [files EXCEPT ![t] = NoFile] ELSE files
    BY <1>3 DEF SaveClean
  <2>3. ASSUME NEW u \in Names', u < timestamp PROVE u \in Names /\ u # t
    BY <2>2, <2>3, <1>n DEF Names, NoFile
  <2> QED BY <2>1, <2>2, <2>3 DEF CleanAhead
<1>4. CASE Tick \/ SetBack \/ UNCHANGED vars
  BY <1>4 DEF Tick, SetBack, vars, CleanAhead, Names
<1>5. CASE SaveBegin \/ SaveStamp \/ SaveOpen \/ SaveWritePart \/ SaveReturns \/ SaveFails
  BY <1>1, <1>5 DEF SaveBegin, SaveStamp, SaveOpen, SaveWritePart, SaveReturns, SaveFails
<1>6. CASE Load \/ Crash
  BY <1>1, <1>6 DEF Load, LoadBegin, LoadShort, LoadTorn, LoadWhole, LoadNothing, LoadFails, Crash, vars
<1> QED BY <1>2, <1>3, <1>4, <1>5, <1>6 DEF Next, Save

\* An update that returns Ok under the latest name leaves its own file only.
LEMMA OrderRestored ==
    ASSUME DiskInv, CleanAhead, SaveReturns, LatestName
    PROVE  Ordered'
<1>n. /\ info \in Nat /\ timestamp \in Time /\ clock \in Nat
      /\ \A t \in Time : t \in Nat
  BY WalAssumption DEF DiskInv, TypeOK, Info, Time
<1>1. pc = "clean" /\ listing = {} /\ pc' = "idle" /\ UNCHANGED <<files, clock, info, timestamp>>
  BY DEF SaveReturns
<1>2. \A t \in Names : t = timestamp
  BY <1>1, <1>n DEF CleanAhead, LatestName, Names
<1>3. files[timestamp].info = info /\ timestamp <= clock
  BY <1>1 DEF DiskInv, OwnFile, LatestName
<1> QED BY <1>1, <1>2, <1>3, <1>n DEF Ordered, Names

\* With a clock that goes forward a new file has the latest name.
LEMMA OrderedStep ==
    ASSUME DiskInv, CleanAhead, ~skewed => Ordered, [Next]_vars, ~skewed'
    PROVE  Ordered'
<1> USE WalAssumption
<1>s. ~SetBack BY DEF SetBack
<1>r. CASE SaveReturns /\ LatestName BY <1>r, OrderRestored
<1> SUFFICES ASSUME ~(SaveReturns /\ LatestName) PROVE Ordered'
  BY <1>r
<1>o. Ordered
  BY <1>s, Zenon DEF Next, Save, SaveBegin, SaveStamp, SaveOpen, SaveWritePart, SaveWrite, SaveClean,
              SaveReturns, SaveFails, Load, LoadBegin, LoadShort, LoadTorn, LoadWhole,
              LoadNothing, LoadFails, Crash, Tick, vars
<1>n. /\ info \in Nat /\ timestamp \in Time /\ clock \in Nat
      /\ \A t \in Time : t \in Nat
      /\ DOMAIN files = Time
      /\ \A t \in Time : files[t].info \in Nat /\ DOMAIN files[t] = {"info", "size"}
  BY DEF DiskInv, TypeOK, Info, File, Time
<1>1. CASE SaveBegin BY <1>1, <1>o, <1>n DEF SaveBegin, Ordered, Names
<1>2. CASE SaveStamp
  <2>1. \A t \in Names : t < clock BY <1>2, <1>o, <1>n DEF SaveStamp, Ordered, Names
  <2> QED BY <1>2, <1>o, <2>1, <1>n DEF SaveStamp, Ordered, Names
<1>3. CASE SaveOpen
  <2>1. Names' = Names \cup {timestamp}
    BY <1>3, <1>o, <1>n DEF SaveOpen, Names
  <2>2. /\ files'[timestamp].info = info
        /\ \A t \in Names : files'[t] = files[t] /\ t < timestamp
    BY <1>3, <1>o, <1>n DEF SaveOpen, Names, Ordered
  <2> QED BY <1>3, <1>o, <2>1, <2>2, <1>n DEF SaveOpen, Ordered, Names
<1>4. CASE SaveWritePart \/ SaveWrite
  <2>1. pc = "write" /\ pc' \in {"write", "clean"}
    BY <1>4 DEF SaveWritePart, SaveWrite
  <2>2. /\ \A t \in Time : files'[t].info = files[t].info
        /\ Names' = Names
    BY <1>4, <1>o, <2>1, <1>n DEF SaveWritePart, SaveWrite, Names, Ordered
  <2>3. UNCHANGED <<clock, info, timestamp>> BY <1>4 DEF SaveWritePart, SaveWrite
  <2> QED BY <2>1, <2>2, <2>3, <1>o, <1>n DEF Ordered, Names
<1>5. CASE SaveClean
  <2>1. /\ Names' \subseteq Names
        /\ \A t \in Names' : files'[t] = files[t]
        /\ files'[timestamp] = files[timestamp]
    BY <1>5, <1>o, <1>n DEF SaveClean, Names, NoFile
  <2> QED BY <1>5, <1>o, <2>1, <1>n DEF SaveClean, Ordered, Names
<1>6. CASE Tick BY <1>6, <1>o, <1>n DEF Tick, Ordered, Names
<1>7. CASE SaveReturns \/ SaveFails \/ Load \/ Crash \/ UNCHANGED vars
  <2>1. UNCHANGED <<files, clock, info, timestamp>>
    BY <1>7 DEF SaveReturns, SaveFails, Load, LoadBegin, LoadShort, LoadTorn,
                LoadWhole, LoadNothing, LoadFails, Crash, vars
  <2>2. pc' = pc \/ pc' \in {"idle", "load", "down"}
    BY <1>7 DEF SaveReturns, SaveFails, Load, LoadBegin, LoadShort, LoadTorn,
                LoadWhole, LoadNothing, LoadFails, Crash, vars
  <2> QED BY <2>1, <2>2, <1>o DEF Ordered, Names
<1> QED BY <1>1, <1>2, <1>3, <1>4, <1>5, <1>6, <1>7, <1>s DEF Next, Save

\* A load passes over torn files only, and nothing is written while it runs.
LEMMA LoadAheadStep ==
    ASSUME LoadAhead, [Next]_vars
    PROVE  LoadAhead'
<1>1. CASE pc' # "load" BY <1>1 DEF LoadAhead
<1>2. CASE LoadBegin
  BY <1>2 DEF LoadBegin, LoadAhead, Names
<1>3. CASE LoadTorn BY <1>3 DEF LoadTorn, LoadAhead, Names
<1>4. CASE LoadShort \/ Tick \/ SetBack \/ UNCHANGED vars
  BY <1>4 DEF LoadShort, Tick, SetBack, vars, LoadAhead, Names
<1>5. CASE Save
  BY <1>1, <1>5 DEF Save, SaveBegin, SaveStamp, SaveOpen, SaveWritePart, SaveWrite,
                    SaveClean, SaveReturns, SaveFails
<1>6. CASE LoadWhole \/ LoadNothing \/ LoadFails \/ Crash
  BY <1>1, <1>6 DEF LoadWhole, LoadNothing, LoadFails, Crash
<1> QED BY <1>2, <1>3, <1>4, <1>5, <1>6 DEF Next, Load

\* Every behaviour keeps the order of the names, except after a set-back of the clock.
LEMMA MonotoneInvariance == Spec => []MonotoneInv
<1>1. Init => MonotoneInv
  <2> SUFFICES ASSUME Init PROVE MonotoneInv
    OBVIOUS
  <2>1. Names = {} /\ pc = "down" BY DEF Init, Names, NoFile
  <2> QED BY <2>1, DiskInit DEF MonotoneInv, CleanAhead, Ordered, LoadAhead
<1>2. MonotoneInv /\ [Next]_vars => MonotoneInv'
  BY DiskStep, CleanAheadStep, OrderedStep, LoadAheadStep DEF MonotoneInv
<1> QED BY <1>1, <1>2, PTL DEF Spec

\* The newest whole file in reach of a load is at least as recent as any
\* other whole one.
LEMMA StepNotStale ==
    ASSUME MonotoneInv, [Next]_vars, ~skewed, pc = "load", pc' = "idle", loaded' # 0
    PROVE  /\ loaded' >= saved
           /\ \A t \in Time : files[t].size = "whole" => loaded' >= files[t].info
<1>n. /\ saved \in Nat
      /\ \A t \in Time : files[t].info \in Nat /\ t \in Nat
  BY WalAssumption DEF MonotoneInv, DiskInv, TypeOK, Info, File, Time
<1>1. CASE LoadWhole
  <2>1. PICK t \in Time : Newest(t) /\ loaded' = files[t].info BY <1>1 DEF LoadWhole
  <2>2. ASSUME NEW u \in Time, files[u].size = "whole"
        PROVE  loaded' >= files[u].info
    <3>1. u \in Names /\ t \in Names /\ u <= t
      BY <1>1, <2>1, <2>2 DEF LoadWhole, Newest, MonotoneInv, LoadAhead, Names
    <3>2. CASE u = t BY <3>2, <2>1, <1>n
    <3>3. CASE u < t BY <3>1, <3>3, <2>1, <1>n DEF MonotoneInv, Ordered
    <3> QED BY <3>1, <3>2, <3>3, <1>n
  <2>3. loaded' >= saved
    <3>1. CASE saved = 0 BY <3>1, <2>1, <1>n
    <3>2. CASE saved > 0
      <4>1. PICK u \in Time : files[u].size = "whole" /\ files[u].info >= saved
        BY <3>2 DEF MonotoneInv, DiskInv, LastSaveOnDisk
      <4> QED BY <2>1, <2>2, <4>1, <1>n
    <3> QED BY <3>1, <3>2, <1>n
  <2> QED BY <2>2, <2>3
<1>2. CASE LoadNothing \/ LoadFails BY <1>2 DEF LoadNothing, LoadFails
<1> QED
  BY <1>1, <1>2
  DEF Next, Save, SaveBegin, SaveStamp, SaveOpen, SaveWritePart, SaveWrite, SaveClean,
      SaveReturns, SaveFails, Load, LoadBegin, LoadShort, LoadTorn, Crash, Tick,
      SetBack, vars

\* load_overlord_wal returns an error or the latest state that can be read back,
\* never one older than the last one saved, for every number of updates, crashes
\* and failed system calls, unless the clock was set back and no update has
\* returned Ok under the latest name since.
THEOREM LoadIsCurrent == Spec => LoadNeverStale
<1>1. MonotoneInv /\ [Next]_vars
        => [~skewed /\ pc = "load" /\ pc' = "idle" /\ loaded' # 0 =>
              /\ loaded' >= saved
              /\ \A t \in Time : files[t].size = "whole" => loaded' >= files[t].info]_vars
  BY StepNotStale
<1> QED BY <1>1, MonotoneInvariance, PTL DEF Spec, LoadNeverStale

=============================================================================
