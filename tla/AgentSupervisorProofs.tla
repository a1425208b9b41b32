------------------------ MODULE AgentSupervisorProofs ------------------------
(***************************************************************************)
(* Proofs about AgentSupervisor for every number of commands, faults,      *)
(* heartbeats and orders: the types, that answered commands are kept, and  *)
(* that loads are asked for.                                               *)
(***************************************************************************)
EXTENDS AgentSupervisor, SequenceTheorems, TLAPS

-------------------------------------------------------------------------------
(* The inductive invariants.                                                *)

\* The thread that saves is the one that holds the lock, and it holds it alone; only a file
\* that is being written, or was when the manager ended, is torn.
SaverInv ==
  /\ \A s \in saver, t \in saver : s = t
  /\ (cmd.pc = "saving") <=> \E s \in saver : s.by = "cmd"
  /\ (beat.pc = "saving") <=> \E s \in saver : s.by = "beat"
  /\ (worker.pc = "saving") <=> \E s \in saver : s.by = "worker"
  /\ ~Running => saver = {} /\ cmd.pc = "idle" /\ beat.pc = "idle" /\ worker.pc = "idle"
  /\ Running /\ file.torn => saver # {}

\* Outside of a command that has set its flags and not saved them, what is written, and what a
\* save under way will write, has the flags of the entry; the command's own save always has.
Unsaved == cmd.pc \in {"kill", "forget", "upsert", "saving"}
FlagsInv ==
  /\ Running /\ ~Unsaved => /\ ~file.torn => Flags(file.text) = Flags(entry)
                            /\ \A s \in saver : Flags(s.text) = Flags(entry)
  /\ \A s \in saver : s.by = "cmd" => Flags(s.text) = Flags(entry)
  /\ ~Running /\ ~file.torn => Flags(file.text) = answered

\* A load that is scheduled, or that a changed index will lead to, has been asked for.
AskInv ==
  /\ _loadAfterHeartbeat => ask = "asked"
  /\ beat.changed => ask = "asked"

IInv == TypeOK /\ SaverInv /\ FlagsInv /\ CommandsAreKept

-------------------------------------------------------------------------------
(* Types.                                                                   *)

LEMMA AppendType == ASSUME NEW S, NEW s \in Seq(S), NEW e \in S
  PROVE  Append(s, e) \in Seq(S) /\ Len(Append(s, e)) = Len(s) + 1
  BY AppendProperties

LEMMA TailType == ASSUME NEW S, NEW s \in Seq(S), s # <<>>
  PROVE  Tail(s) \in Seq(S) /\ Head(s) \in S /\ Len(Tail(s)) = Len(s) - 1 /\ Len(s) \in Nat
  BY HeadTailProperties, LenProperties

\* A thread that begins to save keeps the types of the store.
LEMMA SaveTypes ==
  ASSUME StoreTypes, NEW thread \in {"cmd", "beat", "worker"}, BeginSave(thread), entry' = entry
  PROVE  StoreTypes'
<1>1. entry' \in Entries
  BY DEF StoreTypes
<1>2. [by |-> thread, text |-> entry] \in [by : {"cmd", "beat", "worker"}, text : Entries]
  BY DEF StoreTypes
<1>3. saver' \subseteq [by : {"cmd", "beat", "worker"}, text : Entries]
  BY <1>2 DEF BeginSave, StoreTypes
<1>4. file' \in [text : Entries, torn : BOOLEAN]
  BY DEF BeginSave, StoreTypes
<1>5. QED
  BY <1>1, <1>3, <1>4 DEF StoreTypes

\* Each action keeps the types.
LEMMA TypeStep ==
  ASSUME TypeOK, [Next]_vars
  PROVE  TypeOK'
<1> USE DEF TypeOK, shared, store, threads, traffic
<1>1. CASE AgentStarts
  <2>1. AgentType'
    BY <1>1, SupervisorAssumption DEF AgentType, AgentStarts
  <2>2. QED
    BY <1>1, <2>1 DEF AgentStarts, StoreTypes, CmdType, BeatType, WorkerType, BeatsType, OrdersType, EventsType, UsedType
<1>2. CASE AgentEnds
  <2>1. AgentType'
    BY <1>2, SupervisorAssumption DEF AgentType, AgentEnds, Fault
  <2>2. OrdersType'
    BY <1>2, SupervisorAssumption DEF OrdersType, AgentEnds, Fault
  <2>3. UsedType'
    BY <1>2, SupervisorAssumption DEF UsedType, AgentEnds, Fault
  <2>4. QED
    BY <1>2, <2>1, <2>2, <2>3 DEF AgentEnds, Fault, StoreTypes, CmdType, BeatType, WorkerType, BeatsType, EventsType
<1>3. CASE Unplug
  <2>1. AgentType'
    BY <1>3, SupervisorAssumption DEF AgentType, Unplug, Fault, Tells
  <2>2. EventsType'
    BY <1>3 DEF EventsType, Unplug, Fault, Tells
  <2>3. UsedType'
    BY <1>3, SupervisorAssumption DEF UsedType, Unplug, Fault, Tells
  <2>4. QED
    BY <1>3, <2>1, <2>2, <2>3 DEF Unplug, Fault, Tells, StoreTypes, CmdType, BeatType, WorkerType, BeatsType, OrdersType
<1>4. CASE Plug
  <2>1. AgentType'
    BY <1>4, SupervisorAssumption DEF AgentType, Plug, Tells
  <2>2. EventsType'
    BY <1>4 DEF EventsType, Plug, Tells
  <2>3. QED
    BY <1>4, <2>1, <2>2 DEF Plug, Tells, StoreTypes, CmdType, BeatType, WorkerType, BeatsType, OrdersType, UsedType
<1>5. CASE PublishHeartbeats
  <2>1. [connected |-> agent.open, index |-> agent.index] \in Heartbeats
    BY <1>5 DEF PublishHeartbeats, Identified, TypeOK, AgentType, Heartbeats
  <2>2. BeatsType'
    BY <1>5, AppendType, SupervisorAssumption, <2>1 DEF BeatsType, Heartbeats, PublishHeartbeats, Identified
  <2>3. QED
    BY <1>5, <2>1, <2>2 DEF PublishHeartbeats, Identified, StoreTypes, CmdType, BeatType, WorkerType, OrdersType, EventsType, AgentType, UsedType
<1>6. CASE ManagerEnds
  <2>1. CmdType'
    BY <1>6 DEF CmdType, Ops, ManagerEnds, Fault, NoCommand, NoBeat, NoWork
  <2>2. BeatType'
    BY <1>6, SupervisorAssumption DEF BeatType, Heartbeats, ManagerEnds, Fault, NoCommand, NoBeat, NoWork
  <2>3. WorkerType'
    BY <1>6, SupervisorAssumption DEF WorkerType, ManagerEnds, Fault, NoCommand, NoBeat, NoWork
  <2>4. StoreTypes'
    BY <1>6, SupervisorAssumption DEF StoreTypes, Entries, ManagerEnds, Fault, NoCommand, NoBeat, NoWork
  <2>5. BeatsType'
    BY <1>6, SupervisorAssumption DEF BeatsType, Heartbeats, ManagerEnds, Fault, NoCommand, NoBeat, NoWork
  <2>6. EventsType'
    BY <1>6 DEF EventsType, ManagerEnds, Fault, NoCommand, NoBeat, NoWork
  <2>7. UsedType'
    BY <1>6, SupervisorAssumption DEF UsedType, ManagerEnds, Fault, NoCommand, NoBeat, NoWork
  <2>8. QED
    BY <1>6, <2>1, <2>2, <2>3, <2>4, <2>5, <2>6, <2>7 DEF ManagerEnds, Fault, NoCommand, NoBeat, NoWork, Flags, Entries, StoreTypes, OrdersType, AgentType
<1>7. CASE Load
  <2>1. StoreTypes'
    BY <1>7, SupervisorAssumption DEF StoreTypes, Entries, Load, NoWork
  <2>2. WorkerType'
    BY <1>7, SupervisorAssumption DEF WorkerType, Load, NoWork
  <2>3. _loaded' \in BOOLEAN /\ _loadAfterHeartbeat' \in BOOLEAN
    BY <1>7 DEF TypeOK, Load
  <2>4. QED
    BY <1>7, <2>1, <2>2, <2>3 DEF Load, NoWork, CmdType, BeatType, BeatsType, OrdersType, EventsType, AgentType, UsedType
<1>8. CASE HandleAsync
  <2>1. StoreTypes'
    BY <1>8, SupervisorAssumption DEF StoreTypes, Entries, HandleAsync, HandleReject, HandleDisable, ApproveAsync, HandleRestart
  <2>2. CmdType'
    BY <1>8 DEF CmdType, Ops, HandleAsync, HandleReject, HandleDisable, ApproveAsync, HandleRestart
  <2>3. UsedType'
    BY <1>8, SupervisorAssumption DEF UsedType, HandleAsync, HandleReject, HandleDisable, ApproveAsync, HandleRestart
  <2>4. QED
    BY <1>8, <2>1, <2>2, <2>3 DEF HandleAsync, HandleReject, HandleDisable, ApproveAsync, HandleRestart, BeatType, WorkerType, BeatsType, OrdersType, EventsType, AgentType
<1>9. CASE Kill1
  <2>1. CmdType'
    BY <1>9 DEF CmdType, Ops, Kill1, Step
  <2>2. _loaded' \in BOOLEAN /\ _loadAfterHeartbeat' \in BOOLEAN
    BY <1>9 DEF TypeOK, Kill1
  <2>3. QED
    BY <1>9, <2>1, <2>2 DEF Kill1, Step, StoreTypes, BeatType, WorkerType, BeatsType, OrdersType, EventsType, AgentType, UsedType
<1>10. CASE Kill2
  <2>1. CmdType'
    BY <1>10 DEF CmdType, Ops, Kill2, Step, Publish
  <2>2. OrdersType'
    BY <1>10, SupervisorAssumption DEF OrdersType, Kill2, Step, Publish
  <2>3. _loaded' \in BOOLEAN /\ _loadAfterHeartbeat' \in BOOLEAN
    BY <1>10 DEF TypeOK, Kill2
  <2>4. QED
    BY <1>10, <2>1, <2>2, <2>3 DEF Kill2, Step, Publish, StoreTypes, BeatType, WorkerType, BeatsType, EventsType, AgentType, UsedType
<1>11. CASE CommandSaves
  <2>1. StoreTypes'
    BY <1>11, SaveTypes DEF TypeOK, CommandSaves, shared
  <2>2. CmdType'
    BY <1>11 DEF CmdType, Ops, CommandSaves, BeginSave, LockFree, Step
  <2>3. QED
    BY <1>11, <2>1, <2>2 DEF CommandSaves, BeginSave, LockFree, Step, BeatType, WorkerType, BeatsType, OrdersType, EventsType, AgentType, UsedType
<1>12. CASE CommandSaved
  <2>1. StoreTypes'
    BY <1>12, SupervisorAssumption DEF StoreTypes, Entries, CommandSaved, EndSave, Step
  <2>2. CmdType'
    BY <1>12 DEF CmdType, Ops, CommandSaved, EndSave, Step
  <2>3. QED
    BY <1>12, <2>1, <2>2 DEF CommandSaved, EndSave, Step, BeatType, WorkerType, BeatsType, OrdersType, EventsType, AgentType, UsedType
<1>13. CASE Spawn1
  <2>1. CmdType'
    BY <1>13 DEF CmdType, Ops, Spawn1, Step
  <2>2. _loaded' \in BOOLEAN /\ _loadAfterHeartbeat' \in BOOLEAN
    BY <1>13 DEF TypeOK, Spawn1
  <2>3. QED
    BY <1>13, <2>1, <2>2 DEF Spawn1, Step, StoreTypes, BeatType, WorkerType, BeatsType, OrdersType, EventsType, AgentType, UsedType
<1>14. CASE Spawn2
  <2>1. CmdType'
    BY <1>14 DEF CmdType, Ops, Spawn2, Step
  <2>2. QED
    BY <1>14, <2>1 DEF Spawn2, Step, StoreTypes, BeatType, WorkerType, BeatsType, OrdersType, EventsType, AgentType, UsedType, Wanted, Entries
<1>15. CASE Spawn3
  <2>1. CmdType'
    BY <1>15 DEF CmdType, Ops, Spawn3, Step, Publish
  <2>2. OrdersType'
    BY <1>15, SupervisorAssumption DEF OrdersType, Spawn3, Step, Publish
  <2>3. _loaded' \in BOOLEAN /\ _loadAfterHeartbeat' \in BOOLEAN
    BY <1>15 DEF TypeOK, Spawn3
  <2>4. QED
    BY <1>15, <2>1, <2>2, <2>3 DEF Spawn3, Step, Publish, StoreTypes, BeatType, WorkerType, BeatsType, EventsType, AgentType, UsedType
<1>16. CASE Answer
  <2>1. CmdType'
    BY <1>16 DEF CmdType, Ops, Answer, NoCommand
  <2>2. QED
    BY <1>16, <2>1 DEF Answer, NoCommand, Flags, Entries, StoreTypes, BeatType, WorkerType, BeatsType, OrdersType, EventsType, AgentType, UsedType
<1>17. CASE NoteHeartbeat
  <2>1. PICK changed \in BOOLEAN :
               /\ beat' = [pc |-> IF changed THEN "upsert" ELSE "mark", of |-> Head(beats), changed |-> changed, desired |-> FALSE]
               /\ entry' = [entry EXCEPT !.known = TRUE, !.index = Head(beats).index]
               /\ ask' = IF changed THEN "asked" ELSE ask
    BY <1>17 DEF NoteHeartbeat
  <2>2. Head(beats) \in Heartbeats /\ Tail(beats) \in Seq(Heartbeats) /\ Len(Tail(beats)) <= MaxBeats
    BY <1>17, TailType, SupervisorAssumption DEF NoteHeartbeat, TypeOK, BeatsType
  <2>3. Head(beats).index \in Indexes
    BY <2>2 DEF Heartbeats
  <2>4. entry' \in Entries
    BY <2>1, <2>3 DEF Entries, TypeOK, StoreTypes
  <2>5. StoreTypes'
    BY <1>17, <2>4 DEF StoreTypes, NoteHeartbeat, store, TypeOK
  <2>6. BeatType'
    BY <1>17, <2>1, <2>2 DEF BeatType
  <2>7. BeatsType'
    BY <1>17, <2>1, <2>2 DEF BeatsType, Heartbeats, NoteHeartbeat
  <2>8. QED
    BY <1>17, <2>1, <2>2, <2>3, <2>4, <2>5, <2>6, <2>7 DEF NoteHeartbeat, CmdType, WorkerType, OrdersType, EventsType, AgentType, UsedType
<1>18. CASE BeatSaves
  <2>1. StoreTypes'
    BY <1>18, SaveTypes DEF TypeOK, BeatSaves, shared
  <2>2. BeatType'
    BY <1>18, SupervisorAssumption DEF BeatType, Heartbeats, BeatSaves, BeginSave, LockFree
  <2>3. QED
    BY <1>18, <2>1, <2>2 DEF BeatSaves, BeginSave, LockFree, CmdType, WorkerType, BeatsType, OrdersType, EventsType, AgentType, UsedType
<1>19. CASE BeatSaved
  <2>1. StoreTypes'
    BY <1>19, SupervisorAssumption DEF StoreTypes, Entries, BeatSaved, EndSave
  <2>2. BeatType'
    BY <1>19, SupervisorAssumption DEF BeatType, Heartbeats, BeatSaved, EndSave
  <2>3. QED
    BY <1>19, <2>1, <2>2 DEF BeatSaved, EndSave, CmdType, WorkerType, BeatsType, OrdersType, EventsType, AgentType, UsedType
<1>20. CASE Mark
  <2>1. BeatType'
    BY <1>20, SupervisorAssumption DEF BeatType, Heartbeats, Mark
  <2>2. QED
    BY <1>20, <2>1 DEF Mark, StoreTypes, CmdType, WorkerType, BeatsType, OrdersType, EventsType, AgentType, UsedType, Wanted, Entries
<1>21. CASE Note
  <2>1. BeatType'
    BY <1>21, SupervisorAssumption DEF BeatType, Heartbeats, Note, Insist, Publish
  <2>2. OrdersType'
    BY <1>21, SupervisorAssumption DEF OrdersType, Note, Insist, Publish
  <2>3. QED
    BY <1>21, <2>1, <2>2 DEF Note, Insist, Publish, StoreTypes, CmdType, WorkerType, BeatsType, EventsType, AgentType, UsedType
<1>22. CASE Reconcile1
  <2>1. Wanted(entry) \in BOOLEAN
    BY DEF Wanted, TypeOK, StoreTypes, Entries
  <2>2. BeatType'
    BY <1>22, SupervisorAssumption, <2>1 DEF BeatType, Heartbeats, Reconcile1
  <2>3. QED
    BY <1>22, <2>1, <2>2 DEF Reconcile1, StoreTypes, CmdType, WorkerType, BeatsType, OrdersType, EventsType, AgentType, UsedType
<1>23. CASE Reconcile2
  <2>1. BeatType'
    BY <1>23, SupervisorAssumption DEF BeatType, Heartbeats, Reconcile2, SetTo
  <2>2. QED
    BY <1>23, <2>1 DEF Reconcile2, SetTo, StoreTypes, CmdType, WorkerType, BeatsType, OrdersType, EventsType, AgentType, UsedType, Wanted, Entries, BeatType
<1>24. CASE Reconcile3
  <2>1. BeatType'
    BY <1>24, SupervisorAssumption DEF BeatType, Heartbeats, Reconcile3, TakenOnce, NoBeat, Publish
  <2>2. OrdersType'
    BY <1>24, SupervisorAssumption DEF OrdersType, Reconcile3, TakenOnce, NoBeat, Publish
  <2>3. _loaded' \in BOOLEAN /\ _loadAfterHeartbeat' \in BOOLEAN
    BY <1>24 DEF TypeOK, Reconcile3, TakenOnce
  <2>4. QED
    BY <1>24, <2>1, <2>2, <2>3 DEF Reconcile3, TakenOnce, NoBeat, Publish, StoreTypes, CmdType, WorkerType, BeatsType, EventsType, AgentType, UsedType
<1>25. CASE WorkerSaves
  <2>1. StoreTypes'
    BY <1>25, SaveTypes DEF TypeOK, WorkerSaves, shared
  <2>2. WorkerType'
    BY <1>25, SupervisorAssumption DEF WorkerType, WorkerSaves, BeginSave, LockFree, Work
  <2>3. QED
    BY <1>25, <2>1, <2>2 DEF WorkerSaves, BeginSave, LockFree, Work, CmdType, BeatType, BeatsType, OrdersType, EventsType, AgentType, UsedType
<1>26. CASE WorkerSaved
  <2>1. StoreTypes'
    BY <1>26, SupervisorAssumption DEF StoreTypes, Entries, WorkerSaved, EndSave, Work
  <2>2. WorkerType'
    BY <1>26, SupervisorAssumption DEF WorkerType, WorkerSaved, EndSave, Work
  <2>3. QED
    BY <1>26, <2>1, <2>2 DEF WorkerSaved, EndSave, Work, CmdType, BeatType, BeatsType, OrdersType, EventsType, AgentType, UsedType
<1>27. CASE CheckArrival
  <2>1. worker' = [worker EXCEPT !.pc = "request"] \/ worker' = NoWork
    BY <1>27 DEF CheckArrival, Work
  <2>2. [worker EXCEPT !.pc = "request"] \in [pc : {"idle", "upsert", "saving", "check", "request", "set", "kill", "forget"}, desired : BOOLEAN]
    BY DEF WorkerType, TypeOK
  <2>3. NoWork \in [pc : {"idle", "upsert", "saving", "check", "request", "set", "kill", "forget"}, desired : BOOLEAN]
    BY DEF NoWork
  <2>4. WorkerType'
    BY <2>1, <2>2, <2>3 DEF WorkerType
  <2>5. QED
    BY <1>27, <2>1, <2>2, <2>3, <2>4 DEF CheckArrival, Work, NoWork, StoreTypes, CmdType, BeatType, BeatsType, OrdersType, EventsType, AgentType, UsedType
<1>28. CASE RequestLoad1
  <2>1. Wanted(entry) \in BOOLEAN
    BY DEF Wanted, TypeOK, StoreTypes, Entries
  <2>2. WorkerType'
    BY <1>28, SupervisorAssumption, <2>1 DEF WorkerType, RequestLoad1
  <2>3. QED
    BY <1>28, <2>1, <2>2 DEF RequestLoad1, StoreTypes, CmdType, BeatType, BeatsType, OrdersType, EventsType, AgentType, UsedType
<1>29. CASE RequestLoad2
  <2>1. WorkerType'
    BY <1>29, SupervisorAssumption DEF WorkerType, RequestLoad2, NoWork
  <2>2. QED
    BY <1>29, <2>1 DEF RequestLoad2, NoWork, StoreTypes, CmdType, BeatType, BeatsType, OrdersType, EventsType, AgentType, UsedType, Wanted, Entries, WorkerType
<1>30. CASE OnPnpChanged
  <2>1. EventsType'
    BY <1>30, TailType DEF EventsType, OnPnpChanged, Work
  <2>2. WorkerType'
    BY <1>30, SupervisorAssumption DEF WorkerType, OnPnpChanged, Work
  <2>3. QED
    BY <1>30, <2>1, <2>2 DEF OnPnpChanged, Work, StoreTypes, CmdType, BeatType, BeatsType, OrdersType, AgentType, UsedType
<1>31. CASE Removal1
  <2>1. WorkerType'
    BY <1>31, SupervisorAssumption DEF WorkerType, Removal1, Work
  <2>2. _loaded' \in BOOLEAN /\ _loadAfterHeartbeat' \in BOOLEAN
    BY <1>31 DEF TypeOK, Removal1
  <2>3. QED
    BY <1>31, <2>1, <2>2 DEF Removal1, Work, StoreTypes, CmdType, BeatType, BeatsType, OrdersType, EventsType, AgentType, UsedType
<1>32. CASE Removal2
  <2>1. WorkerType'
    BY <1>32, SupervisorAssumption DEF WorkerType, Removal2, NoWork, Publish
  <2>2. OrdersType'
    BY <1>32, SupervisorAssumption DEF OrdersType, Removal2, NoWork, Publish
  <2>3. _loaded' \in BOOLEAN /\ _loadAfterHeartbeat' \in BOOLEAN
    BY <1>32 DEF TypeOK, Removal2
  <2>4. QED
    BY <1>32, <2>1, <2>2, <2>3 DEF Removal2, NoWork, Publish, StoreTypes, CmdType, BeatType, BeatsType, EventsType, AgentType, UsedType
<1>33. ASSUME NEW op \in {"load", "unload"}, Obey(op) PROVE TypeOK'
  <2>1. OrdersType'
    BY <1>33, SupervisorAssumption DEF OrdersType, Obey
  <2>2. AgentType'
    BY <1>33, SupervisorAssumption DEF AgentType, Obey
  <2>3. QED
    BY <1>33, <2>1, <2>2 DEF Obey, StoreTypes, CmdType, BeatType, WorkerType, BeatsType, EventsType, UsedType
<1>34. ASSUME NEW op \in {"load", "unload"}, Refuse(op) PROVE TypeOK'
  <2>1. OrdersType'
    BY <1>34, SupervisorAssumption DEF OrdersType, Refuse
  <2>2. QED
    BY <1>34, <2>1 DEF Refuse, StoreTypes, CmdType, BeatType, WorkerType, BeatsType, EventsType, AgentType, UsedType
<1>35. CASE UNCHANGED vars
  <2>1. QED
    BY <1>35 DEF vars, StoreTypes, CmdType, BeatType, WorkerType, BeatsType, OrdersType, EventsType, AgentType, UsedType
<1>36. QED
  BY <1>1, <1>2, <1>3, <1>4, <1>5, <1>6, <1>7, <1>8, <1>9, <1>10, <1>11, <1>12, <1>13, <1>14, <1>15, <1>16, <1>17, <1>18, <1>19, <1>20, <1>21, <1>22, <1>23, <1>24, <1>25, <1>26, <1>27, <1>28, <1>29, <1>30, <1>31, <1>32, <1>33, <1>34, <1>35 DEF Next, Manager, Agent, Command, Beat, Worker

\* Each action keeps the lock with one thread.
LEMMA SaverStep ==
  ASSUME TypeOK, SaverInv, [Next]_vars
  PROVE  SaverInv'
<1> USE DEF TypeOK, StoreTypes, CmdType, BeatType, WorkerType, vars, shared, store, threads, traffic, Entries, Heartbeats, Ops, Running, Flags, Wanted, SaverInv
<1>1. CASE AgentStarts
  BY <1>1 DEF AgentStarts
<1>2. CASE AgentEnds
  BY <1>2 DEF AgentEnds, Fault
<1>3. CASE Unplug
  BY <1>3 DEF Unplug, Fault, Tells
<1>4. CASE Plug
  BY <1>4 DEF Plug, Tells
<1>5. CASE PublishHeartbeats
  BY <1>5 DEF PublishHeartbeats, Identified
<1>6. CASE ManagerEnds
  BY <1>6 DEF ManagerEnds, Fault, NoCommand, NoBeat, NoWork
<1>7. CASE Load
  BY <1>7 DEF Load, NoWork
<1>8. CASE HandleAsync
  BY <1>8 DEF HandleAsync, HandleReject, HandleDisable, ApproveAsync, HandleRestart
<1>9. CASE Kill1
  BY <1>9 DEF Kill1, Step
<1>10. CASE Kill2
  BY <1>10 DEF Kill2, Step, Publish
<1>11. CASE CommandSaves
  BY <1>11 DEF CommandSaves, BeginSave, LockFree, Step
<1>12. CASE CommandSaved
  BY <1>12 DEF CommandSaved, EndSave, Step
<1>13. CASE Spawn1
  BY <1>13 DEF Spawn1, Step
<1>14. CASE Spawn2
  BY <1>14 DEF Spawn2, Step
<1>15. CASE Spawn3
  BY <1>15 DEF Spawn3, Step, Publish
<1>16. CASE Answer
  BY <1>16 DEF Answer, NoCommand
<1>17. CASE NoteHeartbeat
  BY <1>17 DEF NoteHeartbeat
<1>18. CASE BeatSaves
  BY <1>18 DEF BeatSaves, BeginSave, LockFree
<1>19. CASE BeatSaved
  BY <1>19 DEF BeatSaved, EndSave
<1>20. CASE Mark
  BY <1>20 DEF Mark
<1>21. CASE Note
  BY <1>21 DEF Note, Insist, Publish
<1>22. CASE Reconcile1
  BY <1>22 DEF Reconcile1
<1>23. CASE Reconcile2
  BY <1>23 DEF Reconcile2, SetTo
<1>24. CASE Reconcile3
  BY <1>24 DEF Reconcile3, TakenOnce, NoBeat, Publish
<1>25. CASE WorkerSaves
  BY <1>25 DEF WorkerSaves, BeginSave, LockFree, Work
<1>26. CASE WorkerSaved
  BY <1>26 DEF WorkerSaved, EndSave, Work
<1>27. CASE CheckArrival
  BY <1>27 DEF CheckArrival, Work, NoWork
<1>28. CASE RequestLoad1
  BY <1>28 DEF RequestLoad1
<1>29. CASE RequestLoad2
  BY <1>29 DEF RequestLoad2, NoWork
<1>30. CASE OnPnpChanged
  BY <1>30 DEF OnPnpChanged, Work
<1>31. CASE Removal1
  BY <1>31 DEF Removal1, Work
<1>32. CASE Removal2
  BY <1>32 DEF Removal2, NoWork, Publish
<1>33. ASSUME NEW op \in {"load", "unload"}, Obey(op) PROVE SaverInv'
  BY <1>33 DEF Obey
<1>34. ASSUME NEW op \in {"load", "unload"}, Refuse(op) PROVE SaverInv'
  BY <1>34 DEF Refuse
<1>35. CASE UNCHANGED vars
  BY <1>35
<1>36. QED
  BY <1>1, <1>2, <1>3, <1>4, <1>5, <1>6, <1>7, <1>8, <1>9, <1>10, <1>11, <1>12, <1>13, <1>14, <1>15, <1>16, <1>17, <1>18, <1>19, <1>20, <1>21, <1>22, <1>23, <1>24, <1>25, <1>26, <1>27, <1>28, <1>29, <1>30, <1>31, <1>32, <1>33, <1>34, <1>35 DEF Next, Manager, Agent, Command, Beat, Worker

\* Each action keeps what is written and what is answered in step with the entry.
LEMMA FlagsStep ==
  ASSUME IInv, [Next]_vars
  PROVE  FlagsInv' /\ CommandsAreKept'
<1> USE DEF TypeOK, StoreTypes, CmdType, BeatType, WorkerType, vars, shared, store, threads, traffic, Entries, Heartbeats, Ops, Running, Flags, Wanted, IInv, SaverInv, FlagsInv, Unsaved, CommandsAreKept
<1>1. CASE AgentStarts
  BY <1>1 DEF AgentStarts
<1>2. CASE AgentEnds
  BY <1>2 DEF AgentEnds, Fault
<1>3. CASE Unplug
  BY <1>3 DEF Unplug, Fault, Tells
<1>4. CASE Plug
  BY <1>4 DEF Plug, Tells
<1>5. CASE PublishHeartbeats
  BY <1>5 DEF PublishHeartbeats, Identified
<1>6. CASE ManagerEnds
  BY <1>6 DEF ManagerEnds, Fault, NoCommand, NoBeat, NoWork
<1>7. CASE Load
  BY <1>7 DEF Load, NoWork
<1>8. CASE HandleAsync
  BY <1>8 DEF HandleAsync, HandleReject, HandleDisable, ApproveAsync, HandleRestart
<1>9. CASE Kill1
  BY <1>9 DEF Kill1, Step
<1>10. CASE Kill2
  BY <1>10 DEF Kill2, Step, Publish
<1>11. CASE CommandSaves
  BY <1>11 DEF CommandSaves, BeginSave, LockFree, Step
<1>12. CASE CommandSaved
  BY <1>12 DEF CommandSaved, EndSave, Step
<1>13. CASE Spawn1
  BY <1>13 DEF Spawn1, Step
<1>14. CASE Spawn2
  BY <1>14 DEF Spawn2, Step
<1>15. CASE Spawn3
  BY <1>15 DEF Spawn3, Step, Publish
<1>16. CASE Answer
  BY <1>16 DEF Answer, NoCommand
<1>17. CASE NoteHeartbeat
  BY <1>17 DEF NoteHeartbeat
<1>18. CASE BeatSaves
  BY <1>18 DEF BeatSaves, BeginSave, LockFree
<1>19. CASE BeatSaved
  BY <1>19 DEF BeatSaved, EndSave
<1>20. CASE Mark
  BY <1>20 DEF Mark
<1>21. CASE Note
  BY <1>21 DEF Note, Insist, Publish
<1>22. CASE Reconcile1
  BY <1>22 DEF Reconcile1
<1>23. CASE Reconcile2
  BY <1>23 DEF Reconcile2, SetTo
<1>24. CASE Reconcile3
  BY <1>24 DEF Reconcile3, TakenOnce, NoBeat, Publish
<1>25. CASE WorkerSaves
  BY <1>25 DEF WorkerSaves, BeginSave, LockFree, Work
<1>26. CASE WorkerSaved
  BY <1>26 DEF WorkerSaved, EndSave, Work
<1>27. CASE CheckArrival
  BY <1>27 DEF CheckArrival, Work, NoWork
<1>28. CASE RequestLoad1
  BY <1>28 DEF RequestLoad1
<1>29. CASE RequestLoad2
  BY <1>29 DEF RequestLoad2, NoWork
<1>30. CASE OnPnpChanged
  BY <1>30 DEF OnPnpChanged, Work
<1>31. CASE Removal1
  BY <1>31 DEF Removal1, Work
<1>32. CASE Removal2
  BY <1>32 DEF Removal2, NoWork, Publish
<1>33. ASSUME NEW op \in {"load", "unload"}, Obey(op) PROVE FlagsInv' /\ CommandsAreKept'
  BY <1>33 DEF Obey
<1>34. ASSUME NEW op \in {"load", "unload"}, Refuse(op) PROVE FlagsInv' /\ CommandsAreKept'
  BY <1>34 DEF Refuse
<1>35. CASE UNCHANGED vars
  BY <1>35
<1>36. QED
  BY <1>1, <1>2, <1>3, <1>4, <1>5, <1>6, <1>7, <1>8, <1>9, <1>10, <1>11, <1>12, <1>13, <1>14, <1>15, <1>16, <1>17, <1>18, <1>19, <1>20, <1>21, <1>22, <1>23, <1>24, <1>25, <1>26, <1>27, <1>28, <1>29, <1>30, <1>31, <1>32, <1>33, <1>34, <1>35 DEF Next, Manager, Agent, Command, Beat, Worker

\* Each action keeps the account of the loads asked for.
LEMMA AskStep ==
  ASSUME TypeOK, AskInv, LoadsAreAsked, [Next]_vars
  PROVE  AskInv' /\ LoadsAreAsked'
<1> USE DEF TypeOK, StoreTypes, CmdType, BeatType, WorkerType, vars, shared, store, threads, traffic, Entries, Heartbeats, Ops, Running, Flags, Wanted, AskInv, LoadsAreAsked
<1>1. CASE AgentStarts
  BY <1>1 DEF AgentStarts
<1>2. CASE AgentEnds
  BY <1>2 DEF AgentEnds, Fault
<1>3. CASE Unplug
  BY <1>3 DEF Unplug, Fault, Tells
<1>4. CASE Plug
  BY <1>4 DEF Plug, Tells
<1>5. CASE PublishHeartbeats
  BY <1>5 DEF PublishHeartbeats, Identified
<1>6. CASE ManagerEnds
  BY <1>6 DEF ManagerEnds, Fault, NoCommand, NoBeat, NoWork
<1>7. CASE Load
  BY <1>7 DEF Load, NoWork
<1>8. CASE HandleAsync
  BY <1>8 DEF HandleAsync, HandleReject, HandleDisable, ApproveAsync, HandleRestart
<1>9. CASE Kill1
  BY <1>9 DEF Kill1, Step
<1>10. CASE Kill2
  BY <1>10 DEF Kill2, Step, Publish
<1>11. CASE CommandSaves
  BY <1>11 DEF CommandSaves, BeginSave, LockFree, Step
<1>12. CASE CommandSaved
  BY <1>12 DEF CommandSaved, EndSave, Step
<1>13. CASE Spawn1
  BY <1>13 DEF Spawn1, Step
<1>14. CASE Spawn2
  BY <1>14 DEF Spawn2, Step
<1>15. CASE Spawn3
  BY <1>15 DEF Spawn3, Step, Publish
<1>16. CASE Answer
  BY <1>16 DEF Answer, NoCommand
<1>17. CASE NoteHeartbeat
  BY <1>17 DEF NoteHeartbeat
<1>18. CASE BeatSaves
  BY <1>18 DEF BeatSaves, BeginSave, LockFree
<1>19. CASE BeatSaved
  BY <1>19 DEF BeatSaved, EndSave
<1>20. CASE Mark
  BY <1>20 DEF Mark
<1>21. CASE Note
  BY <1>21 DEF Note, Insist, Publish
<1>22. CASE Reconcile1
  BY <1>22 DEF Reconcile1
<1>23. CASE Reconcile2
  BY <1>23 DEF Reconcile2, SetTo
<1>24. CASE Reconcile3
  BY <1>24 DEF Reconcile3, TakenOnce, NoBeat, Publish
<1>25. CASE WorkerSaves
  BY <1>25 DEF WorkerSaves, BeginSave, LockFree, Work
<1>26. CASE WorkerSaved
  BY <1>26 DEF WorkerSaved, EndSave, Work
<1>27. CASE CheckArrival
  BY <1>27 DEF CheckArrival, Work, NoWork
<1>28. CASE RequestLoad1
  BY <1>28 DEF RequestLoad1
<1>29. CASE RequestLoad2
  BY <1>29 DEF RequestLoad2, NoWork
<1>30. CASE OnPnpChanged
  BY <1>30 DEF OnPnpChanged, Work
<1>31. CASE Removal1
  BY <1>31 DEF Removal1, Work
<1>32. CASE Removal2
  BY <1>32 DEF Removal2, NoWork, Publish
<1>33. ASSUME NEW op \in {"load", "unload"}, Obey(op) PROVE AskInv' /\ LoadsAreAsked'
  BY <1>33 DEF Obey
<1>34. ASSUME NEW op \in {"load", "unload"}, Refuse(op) PROVE AskInv' /\ LoadsAreAsked'
  BY <1>34 DEF Refuse
<1>35. CASE UNCHANGED vars
  BY <1>35
<1>36. QED
  BY <1>1, <1>2, <1>3, <1>4, <1>5, <1>6, <1>7, <1>8, <1>9, <1>10, <1>11, <1>12, <1>13, <1>14, <1>15, <1>16, <1>17, <1>18, <1>19, <1>20, <1>21, <1>22, <1>23, <1>24, <1>25, <1>26, <1>27, <1>28, <1>29, <1>30, <1>31, <1>32, <1>33, <1>34, <1>35 DEF Next, Manager, Agent, Command, Beat, Worker

-------------------------------------------------------------------------------
(* The theorems.                                                            *)

\* The initial states satisfy the invariants.
LEMMA InitInv == ASSUME Init PROVE IInv /\ AskInv /\ LoadsAreAsked
<1>1. TypeOK
  <2>1. StoreTypes
    BY DEF Init, StoreTypes, Stored
  <2>2. CmdType /\ WorkerType /\ answered \in BOOLEAN \X BOOLEAN
    BY DEF Init, CmdType, WorkerType, NoCommand, NoWork, Ops, Stored, Flags, Entries
  <2>3. BeatType /\ BeatsType /\ EventsType
    BY SupervisorAssumption DEF Init, BeatType, BeatsType, EventsType, NoBeat, Heartbeats
  <2>4. OrdersType /\ UsedType
    BY SupervisorAssumption DEF Init, OrdersType, UsedType
  <2>6. AgentType
    BY DEF Init, AgentType
  <2>5. QED
    BY <2>1, <2>2, <2>3, <2>4, <2>6 DEF Init, TypeOK
<1>2. SaverInv
  BY DEF Init, SaverInv, Running, NoBeat, NoWork, NoCommand
<1>3. FlagsInv /\ CommandsAreKept
  BY DEF Init, FlagsInv, Unsaved, CommandsAreKept, Running, NoCommand
<1>4. AskInv /\ LoadsAreAsked
  BY DEF Init, AskInv, LoadsAreAsked, NoBeat
<1>5. QED
  BY <1>1, <1>2, <1>3, <1>4 DEF IInv

\* The invariants hold in every state.
LEMMA Invariance == Spec => [](IInv /\ AskInv /\ LoadsAreAsked)
<1>1. IInv /\ AskInv /\ LoadsAreAsked /\ [Next]_vars => (IInv /\ AskInv /\ LoadsAreAsked)'
  BY TypeStep, SaverStep, FlagsStep, AskStep DEF IInv
<1>2. QED
  BY InitInv, <1>1, PTL DEF Spec

\* Type correctness of the manager, its file, its threads and what is under way.
THEOREM TypeCorrect == Spec => []TypeOK
  BY Invariance, PTL DEF IInv

\* A command that has been answered is kept: no save of another thread, no end of the manager
\* and no start brings back the flags from before it.
THEOREM AnsweredIsKept == Spec => []CommandsAreKept
  BY Invariance, PTL DEF IInv

\* No heartbeat leads to a load that nobody asked for since the last one.
THEOREM NoLoadUnasked == Spec => []LoadsAreAsked
  BY Invariance, PTL
=============================================================================
