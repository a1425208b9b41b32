--------------------------- MODULE AgentSupervisor ---------------------------
(***************************************************************************)
(* The manager of one camera (AgentSupervisor, ManagerCommandHandler and   *)
(* ManagerStateStore in the service AgentManager) and what it makes of     *)
(* AgentUI, the process that owns the camera's runtime.  Three threads of  *)
(* the manager handle the Master's commands, AgentUI's heartbeats, and the *)
(* start and the plug-and-play events; they share the entry of the camera, *)
(* the dictionaries of the supervisor and the state file.  The manager may *)
(* die anywhere; AgentUI may restart and the camera be plugged elsewhere.  *)
(***************************************************************************)
EXTENDS Integers, Sequences

CONSTANTS
  Indexes,    \* video indexes the camera can get; 0 is none
  MaxOps,     \* bound: commands of the Master
  MaxFaults,  \* bound: ends of the manager, ends of AgentUI, unpluggings
  MaxBeats,   \* bound: heartbeats under way
  MaxOrders   \* bound: load, or unload, orders under way; one more is lost

ASSUME SupervisorAssumption ==
  /\ Indexes \subseteq Nat \ {0} /\ Indexes # {}
  /\ MaxOps \in Nat /\ MaxFaults \in Nat /\ MaxBeats \in Nat /\ MaxOrders \in Nat

VARIABLES
  phase,      \* the manager: "down", "starting", "up", or "failed" to read its file
  entry,      \* the CameraEntry in memory
  file,       \* manager-state.json: what it says of the camera, or torn
  saver,      \* the thread that is saving, within the store's lock, and what it serialized
  _loaded, _loadAfterHeartbeat,   \* the supervisor's dictionaries
  cmd,        \* the thread of the Master's commands
  beat,       \* the thread of the heartbeats
  worker,     \* the thread of the start, then of the plug-and-play events
  beats,      \* heartbeats under way
  orders,     \* load and unload orders under way to AgentUI
  events,     \* plug-and-play events under way
  agent,      \* AgentUI: runs, video index of the camera, runtime open
  answered,   \* the flags as the last answered command left them
  ask,        \* whether a load was asked for since a heartbeat led to the last one
  used        \* how much of each bound is used

shared == <<entry, _loaded, _loadAfterHeartbeat>>
store == <<file, saver>>
threads == <<cmd, beat, worker>>
traffic == <<beats, orders, events>>
vars == <<phase, shared, store, threads, traffic, agent, answered, ask, used>>

Flags(e) == <<e.approved, e.disabled>>
Wanted(e) == e.approved /\ ~e.disabled
Entries == [approved : BOOLEAN, disabled : BOOLEAN, known : BOOLEAN, index : Indexes \cup {0}]
Heartbeats == [connected : BOOLEAN, index : Indexes]
Ops == {"Approve", "Reject", "Disable", "Restart"}
Running == phase \in {"starting", "up"}

StoreTypes ==
  /\ entry \in Entries /\ file \in [text : Entries, torn : BOOLEAN]
  /\ saver \subseteq [by : {"cmd", "beat", "worker"}, text : Entries]
CmdType ==
  cmd \in [pc : {"idle", "kill", "forget", "upsert", "saving", "spawn", "mark", "load", "answer"}, op : Ops]
BeatType ==
  beat \in [pc : {"idle", "upsert", "saving", "mark", "note", "reconcile", "set", "act"},
            of : Heartbeats, changed : BOOLEAN, desired : BOOLEAN]
WorkerType ==
  worker \in [pc : {"idle", "upsert", "saving", "check", "request", "set", "kill", "forget"}, desired : BOOLEAN]
BeatsType == beats \in Seq(Heartbeats) /\ Len(beats) <= MaxBeats
OrdersType == orders \in [{"load", "unload"} -> 0..MaxOrders]
EventsType == events \in Seq({"arrival", "removal"})
AgentType == agent \in [on : BOOLEAN, index : Indexes \cup {0}, open : BOOLEAN]
UsedType == used \in [ops : 0..MaxOps, faults : 0..MaxFaults]

TypeOK ==
  /\ phase \in {"down", "starting", "up", "failed"}
  /\ _loaded \in BOOLEAN /\ _loadAfterHeartbeat \in BOOLEAN
  /\ answered \in BOOLEAN \X BOOLEAN /\ ask \in {"none", "asked", "unasked"}
  /\ StoreTypes /\ CmdType /\ BeatType /\ WorkerType
  /\ BeatsType /\ OrdersType /\ EventsType /\ AgentType /\ UsedType

NoBeat == [pc |-> "idle", of |-> [connected |-> FALSE, index |-> CHOOSE i \in Indexes : TRUE], changed |-> FALSE, desired |-> FALSE]
NoWork == [pc |-> "idle", desired |-> FALSE]
NoCommand == [pc |-> "idle", op |-> "Restart"]
\* A camera as the first enumeration saves it, or as the commands and heartbeats of earlier runs left it.
Stored == {e \in Entries : (~e.known <=> e.index = 0) /\ (e.disabled => e.approved)}

Init ==
  /\ phase = "down"
  /\ entry \in Stored /\ file = [text |-> entry, torn |-> FALSE] /\ saver = {}
  /\ _loaded = FALSE /\ _loadAfterHeartbeat = FALSE
  /\ cmd = NoCommand /\ beat = NoBeat /\ worker = NoWork
  /\ beats = <<>> /\ orders = [op \in {"load", "unload"} |-> 0] /\ events = <<>>
  /\ agent \in [on : {FALSE}, index : Indexes, open : {FALSE}]
  /\ answered = Flags(entry) /\ ask = "none"
  /\ used = [ops |-> 0, faults |-> 0]

Fault == used.faults < MaxFaults /\ used' = [used EXCEPT !.faults = @ + 1]

(***************************************************************************)
(* AgentUI and the camera, from how the manager and CameraNatsConnector    *)
(* use them                                                                *)
(***************************************************************************)
\* A start opens every configured camera that is there.
AgentStarts ==
  /\ ~agent.on
  /\ agent' = [agent EXCEPT !.on = TRUE, !.open = (agent.index # 0)]
  /\ UNCHANGED <<phase, shared, store, threads, traffic, answered, ask, used>>

AgentEnds ==
  /\ agent.on /\ Fault
  /\ agent' = [agent EXCEPT !.on = FALSE, !.open = FALSE]
  /\ orders' = [op \in {"load", "unload"} |-> 0]
  /\ UNCHANGED <<phase, shared, store, threads, beats, events, answered, ask>>

Tells(event) == events' = IF phase = "up" THEN Append(events, event) ELSE events

Unplug ==
  /\ agent.index # 0 /\ Fault
  /\ agent' = [agent EXCEPT !.index = 0, !.open = FALSE]
  /\ Tells("removal")
  /\ UNCHANGED <<phase, shared, store, threads, beats, orders, answered, ask>>

\* AgentUI rebuilds the panel of a camera that is back, and opens its runtime.
Plug ==
  /\ agent.index = 0
  /\ \E i \in Indexes : agent' = [agent EXCEPT !.index = i, !.open = agent.on]
  /\ Tells("arrival")
  /\ UNCHANGED <<phase, shared, store, threads, beats, orders, answered, ask, used>>

\* The mutant reports a camera without a video index.
Reports == agent.on
Identified == agent.on /\ agent.index # 0
\* A heartbeat reaches the manager only while it is subscribed.
PublishHeartbeats ==
  /\ Identified /\ Running /\ Len(beats) < MaxBeats
  /\ beats' = Append(beats, [connected |-> agent.open, index |-> agent.index])
  /\ UNCHANGED <<phase, shared, store, threads, orders, events, agent, answered, ask, used>>

\* Orders are handled by tasks of their own, in any order.
Obey(op) ==
  /\ agent.on /\ orders[op] > 0
  /\ orders' = [orders EXCEPT ![op] = @ - 1]
  /\ agent' = [agent EXCEPT !.open = IF op = "load" THEN agent.index # 0 ELSE FALSE]
  /\ UNCHANGED <<phase, shared, store, threads, beats, events, answered, ask, used>>

\* The camera is busy for longer than the order waits, or the runtime does not start.
Refuse(op) ==
  /\ agent.on /\ orders[op] > 0
  /\ orders' = [orders EXCEPT ![op] = @ - 1]
  /\ UNCHANGED <<phase, shared, store, threads, beats, events, agent, answered, ask, used>>

(***************************************************************************)
(* The manager's end and start                                             *)
(***************************************************************************)
ManagerEnds ==
  /\ Running /\ Fault
  /\ phase' = "down"
  /\ cmd' = NoCommand /\ beat' = NoBeat /\ worker' = NoWork
  /\ saver' = {}
  /\ beats' = <<>> /\ events' = <<>>
  \* a command that was cut short may have reached the file or not
  /\ answered' = IF cmd.pc # "idle" /\ ~file.torn THEN Flags(file.text) ELSE answered
  /\ UNCHANGED <<shared, file, orders, agent, ask>>

\* A file that was cut short makes the start fail.
Load ==
  /\ phase = "down"
  /\ \/ file.torn /\ phase' = "failed" /\ UNCHANGED <<entry, worker>>
     \/ ~file.torn /\ phase' = "starting" /\ entry' = file.text
        /\ worker' = [NoWork EXCEPT !.pc = IF agent.index # 0 THEN "upsert" ELSE "request"]
  /\ _loaded' = FALSE /\ _loadAfterHeartbeat' = FALSE
  /\ UNCHANGED <<store, cmd, beat, traffic, agent, answered, ask, used>>

(***************************************************************************)
(* What the threads share                                                  *)
(***************************************************************************)
Publish(op) == orders' = IF agent.on /\ orders[op] < MaxOrders THEN [orders EXCEPT ![op] = @ + 1] ELSE orders

\* Save serializes and writes within the store's lock; its mutant does not take the lock.
Unlocked == TRUE
LockFree == saver = {}
BeginSave(thread) ==
  /\ LockFree
  /\ saver' = saver \cup {[by |-> thread, text |-> entry]}
  /\ file' = [file EXCEPT !.torn = TRUE]
EndSave(thread) == \E save \in saver :
  /\ save.by = thread
  /\ file' = [text |-> save.text, torn |-> FALSE]
  /\ saver' = saver \ {save}

(***************************************************************************)
(* The Master's commands                                                   *)
(***************************************************************************)
Step(pc) == cmd' = [cmd EXCEPT !.pc = pc]

\* Reject and Disable: the flag, then Kill, then the file.
HandleReject ==
  /\ entry' = [entry EXCEPT !.approved = FALSE]
  /\ cmd' = [pc |-> "kill", op |-> "Reject"]
HandleDisable ==
  /\ entry' = [entry EXCEPT !.disabled = TRUE]
  /\ cmd' = [pc |-> "kill", op |-> "Disable"]
\* Approve: the flags, the file, then Spawn.  Restart: Spawn.
ApproveAsync ==
  /\ entry' = [entry EXCEPT !.approved = TRUE, !.disabled = FALSE]
  /\ cmd' = [pc |-> "upsert", op |-> "Approve"]
HandleRestart == entry' = entry /\ cmd' = [pc |-> "spawn", op |-> "Restart"]

HandleAsync ==
  /\ Running /\ cmd.pc = "idle" /\ used.ops < MaxOps
  /\ used' = [used EXCEPT !.ops = @ + 1]
  /\ HandleReject \/ HandleDisable \/ ApproveAsync \/ HandleRestart
  /\ UNCHANGED <<phase, _loaded, _loadAfterHeartbeat, store, beat, worker, traffic, agent, answered, ask>>

Kill1 ==
  /\ cmd.pc = "kill" /\ Step("forget") /\ _loaded' = FALSE
  /\ UNCHANGED <<phase, entry, _loadAfterHeartbeat, store, beat, worker, traffic, agent, answered, ask, used>>
Kill2 ==
  /\ cmd.pc = "forget" /\ Step("upsert") /\ _loadAfterHeartbeat' = FALSE
  /\ IF entry.known THEN Publish("unload") ELSE UNCHANGED orders
  /\ UNCHANGED <<phase, entry, _loaded, store, beat, worker, beats, events, agent, answered, ask, used>>

CommandSaves ==
  /\ cmd.pc = "upsert" /\ BeginSave("cmd") /\ Step("saving")
  /\ UNCHANGED <<phase, shared, beat, worker, traffic, agent, answered, ask, used>>
CommandSaved ==
  /\ cmd.pc = "saving" /\ EndSave("cmd")
  /\ Step(IF cmd.op = "Approve" THEN "spawn" ELSE "answer")
  /\ UNCHANGED <<phase, shared, beat, worker, traffic, agent, answered, ask, used>>

Spawn1 ==
  /\ cmd.pc = "spawn" /\ Step("mark") /\ _loadAfterHeartbeat' = FALSE
  /\ UNCHANGED <<phase, entry, _loaded, store, beat, worker, traffic, agent, answered, ask, used>>
Spawn2 ==
  /\ cmd.pc = "mark" /\ _loaded' = Wanted(entry)
  /\ Step(IF Wanted(entry) THEN "load" ELSE "answer")
  /\ UNCHANGED <<phase, entry, _loadAfterHeartbeat, store, beat, worker, traffic, agent, answered, ask, used>>
\* Without an index of AgentUI's the load waits for a heartbeat.
Spawn3 ==
  /\ cmd.pc = "load" /\ Step("answer")
  /\ IF entry.known /\ entry.index # 0
     THEN Publish("load") /\ UNCHANGED <<_loadAfterHeartbeat, ask>>
     ELSE _loadAfterHeartbeat' = TRUE /\ ask' = "asked" /\ UNCHANGED orders
  /\ UNCHANGED <<phase, entry, _loaded, store, beat, worker, beats, events, agent, answered, used>>

\* The inventory is published: the Master sees what became of the command.
Answer ==
  /\ cmd.pc = "answer" /\ cmd' = NoCommand
  /\ answered' = Flags(entry)
  /\ UNCHANGED <<phase, shared, store, beat, worker, traffic, agent, ask, used>>

(***************************************************************************)
(* Heartbeats                                                              *)
(***************************************************************************)
\* The entry takes the identity and the index that AgentUI reports.
NoteHeartbeat ==
  /\ Running /\ beat.pc = "idle" /\ beats # <<>>
  /\ beats' = Tail(beats)
  /\ LET status == Head(beats)
         changed == ~entry.known \/ entry.index # status.index
     IN /\ beat' = [pc |-> IF changed THEN "upsert" ELSE "mark", of |-> status, changed |-> changed, desired |-> FALSE]
        /\ entry' = [entry EXCEPT !.known = TRUE, !.index = status.index]
        /\ ask' = IF changed THEN "asked" ELSE ask
  /\ UNCHANGED <<phase, _loaded, _loadAfterHeartbeat, store, cmd, worker, orders, events, agent, answered, used>>

BeatSaves ==
  /\ beat.pc = "upsert" /\ BeginSave("beat") /\ beat' = [beat EXCEPT !.pc = "saving"]
  /\ UNCHANGED <<phase, shared, cmd, worker, traffic, agent, answered, ask, used>>
BeatSaved ==
  /\ beat.pc = "saving" /\ EndSave("beat") /\ beat' = [beat EXCEPT !.pc = "mark"]
  /\ UNCHANGED <<phase, shared, cmd, worker, traffic, agent, answered, ask, used>>

Mark ==
  /\ beat.pc = "mark" /\ beat' = [beat EXCEPT !.pc = "note"] /\ _loaded' = (_loaded \/ Wanted(entry))
  /\ UNCHANGED <<phase, entry, _loadAfterHeartbeat, store, cmd, worker, traffic, agent, answered, ask, used>>

\* The mutant hears of the camera without a word.
KeepQuiet == UNCHANGED orders
Insist == IF ~Wanted(entry) THEN Publish("unload") ELSE UNCHANGED orders
\* A camera that is not wanted and is heard of is told to unload, every time.
Note ==
  /\ beat.pc = "note" /\ beat' = [beat EXCEPT !.pc = "reconcile"]
  /\ Insist
  /\ UNCHANGED <<phase, entry, _loaded, _loadAfterHeartbeat, store, cmd, worker, beats, events, agent, answered, ask, used>>

Reconcile1 ==
  /\ beat.pc = "reconcile" /\ beat' = [beat EXCEPT !.pc = "set", !.desired = Wanted(entry)]
  /\ UNCHANGED <<phase, shared, store, cmd, worker, traffic, agent, answered, ask, used>>
\* The mutant only ever sets the state to loaded.
RaisedTo(desired) == _loaded \/ desired
SetTo(desired) == desired
Reconcile2 ==
  /\ beat.pc = "set" /\ beat' = [beat EXCEPT !.pc = "act"] /\ _loaded' = SetTo(beat.desired)
  /\ UNCHANGED <<phase, entry, _loadAfterHeartbeat, store, cmd, worker, traffic, agent, answered, ask, used>>

\* The scheduled load is taken once; the mutant leaves it scheduled.
KeptScheduled == _loadAfterHeartbeat
TakenOnce == FALSE
Reconcile3 ==
  /\ beat.pc = "act" /\ beat' = NoBeat
  /\ IF ~beat.desired \/ beat.of.connected
     THEN _loadAfterHeartbeat' = FALSE /\ UNCHANGED <<orders, ask>>
     ELSE /\ _loadAfterHeartbeat' = TakenOnce
          /\ IF _loadAfterHeartbeat \/ beat.changed
             THEN Publish("load") /\ ask' = IF ask = "asked" THEN "none" ELSE "unasked"
             ELSE UNCHANGED <<orders, ask>>
  /\ UNCHANGED <<phase, entry, _loaded, store, cmd, worker, beats, events, agent, answered, used>>

(***************************************************************************)
(* The start and plug-and-play                                             *)
(***************************************************************************)
Work(pc) == worker' = [worker EXCEPT !.pc = pc]

WorkerSaves ==
  /\ worker.pc = "upsert" /\ BeginSave("worker") /\ Work("saving")
  /\ UNCHANGED <<phase, shared, cmd, beat, traffic, agent, answered, ask, used>>
WorkerSaved ==
  /\ worker.pc = "saving" /\ EndSave("worker")
  /\ Work(IF phase = "starting" THEN "request" ELSE "check")
  /\ UNCHANGED <<phase, shared, cmd, beat, traffic, agent, answered, ask, used>>

\* IsRunning also asks for a fresh heartbeat, so that it may be false at any time.
CheckArrival ==
  /\ worker.pc = "check"
  /\ \/ Wanted(entry) /\ Work("request")
     \/ (Wanted(entry) => _loaded) /\ worker' = NoWork
  /\ UNCHANGED <<phase, shared, store, cmd, beat, traffic, agent, answered, ask, used>>

RequestLoad1 ==
  /\ worker.pc = "request" /\ worker' = [pc |-> "set", desired |-> Wanted(entry)]
  /\ UNCHANGED <<phase, shared, store, cmd, beat, traffic, agent, answered, ask, used>>
\* The start is over when the desired state is restored; plug-and-play events come after it.
RequestLoad2 ==
  /\ worker.pc = "set" /\ worker' = NoWork /\ phase' = "up"
  /\ _loaded' = worker.desired /\ _loadAfterHeartbeat' = worker.desired
  /\ ask' = IF worker.desired THEN "asked" ELSE ask
  /\ UNCHANGED <<entry, store, cmd, beat, traffic, agent, answered, used>>

OnPnpChanged ==
  /\ phase = "up" /\ worker.pc = "idle" /\ events # <<>>
  /\ events' = Tail(events)
  /\ Work(IF Head(events) = "arrival" THEN "upsert" ELSE "kill")
  /\ UNCHANGED <<phase, shared, store, cmd, beat, beats, orders, agent, answered, ask, used>>

Removal1 ==
  /\ worker.pc = "kill" /\ Work("forget") /\ _loaded' = FALSE
  /\ UNCHANGED <<phase, entry, _loadAfterHeartbeat, store, cmd, beat, traffic, agent, answered, ask, used>>
Removal2 ==
  /\ worker.pc = "forget" /\ worker' = NoWork /\ _loadAfterHeartbeat' = FALSE
  /\ IF entry.known THEN Publish("unload") ELSE UNCHANGED orders
  /\ UNCHANGED <<phase, entry, _loaded, store, cmd, beat, beats, events, agent, answered, ask, used>>

Command == Kill1 \/ Kill2 \/ CommandSaves \/ CommandSaved \/ Spawn1 \/ Spawn2 \/ Spawn3 \/ Answer
Beat == NoteHeartbeat \/ BeatSaves \/ BeatSaved \/ Mark \/ Note \/ Reconcile1 \/ Reconcile2 \/ Reconcile3
Worker ==
  \/ WorkerSaves \/ WorkerSaved \/ CheckArrival \/ RequestLoad1 \/ RequestLoad2
  \/ OnPnpChanged \/ Removal1 \/ Removal2
Agent == AgentStarts \/ AgentEnds \/ Unplug \/ Plug \/ PublishHeartbeats \/ (\E op \in {"load", "unload"} : Obey(op) \/ Refuse(op))
Manager == ManagerEnds \/ Load \/ HandleAsync \/ Command \/ Beat \/ Worker

Next == Manager \/ Agent

\* The threads of the manager run on, and AgentUI goes on sending heartbeats and handling orders;
\* a camera operation that keeps an unload out ends at some time, so that an unload that is
\* ordered again and again is obeyed.
Fairness ==
  /\ WF_vars(Command) /\ WF_vars(Beat) /\ WF_vars(Worker)
  /\ WF_vars(PublishHeartbeats)
  /\ WF_vars(Obey("load") \/ Refuse("load")) /\ SF_vars(Obey("unload"))

Spec == Init /\ [][Next]_vars /\ Fairness

(***************************************************************************)
(* Properties                                                              *)
(***************************************************************************)
\* A command that has been answered is kept: no save of another thread, no end of the manager
\* and no start brings back the flags from before it.
CommandsAreKept == Running /\ cmd.pc = "idle" => Flags(entry) = answered

\* The manager orders no load that nobody asked for: each approval, each start, each arrival and
\* each change of the index leads to one at most, so that a running camera does not lose its
\* BIAS to loads repeated with every heartbeat.
LoadsAreAsked == ask # "unasked"

\* A camera that stays rejected or disabled is unloaded in the end and stays so, even when
\* heartbeats from before the command, loads under way and AgentUI's own starts come after it.
UnwantedIsUnloaded == <>[](phase = "up" /\ ~Wanted(entry)) => <>[]~agent.open

\* While AgentUI reports the camera, the supervisor comes to agree with the entry.
LoadedIsWanted ==
  <>[](phase = "up" /\ agent.on /\ agent.index # 0) => <>[](_loaded = Wanted(entry))
=============================================================================
