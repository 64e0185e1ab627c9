----------------------------- MODULE Simulator -----------------------------
(***************************************************************************)
(* The matrix runner of entangrid-sim: one scenario after another it       *)
(* writes a localnet, starts a process per node, runs the load and the     *)
(* abuse side by side, reads the nodes' files until the expectations of    *)
(* the scenario hold or the settle window is over, and stops the nodes.    *)
(*                                                                         *)
(* The nodes go on writing while their files are read.  A node is here     *)
(* what it does to the three files the runner reads: a block is appended   *)
(* before the snapshot is rewritten, a replaced chain is written after it, *)
(* and a rewritten snapshot or metrics file is empty for a while.          *)
(***************************************************************************)
EXTENDS ScenarioReports

CONSTANTS
    Nodes,         \* bound: validators of a localnet, 1 .. n (at least 4 in the code)
    Scenarios,     \* the scenarios, in order
    Blocks,        \* block hashes
    Metrics,       \* the metrics a node may write
    Missing, Torn, \* a file that is not there, or is only partly written
    SpawnMayFail,  \* whether a log file or a process may fail to be created
    MaxWork,       \* bound: changes, crashes and metrics of the nodes in one scenario
    MaxHeight,     \* bound: blocks of a chain
    MaxPolls       \* bound: readings in the settle window

\* What the constants have to satisfy.
SimulatorAssumption ==
    /\ Nodes \in Nat \ {0} /\ MaxWork \in Nat /\ MaxHeight \in Nat /\ MaxPolls \in Nat
    /\ SpawnMayFail \in BOOLEAN
    /\ \A i \in DOMAIN Scenarios : Scenarios[i].degraded \in 1 .. Nodes \cup {None}

VARIABLES
    phase,     \* what the runner is doing
    index,     \* the scenario it is at
    child,     \* each node's process
    disk,      \* each node's files
    todo,      \* the writes each node has still to make
    work,      \* changes made by the nodes
    load,      \* load_scenario
    abuse,     \* run_abuse_pattern
    reading,   \* the reports being built
    polls,     \* readings in this settle window
    outcome,   \* what the run of the scenario returned, None before
    results    \* the results of the scenarios so far

nodeVars == <<child, disk, todo, work>>
vars == <<phase, index, child, disk, todo, work, load, abuse, reading, polls, outcome, results>>

Node  == 1 .. Nodes
Chain == UNION {[1 .. k -> Blocks] : k \in 0 .. MaxHeight}
Alive(v) == child[v] \in {"running", "interrupted"}

\* The localnet of a scenario, fresh in a directory of its own (init_localnet).
Fresh == [blocks |-> <<>>, snapshot |-> Missing, metrics |-> Missing, clean |-> TRUE]

-----------------------------------------------------------------------------
(***************************************************************************)
(* The nodes.                                                              *)
(***************************************************************************)
Set(file, value) == [file |-> file, value |-> value]
Rewrite(file, value) == <<Set(file, Torn), Set(file, value)>>

Does(v, writes) ==
    /\ Alive(v) /\ todo[v] = <<>>
    /\ work < MaxWork /\ work' = work + 1
    /\ todo' = [todo EXCEPT ![v] = writes]
    /\ UNCHANGED <<phase, index, child, disk, load, abuse, reading, polls, outcome, results>>

\* accept_block: append the block, then write the snapshot.
ExtendChain(v, b) ==
    LET c == Append(disk[v].blocks, b)
    IN  Len(c) <= MaxHeight /\ Does(v, <<Set("blocks", c)>> \o Rewrite("snapshot", c))

\* adopt_canonical_chain: write the snapshot, then the blocks line by line.
ReplaceChain(v, c) ==
    LET lines == [k \in 1 .. Len(c) + 1 |-> Set("blocks", SubSeq(c, 1, k - 1))]
    IN  /\ Len(c) >= Len(disk[v].blocks) /\ c # disk[v].blocks
        /\ Does(v, Rewrite("snapshot", c) \o lines)

\* The metrics tick.
PutMetrics(v, m) == Does(v, Rewrite("metrics", m))

Write(v) ==
    /\ Alive(v) /\ todo[v] # <<>>
    /\ disk' = [disk EXCEPT ![v][Head(todo[v]).file] = Head(todo[v]).value]
    /\ todo' = [todo EXCEPT ![v] = Tail(@)]
    /\ UNCHANGED <<phase, index, child, work, load, abuse, reading, polls, outcome, results>>

\* The event loop returns an error, which goes to stderr.
Crash(v) ==
    /\ Alive(v)
    /\ work < MaxWork /\ work' = work + 1
    /\ child' = [child EXCEPT ![v] = "exited"]
    /\ todo' = [todo EXCEPT ![v] = <<>>]
    /\ disk' = [disk EXCEPT ![v].clean = FALSE]
    /\ UNCHANGED <<phase, index, load, abuse, reading, polls, outcome, results>>

\* handle_shutdown, when the loop gets to the interrupt.  What it writes is not read.
Stop(v) ==
    /\ child[v] = "interrupted" /\ todo[v] = <<>>
    /\ child' = [child EXCEPT ![v] = "exited"]
    /\ UNCHANGED <<phase, index, disk, todo, work, load, abuse, reading, polls, outcome, results>>

-----------------------------------------------------------------------------
(***************************************************************************)
(* Starting a scenario.                                                    *)
(***************************************************************************)
InitLocalnet ==
    /\ phase = "init"
    /\ phase' = "spawn"
    /\ child' = [v \in Node |-> "none"]
    /\ disk' = [v \in Node |-> Fresh]
    /\ todo' = [v \in Node |-> <<>>]
    /\ work' = 0 /\ polls' = 0 /\ load' = "start" /\ abuse' = "running" /\ outcome' = None
    /\ UNCHANGED <<index, reading, results>>

\* spawn_localnet_children: the processes in the order of the manifest.
SpawnNode(v) ==
    /\ phase = "spawn"
    /\ child[v] = "none" /\ \A w \in Node : w < v => child[w] # "none"
    /\ child' = [child EXCEPT ![v] = "running"]
    /\ phase' = IF v = Nodes THEN "run" ELSE "spawn"
    /\ UNCHANGED <<index, disk, todo, work, load, abuse, reading, polls, outcome, results>>

\* An error on the way leaves spawn_localnet_children, run_matrix_scenario and
\* run_rigorous_matrix; dropping a Child does not stop its process.
SpawnFails ==
    /\ SpawnMayFail
    /\ phase = "spawn"
    /\ phase' = "aborted"
    /\ UNCHANGED <<index, nodeVars, load, abuse, reading, polls, outcome, results>>

\* load_scenario starts with the nonces of node 1's snapshot (current_nonces).
LoadStart ==
    /\ phase = "run" /\ load = "start"
    /\ load' = IF disk[1].snapshot = Torn THEN "failed" ELSE "running"
    /\ UNCHANGED <<phase, index, nodeVars, abuse, reading, polls, outcome, results>>

LoadEnd ==
    /\ phase = "run" /\ load = "running"
    /\ load' = "done"
    /\ UNCHANGED <<phase, index, nodeVars, abuse, reading, polls, outcome, results>>

\* run_abuse_pattern; messages and connections that fail are ignored.
AbuseEnd ==
    /\ phase = "run" /\ abuse = "running"
    /\ abuse' = "done"
    /\ UNCHANGED <<phase, index, nodeVars, load, reading, polls, outcome, results>>

-----------------------------------------------------------------------------
(***************************************************************************)
(* The settle window: the files are read one after another.                *)
(***************************************************************************)
NoFunction == [v \in {} |-> None]
With(f, v, x) == [w \in DOMAIN f \cup {v} |-> IF w = v THEN x ELSE f[w]]

\* A new pair of reports: the metrics of every node, then the blocks and the snapshot
\* of every node.  dead is kept for the properties only: the nodes that had crashed
\* when the reading began.
StartReading(last) ==
    reading' = [at |-> 1, failed |-> FALSE, last |-> last, scores |-> NoFunction,
                nodes |-> NoFunction, dead |-> {v \in Node : child[v] = "exited"}]

\* Seeded defect: an error of the run goes up before the nodes are stopped.
EndRunPropagates(o) == outcome' = o /\ phase' = IF o = "error" THEN "aborted" ELSE "interrupt"
\* The run is over, with reports or an error; the nodes are stopped in either case.
EndRun(o) == outcome' = o /\ phase' = "interrupt"

\* tokio::join! has both futures: an error of the load ends the run.
Joined ==
    /\ phase = "run" /\ load \in {"done", "failed"} /\ abuse = "done"
    /\ IF load = "failed"
       THEN EndRun("error") /\ UNCHANGED reading
       ELSE phase' = "read" /\ StartReading(FALSE) /\ UNCHANGED outcome
    /\ UNCHANGED <<index, nodeVars, load, abuse, polls, results>>

\* build_localnet_report at a node: without metrics it is skipped, with half of them
\* the report fails.
ReadMetrics(v) ==
    /\ phase = "read" /\ ~reading.failed /\ reading.at = v
    /\ reading' = [reading EXCEPT
            !.at = @ + 1,
            !.failed = disk[v].metrics = Torn,
            !.scores = IF disk[v].metrics \in {Missing, Torn} THEN @ ELSE With(@, v, disk[v].metrics)]
    /\ UNCHANGED <<phase, index, nodeVars, load, abuse, polls, outcome, results>>

\* build_structural_report at a node: first the blocks, of which a half-written last
\* line is ignored (read_json_lines),
ReadBlocks(v) ==
    /\ phase = "read" /\ ~reading.failed /\ reading.at = Nodes + 2 * v - 1
    /\ reading' = [reading EXCEPT
            !.at = @ + 1,
            !.nodes = With(@, v, [chain |-> disk[v].blocks, linked |-> TRUE, tip |-> None, clean |-> TRUE])]
    /\ UNCHANGED <<phase, index, nodeVars, load, abuse, polls, outcome, results>>

\* Seeded defect: stderr is not looked at.
ReadSnapshotOnly(v) ==
    /\ phase = "read" /\ ~reading.failed /\ reading.at = Nodes + 2 * v
    /\ reading' = [reading EXCEPT
            !.at = @ + 1, !.failed = disk[v].snapshot = Torn, !.nodes[v].tip = disk[v].snapshot]
    /\ UNCHANGED <<phase, index, nodeVars, load, abuse, polls, outcome, results>>
\* then the snapshot, which must be whole (read_state_snapshot), and stderr.
ReadSnapshot(v) ==
    /\ phase = "read" /\ ~reading.failed /\ reading.at = Nodes + 2 * v
    /\ reading' = [reading EXCEPT
            !.at = @ + 1,
            !.failed = disk[v].snapshot = Torn,
            !.nodes[v].tip = disk[v].snapshot, !.nodes[v].clean = disk[v].clean]
    /\ UNCHANGED <<phase, index, nodeVars, load, abuse, polls, outcome, results>>

ReadDone == phase = "read" /\ (reading.failed \/ reading.at > 3 * Nodes)
Met == ~reading.failed /\ ExpectationsMet(Scenarios[index], reading.scores, reading.nodes)

\* wait_for_scenario_expectations: the reports that meet the expectations are returned.
Settled ==
    /\ ReadDone /\ ~reading.last /\ Met
    /\ EndRun("reports")
    /\ UNCHANGED <<index, nodeVars, load, abuse, reading, polls, results>>

\* Otherwise the runner sleeps and reads again, until the deadline,
Sleep ==
    /\ ReadDone /\ ~reading.last /\ ~Met
    /\ polls < MaxPolls /\ polls' = polls + 1
    /\ StartReading(FALSE)
    /\ UNCHANGED <<phase, index, nodeVars, load, abuse, outcome, results>>

\* where it reads once more
Deadline ==
    /\ ReadDone /\ ~reading.last /\ ~Met
    /\ StartReading(TRUE)
    /\ UNCHANGED <<phase, index, nodeVars, load, abuse, polls, outcome, results>>

\* and returns the reports whatever they say; here a file that is half written is an
\* error.
LastReading ==
    /\ ReadDone /\ reading.last
    /\ EndRun(IF reading.failed THEN "error" ELSE "reports")
    /\ UNCHANGED <<index, nodeVars, load, abuse, reading, polls, results>>

-----------------------------------------------------------------------------
(***************************************************************************)
(* shutdown_children.                                                      *)
(***************************************************************************)
InterruptAll ==
    /\ phase = "interrupt"
    /\ phase' = "wait"
    /\ child' = [v \in Node |-> IF child[v] = "running" THEN "interrupted" ELSE child[v]]
    /\ UNCHANGED <<index, disk, todo, work, load, abuse, reading, polls, outcome, results>>

Turn(v) == phase = "wait" /\ child[v] # "reaped" /\ \A w \in Node : w < v => child[w] = "reaped"

\* Seeded defect: the wait for a node that does not stop has no end.
OverdueNever(v) == FALSE
\* The two seconds for a node's exit are over.
Overdue(v) == child[v] = "interrupted"

WaitChild(v) ==
    /\ Turn(v) /\ child[v] = "exited"
    /\ child' = [child EXCEPT ![v] = "reaped"]
    /\ UNCHANGED <<phase, index, disk, todo, work, load, abuse, reading, polls, outcome, results>>

KillChild(v) ==
    /\ Turn(v) /\ Overdue(v)
    /\ child' = [child EXCEPT ![v] = "reaped"]
    /\ todo' = [todo EXCEPT ![v] = <<>>]
    /\ UNCHANGED <<phase, index, disk, work, load, abuse, reading, polls, outcome, results>>

\* The result of the scenario, or the error that ends the matrix without a report.
Record ==
    /\ phase = "wait" /\ \A v \in Node : child[v] = "reaped"
    /\ IF outcome = "error"
       THEN phase' = "aborted" /\ UNCHANGED <<index, results>>
       ELSE /\ results' = Append(results, [scores |-> reading.scores, nodes |-> reading.nodes,
                                           dead |-> reading.dead])
            /\ index' = index + 1
            /\ phase' = IF index = Len(Scenarios) THEN "done" ELSE "init"
    /\ UNCHANGED <<nodeVars, load, abuse, reading, polls, outcome>>

-----------------------------------------------------------------------------
Init ==
    /\ phase = "init" /\ index = 1
    /\ child = [v \in Node |-> "none"]
    /\ disk = [v \in Node |-> Fresh]
    /\ todo = [v \in Node |-> <<>>]
    /\ work = 0 /\ load = "start" /\ abuse = "running" /\ polls = 0
    /\ reading = None /\ outcome = None /\ results = <<>>

Runner ==
    \/ InitLocalnet \/ SpawnFails \/ \E v \in Node : SpawnNode(v)
    \/ LoadStart \/ LoadEnd \/ AbuseEnd \/ Joined
    \/ \E v \in Node : ReadMetrics(v) \/ ReadBlocks(v) \/ ReadSnapshot(v)
    \/ Settled \/ Sleep \/ Deadline \/ LastReading
    \/ InterruptAll \/ \E v \in Node : WaitChild(v) \/ KillChild(v)
    \/ Record

NodeStep(v) ==
    \/ \E b \in Blocks : ExtendChain(v, b)
    \/ \E c \in Chain : ReplaceChain(v, c)
    \/ \E m \in Metrics : PutMetrics(v, m)
    \/ Write(v) \/ Crash(v) \/ Stop(v)

Next == Runner \/ \E v \in Node : NodeStep(v)

Spec == Init /\ [][Next]_vars

\* The runner's task is polled, its sleeps and timeouts end; the nodes owe nothing.
Fairness == WF_vars(Runner)

-----------------------------------------------------------------------------
(***************************************************************************)
(* Properties.                                                             *)
(***************************************************************************)

\* No node outlives its scenario once all are spawned: when the next one begins, whose
\* nodes listen on the same ports, and when the matrix is over, with a report or with an
\* error, no process is left (shutdown_children in run_matrix_scenario).
ChildrenReaped ==
    (phase \in {"init", "done"} \/ (phase = "aborted" /\ outcome # None)) =>
        \A v \in Node : ~Alive(v)

\* A scenario passes only if no node had crashed before its reports were read, although
\* the runner never asks whether the processes still run (build_structural_report).
CrashesNoticed ==
    \A i \in DOMAIN results :
        Passed(Scenarios[i], results[i].scores, results[i].nodes) => results[i].dead = {}

\* The matrix comes to an end, whatever the nodes do (wait_for_scenario_expectations,
\* shutdown_children).
MatrixEnds == <>(phase \in {"done", "aborted"})
=============================================================================
