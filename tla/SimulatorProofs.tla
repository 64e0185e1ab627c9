-------------------------- MODULE SimulatorProofs --------------------------
(***************************************************************************)
(* The matrix runner leaves no process behind and passes no scenario in    *)
(* which a node had crashed or nodes are on different chains, for every    *)
(* number of nodes and every list of scenarios.                            *)
(***************************************************************************)
EXTENDS Simulator, SequenceTheorems, FiniteSetTheorems, TLAPS

ChildStates == {"none", "running", "interrupted", "exited", "reaped"}

\* The inductive invariant of the runner and its processes: a process is alive only
\* between the start of a scenario and the end of shutdown_children.
ChildInv ==
    /\ child \in [Node -> ChildStates]
    /\ phase \in {"spawn", "run", "read"} => outcome = None
    /\ phase \in {"init", "done"} => \A v \in Node : ~Alive(v)
    /\ phase = "aborted" /\ outcome # None => \A v \in Node : ~Alive(v)

\* A step of a node starts no process and leaves the runner alone.
LEMMA NodeStepMoves ==
    ASSUME NEW v \in Node, NodeStep(v), child \in [Node -> ChildStates]
    PROVE  /\ UNCHANGED <<phase, index, load, abuse, reading, polls, outcome, results>>
           /\ child' \in [Node -> ChildStates]
           /\ Alive(v) /\ \A w \in Node : Alive(w)' => Alive(w)
<1>1. ASSUME NEW writes, Does(v, writes)
      PROVE  /\ UNCHANGED <<phase, index, load, abuse, reading, polls, outcome, results, child>>
             /\ Alive(v)
  BY <1>1 DEF Does
<1>2. CASE \/ \E b \in Blocks : ExtendChain(v, b)
           \/ \E c \in Chain : ReplaceChain(v, c)
           \/ \E m \in Metrics : PutMetrics(v, m)
  BY <1>1, <1>2 DEF ExtendChain, ReplaceChain, PutMetrics, Alive
<1>3. CASE Write(v)
  BY <1>3 DEF Write, Alive
<1>4. CASE Crash(v) \/ Stop(v)
  BY <1>4 DEF Crash, Stop, Alive, ChildStates
<1> QED BY <1>2, <1>3, <1>4 DEF NodeStep

\* Every step keeps the invariant.
LEMMA ChildStep ==
    ASSUME ChildInv, [Next]_vars
    PROVE  ChildInv'
<1>1. ASSUME NEW v \in Node, NodeStep(v) PROVE ChildInv'
  BY <1>1, NodeStepMoves DEF ChildInv
<1>2. CASE InitLocalnet
  BY <1>2 DEF InitLocalnet, ChildInv, ChildStates
<1>3. CASE SpawnFails
  BY <1>3 DEF SpawnFails, ChildInv, nodeVars
<1>4. ASSUME NEW v \in Node, SpawnNode(v) PROVE ChildInv'
  BY <1>4 DEF SpawnNode, ChildInv, ChildStates
<1>5. CASE LoadStart \/ LoadEnd \/ AbuseEnd
  BY <1>5 DEF LoadStart, LoadEnd, AbuseEnd, ChildInv, nodeVars, Alive
<1>6. CASE Joined
  BY <1>6 DEF Joined, EndRun, StartReading, ChildInv, nodeVars, Alive
<1>7. ASSUME NEW v \in Node, ReadMetrics(v) \/ ReadBlocks(v) \/ ReadSnapshot(v) PROVE ChildInv'
  BY <1>7 DEF ReadMetrics, ReadBlocks, ReadSnapshot, ChildInv, nodeVars, Alive
<1>8. CASE Settled \/ LastReading
  BY <1>8 DEF Settled, LastReading, EndRun, ChildInv, nodeVars
<1>9. CASE Sleep \/ Deadline
  BY <1>9 DEF Sleep, Deadline, StartReading, ReadDone, ChildInv, nodeVars, Alive
<1>10. CASE InterruptAll
  BY <1>10 DEF InterruptAll, ChildInv, ChildStates
<1>11. ASSUME NEW v \in Node, WaitChild(v) \/ KillChild(v) PROVE ChildInv'
  BY <1>11 DEF WaitChild, KillChild, Turn, ChildInv, ChildStates
<1>12. CASE Record
  BY <1>12 DEF Record, ChildInv, nodeVars, Alive
<1>13. CASE UNCHANGED vars
  BY <1>13 DEF vars, ChildInv, Alive
<1> QED BY <1>1, <1>2, <1>3, <1>4, <1>5, <1>6, <1>7, <1>8, <1>9, <1>10, <1>11, <1>12, <1>13
        DEF Next, Runner

\* No node outlives its scenario once all are spawned: whatever the load, the reports and
\* the nodes do, no process is left when the next scenario begins or the matrix is over
\* (shutdown_children in run_matrix_scenario).
THEOREM NoneOutlivesScenario == Spec => []ChildrenReaped
<1>1. Init => ChildInv
  BY DEF Init, ChildInv, ChildStates, Alive
<1>2. ChildInv /\ [Next]_vars => ChildInv'
  BY ChildStep
<1>3. ChildInv => ChildrenReaped
  BY DEF ChildInv, ChildrenReaped
<1> QED BY <1>1, <1>2, <1>3, PTL DEF Spec

-----------------------------------------------------------------------------
(* Crashes are noticed.                                                     *)

Files   == {"blocks", "snapshot", "metrics", "clean"}
Fields  == {"at", "failed", "last", "scores", "nodes", "dead"}
Entries == {"chain", "linked", "tip", "clean"}

\* f is a function, or record, with this domain.
Over(f, D) == f = [x \in D |-> f[x]]

\* Writes of a node go to the files the runner parses, never to its stderr.
Harmless(writes) ==
    \E W : writes \in Seq(W) /\ \A w \in W : w.file \in Files \ {"clean"}

\* A report under way: the nodes whose blocks were read are in it, and the ones of them
\* that had crashed at the beginning are marked once stderr was read as well.
Begun(at) == {v \in Node : Nodes + 2 * v - 1 < at}
ReadInv(r) ==
    /\ Over(r, Fields)
    /\ r.at \in Nat /\ r.at >= 1 /\ r.dead \subseteq Node
    /\ Over(r.nodes, Begun(r.at)) /\ \A v \in Begun(r.at) : Over(r.nodes[v], Entries)
    /\ \A v \in r.dead : Nodes + 2 * v < r.at => r.nodes[v].clean = FALSE

\* A report that is complete marks every node that had crashed.
Marked(r) == DOMAIN r.nodes = Node /\ r.dead \subseteq Node /\ \A v \in r.dead : r.nodes[v].clean = FALSE

\* The inductive invariant: before the shutdown a process that exited has crashed and left
\* a line on stderr, which stays there, and so reaches every report that begins later.
NoticeInv ==
    /\ child \in [Node -> ChildStates]
    /\ Over(disk, Node) /\ \A v \in Node : Over(disk[v], Files)
    /\ Over(todo, Node) /\ \A v \in Node : Harmless(todo[v])
    /\ phase \in {"spawn", "run", "read"} => \A v \in Node :
            /\ child[v] \in {"none", "running", "exited"}
            /\ child[v] = "exited" => disk[v].clean = FALSE
    /\ phase = "read" => ReadInv(reading) /\ \A v \in reading.dead : disk[v].clean = FALSE
    /\ phase \in {"interrupt", "wait"} /\ outcome # "error" => Marked(reading)
    /\ \E R : results \in Seq(R)
    /\ \A i \in DOMAIN results : Marked(results[i])

\* The writes of the nodes' operations are harmless.
LEMMA WritesHarmless ==
    ASSUME NEW f \in Files \ {"clean"}, NEW x
    PROVE  /\ Harmless(<<>>) /\ Harmless(Rewrite(f, x))
           /\ Harmless(<<Set(f, x)>>)
<1> DEFINE W == {Set(f, x), Set(f, Torn)}
<1>1. \A w \in W : w.file \in Files \ {"clean"}
  BY DEF Set
<1>2. Set(f, x) \in W /\ Set(f, Torn) \in W
  OBVIOUS
<1> HIDE DEF W
<1>3. <<>> \in Seq(W) /\ <<Set(f, Torn), Set(f, x)>> \in Seq(W) /\ <<Set(f, x)>> \in Seq(W)
  BY <1>2
<1> QED BY <1>1, <1>3 DEF Harmless, Rewrite

\* ... also one after the other.
LEMMA HarmlessConcat ==
    ASSUME NEW p, NEW q, Harmless(p), Harmless(q)
    PROVE  Harmless(p \o q)
<1>1. PICK P : p \in Seq(P) /\ \A w \in P : w.file \in Files \ {"clean"}
  BY DEF Harmless
<1>2. PICK Q : q \in Seq(Q) /\ \A w \in Q : w.file \in Files \ {"clean"}
  BY DEF Harmless
<1>3. p \in Seq(P \cup Q) /\ q \in Seq(P \cup Q)
  BY <1>1, <1>2
<1>4. p \o q \in Seq(P \cup Q)
  BY <1>3, ConcatProperties
<1> QED BY <1>1, <1>2, <1>4 DEF Harmless

\* What a node's step does to its files: they stay files, and a line on stderr stays there.
LEMMA NodeStepNotice ==
    ASSUME SimulatorAssumption, NoticeInv, NEW v \in Node, NodeStep(v)
    PROVE  /\ Over(disk', Node) /\ \A w \in Node : Over(disk'[w], Files)
           /\ Over(todo', Node) /\ \A w \in Node : Harmless(todo'[w])
           /\ \A w \in Node : disk[w].clean = FALSE => disk'[w].clean = FALSE
           /\ \A w \in Node : child'[w] # child[w] =>
                \/ child[w] = "interrupted"
                \/ child'[w] = "exited" /\ disk'[w].clean = FALSE
<1>1. /\ Over(disk, Node) /\ \A w \in Node : Over(disk[w], Files)
      /\ Over(todo, Node) /\ \A w \in Node : Harmless(todo[w]) /\ child \in [Node -> ChildStates]
  BY DEF NoticeInv
<1>2. ASSUME NEW writes, Does(v, writes), Harmless(writes)
      PROVE  /\ UNCHANGED <<disk, child>> /\ Over(todo', Node) /\ \A w \in Node : Harmless(todo'[w])
  <2>1. UNCHANGED <<disk, child>> /\ todo' = [todo EXCEPT ![v] = writes]
    BY <1>2 DEF Does
  <2> QED BY <1>1, <1>2, <2>1 DEF Over
<1>3. ASSUME NEW b \in Blocks, ExtendChain(v, b) PROVE \E writes : Does(v, writes) /\ Harmless(writes)
  <2> DEFINE c == Append(disk[v].blocks, b)
             writes == <<Set("blocks", c)>> \o Rewrite("snapshot", c)
  <2>1. Does(v, writes)
    BY <1>3 DEF ExtendChain
  <2> HIDE DEF c
  <2>2. Harmless(<<Set("blocks", c)>>) /\ Harmless(Rewrite("snapshot", c))
    BY WritesHarmless DEF Files
  <2>3. Harmless(writes)
    BY <2>2, HarmlessConcat
  <2> QED BY <2>1, <2>3
<1>4. ASSUME NEW c \in Chain, ReplaceChain(v, c) PROVE \E writes : Does(v, writes) /\ Harmless(writes)
  <2> DEFINE lines == [k \in 1 .. Len(c) + 1 |-> Set("blocks", SubSeq(c, 1, k - 1))]
             writes == Rewrite("snapshot", c) \o lines
  <2>1. Does(v, writes)
    BY <1>4 DEF ReplaceChain
  <2>2. Len(c) \in Nat
    <3>1. PICK k \in 0 .. MaxHeight : c \in [1 .. k -> Blocks]
      BY DEF Chain
    <3>2. k \in Nat
      BY DEF SimulatorAssumption
    <3>3. c \in Seq(Blocks)
      BY <3>1, <3>2
    <3> QED BY <3>3
  <2>3. Harmless(lines)
    <3> DEFINE W == {Set("blocks", SubSeq(c, 1, k - 1)) : k \in 1 .. Len(c) + 1}
    <3>1. \A w \in W : w.file \in Files \ {"clean"}
      BY DEF Set, Files
    <3>2. lines \in [1 .. Len(c) + 1 -> W]
      OBVIOUS
    <3> HIDE DEF W, lines
    <3>3. lines \in Seq(W)
      BY <2>2, <3>2
    <3> QED BY <3>1, <3>3 DEF Harmless
  <2> HIDE DEF lines
  <2>4. Harmless(writes)
    <3>1. Harmless(Rewrite("snapshot", c))
      BY WritesHarmless DEF Files
    <3> QED BY <2>3, <3>1, HarmlessConcat
  <2> QED BY <2>1, <2>4
<1>5. ASSUME NEW m \in Metrics, PutMetrics(v, m) PROVE \E writes : Does(v, writes) /\ Harmless(writes)
  <2>1. Harmless(Rewrite("metrics", m))
    BY WritesHarmless DEF Files
  <2> QED BY <1>5, <2>1 DEF PutMetrics
<1>6. CASE \E writes : Does(v, writes) /\ Harmless(writes)
  BY <1>1, <1>2, <1>6
<1>7. CASE Write(v)
  <2> DEFINE q == todo[v]
             f == Head(q).file
             x == Head(q).value
             d == [disk[v] EXCEPT ![f] = x]
  <2>1. /\ q # <<>> /\ disk' = [disk EXCEPT ![v] = d] /\ todo' = [todo EXCEPT ![v] = Tail(q)]
        /\ UNCHANGED child
    BY <1>7 DEF Write
  <2>2. PICK W : q \in Seq(W) /\ \A w \in W : w.file \in Files \ {"clean"}
    BY <1>1 DEF Harmless
  <2>3. f \in Files \ {"clean"} /\ Tail(q) \in Seq(W)
    <3>1. Head(q) \in W /\ Tail(q) \in Seq(W)
      <4> HIDE DEF q
      <4> QED BY <2>1, <2>2, HeadTailProperties
    <3> QED BY <2>2, <3>1
  <2>4. Harmless(Tail(q))
    BY <2>2, <2>3 DEF Harmless
  <2> HIDE DEF q, f, x
  <2>5. Over(d, Files) /\ d.clean = disk[v].clean
    <3>1. Over(disk[v], Files)
      BY <1>1
    <3> QED BY <2>3, <3>1 DEF Over, Files
  <2> HIDE DEF d
  <2>6. disk' = [w \in Node |-> IF w = v THEN d ELSE disk[w]]
    BY <1>1, <2>1 DEF Over
  <2>7. todo' = [w \in Node |-> IF w = v THEN Tail(q) ELSE todo[w]]
    BY <1>1, <2>1 DEF Over
  <2>8. Over(disk', Node) /\ Over(todo', Node)
    BY <2>6, <2>7 DEF Over
  <2> QED BY <1>1, <2>1, <2>4, <2>5, <2>6, <2>7, <2>8
<1>8. CASE Crash(v)
  <2> DEFINE d == [disk[v] EXCEPT !.clean = FALSE]
  <2>1. /\ disk' = [disk EXCEPT ![v] = d] /\ todo' = [todo EXCEPT ![v] = <<>>]
        /\ child' = [child EXCEPT ![v] = "exited"]
    BY <1>8 DEF Crash
  <2>2. Over(d, Files) /\ d.clean = FALSE
    <3>1. Over(disk[v], Files)
      BY <1>1
    <3> QED BY <3>1 DEF Over, Files
  <2> HIDE DEF d
  <2>3. Harmless(<<>>)
    <3>1. "blocks" \in Files \ {"clean"}
      BY DEF Files
    <3> QED BY <3>1, WritesHarmless
  <2>4. disk' = [w \in Node |-> IF w = v THEN d ELSE disk[w]]
    BY <1>1, <2>1 DEF Over
  <2>5. todo' = [w \in Node |-> IF w = v THEN <<>> ELSE todo[w]]
    BY <1>1, <2>1 DEF Over
  <2>6. Over(disk', Node) /\ Over(todo', Node)
    BY <2>4, <2>5 DEF Over
  <2> QED BY <1>1, <2>1, <2>2, <2>3, <2>4, <2>5, <2>6
<1>9. CASE Stop(v)
  BY <1>1, <1>9 DEF Stop
<1> QED BY <1>3, <1>4, <1>5, <1>6, <1>7, <1>8, <1>9 DEF NodeStep

\* What the runner reads keeps the invariant of the report.
LEMMA ReadKept ==
    ASSUME SimulatorAssumption, ReadInv(reading), NEW v \in Node,
           \A w \in reading.dead : disk[w].clean = FALSE,
           ReadMetrics(v) \/ ReadBlocks(v) \/ ReadSnapshot(v)
    PROVE  ReadInv(reading') /\ reading'.dead = reading.dead
<1> DEFINE r == reading
           new == reading'
<1>1. /\ Over(r, Fields) /\ r.at \in Nat /\ r.at >= 1 /\ r.dead \subseteq Node
      /\ Over(r.nodes, Begun(r.at)) /\ \A w \in Begun(r.at) : Over(r.nodes[w], Entries)
      /\ \A w \in r.dead : Nodes + 2 * w < r.at => r.nodes[w].clean = FALSE
  BY DEF ReadInv
<1>2. Nodes \in Nat /\ Node \subseteq Nat /\ v \in Nat /\ v >= 1 /\ v <= Nodes /\ \A w \in Node : w >= 1
  BY DEF Node, SimulatorAssumption
<1>3. ASSUME ReadMetrics(v) PROVE ReadInv(new) /\ new.dead = r.dead
  <2>1. Over(new, Fields) /\ new.at = r.at + 1 /\ new.dead = r.dead /\ new.nodes = r.nodes /\ r.at = v
    BY <1>1, <1>3 DEF ReadMetrics, Over, Fields
  <2> HIDE DEF new
  <2>2. \A w \in Node : ~(Nodes + 2 * w - 1 < r.at) /\ ~(Nodes + 2 * w - 1 < new.at) /\ ~(Nodes + 2 * w < new.at)
    BY <1>1, <1>2, <2>1
  <2>3. Begun(new.at) = Begun(r.at)
    BY <2>2 DEF Begun
  <2> QED BY <1>1, <2>1, <2>2, <2>3 DEF ReadInv
<1>4. ASSUME ReadBlocks(v) PROVE ReadInv(new) /\ new.dead = r.dead
  <2> DEFINE e == [chain |-> disk[v].blocks, linked |-> TRUE, tip |-> None, clean |-> TRUE]
  <2>1. /\ Over(new, Fields) /\ new.at = r.at + 1 /\ new.dead = r.dead /\ r.at = Nodes + 2 * v - 1
        /\ new.nodes = With(r.nodes, v, e)
    BY <1>1, <1>4 DEF ReadBlocks, Over, Fields
  <2>2. Over(e, Entries)
    BY DEF Over, Entries
  <2> HIDE DEF new, e
  <2>3. \A w \in Node : /\ Nodes + 2 * w - 1 < new.at <=> (w = v \/ Nodes + 2 * w - 1 < r.at)
                        /\ Nodes + 2 * w < new.at => Nodes + 2 * w < r.at /\ w # v
    BY <1>1, <1>2, <2>1
  <2>4. Begun(new.at) = Begun(r.at) \cup {v}
    BY <2>3 DEF Begun
  <2>5. DOMAIN r.nodes = Begun(r.at)
    BY <1>1 DEF Over
  <2>6. new.nodes = [w \in Begun(new.at) |-> IF w = v THEN e ELSE r.nodes[w]]
    BY <2>1, <2>4, <2>5 DEF With
  <2>7. Over(new.nodes, Begun(new.at)) /\ \A w \in Begun(new.at) : Over(new.nodes[w], Entries)
    BY <1>1, <2>2, <2>4, <2>6 DEF Over
  <2>8. \A w \in r.dead : Nodes + 2 * w < new.at => new.nodes[w].clean = FALSE
    <3>1. \A w \in Node : Nodes + 2 * w < r.at => Nodes + 2 * w - 1 < r.at
      BY <1>1, <1>2
    <3> QED BY <1>1, <2>3, <2>4, <2>6, <3>1 DEF Begun
  <2>9. new.at \in Nat /\ new.at >= 1
    BY <1>1, <2>1
  <2> QED BY <1>1, <2>1, <2>7, <2>8, <2>9 DEF ReadInv
<1>5. ASSUME ReadSnapshot(v) PROVE ReadInv(new) /\ new.dead = r.dead
  <2> DEFINE e == [r.nodes[v] EXCEPT !.tip = disk[v].snapshot, !.clean = disk[v].clean]
             n == [r.nodes EXCEPT ![v].tip = disk[v].snapshot, ![v].clean = disk[v].clean]
  <2>1. /\ Over(new, Fields) /\ new.at = r.at + 1 /\ new.dead = r.dead /\ new.nodes = n
        /\ r.at = Nodes + 2 * v
    <3> DEFINE t == disk[v].snapshot
               c == disk[v].clean
               b == disk[v].snapshot = Torn
    <3>1. new = [r EXCEPT !.at = @ + 1, !.failed = b, !.nodes[v].tip = t, !.nodes[v].clean = c]
      BY <1>5 DEF ReadSnapshot
    <3>2. r.at = Nodes + 2 * v
      BY <1>5 DEF ReadSnapshot
    <3>3. Over(r, Fields)
      BY <1>1
    <3>4. n = [r.nodes EXCEPT ![v].tip = t, ![v].clean = c]
      OBVIOUS
    <3> HIDE DEF r, new, t, c, b, n
    <3>5. Over(new, Fields) /\ new.at = r.at + 1 /\ new.dead = r.dead
      BY <3>1, <3>3 DEF Over, Fields
    <3>6. new.nodes = [r.nodes EXCEPT ![v].tip = t, ![v].clean = c]
      BY <3>1, <3>3 DEF Over, Fields
    <3> QED BY <3>2, <3>4, <3>5, <3>6
  <2>2. v \in Begun(r.at) /\ DOMAIN r.nodes = Begun(r.at)
    <3>1. Nodes + 2 * v - 1 < r.at
      BY <1>2, <2>1
    <3> QED BY <1>1, <3>1 DEF Begun, Over
  <2>3. n = [w \in Begun(r.at) |-> IF w = v THEN e ELSE r.nodes[w]]
    <3>1. Over(r.nodes, Begun(r.at)) /\ Over(r.nodes[v], Entries)
      BY <1>1, <2>2
    <3> HIDE DEF r
    <3> QED BY <2>2, <3>1 DEF Over, Entries
  <2>4. Over(e, Entries) /\ e.clean = disk[v].clean
    <3>1. Over(r.nodes[v], Entries)
      BY <1>1, <2>2
    <3> QED BY <3>1 DEF Over, Entries
  <2> HIDE DEF e, n, new
  <2>5. \A w \in Node : /\ Nodes + 2 * w - 1 < new.at <=> Nodes + 2 * w - 1 < r.at
                        /\ Nodes + 2 * w < new.at => w = v \/ Nodes + 2 * w < r.at
    BY <1>1, <1>2, <2>1
  <2>6. Begun(new.at) = Begun(r.at)
    BY <2>5 DEF Begun
  <2>7. new.nodes = [w \in Begun(new.at) |-> IF w = v THEN e ELSE r.nodes[w]]
    BY <2>1, <2>3, <2>6
  <2>8. Over(new.nodes, Begun(new.at))
    BY <2>7 DEF Over
  <2>9. \A w \in Begun(new.at) : Over(new.nodes[w], Entries)
    BY <1>1, <2>4, <2>6, <2>7
  <2>10. \A w \in r.dead : Nodes + 2 * w < new.at => new.nodes[w].clean = FALSE
    <3>1. \A w \in Node : Nodes + 2 * w < new.at => Nodes + 2 * w - 1 < new.at
      BY <1>1, <1>2, <2>1
    <3> QED BY <1>1, <2>4, <2>5, <2>7, <3>1 DEF Begun
  <2>11. new.at \in Nat /\ new.at >= 1
    BY <1>1, <2>1
  <2> QED BY <1>1, <2>1, <2>8, <2>9, <2>10, <2>11 DEF ReadInv
<1> QED BY <1>3, <1>4, <1>5

\* A reading starts with the nodes that have crashed so far.
LEMMA ReadStarts ==
    ASSUME SimulatorAssumption, NEW last, StartReading(last)
    PROVE  ReadInv(reading') /\ reading'.dead = {v \in Node : child[v] = "exited"}
<1> DEFINE new == reading'
<1>1. /\ Over(new, Fields) /\ new.at = 1 /\ new.dead = {v \in Node : child[v] = "exited"}
      /\ new.nodes = NoFunction
  BY DEF StartReading, Over, Fields
<1> HIDE DEF new
<1>2. \A v \in Node : ~(Nodes + 2 * v - 1 < 1) /\ ~(Nodes + 2 * v < 1)
  BY DEF Node, SimulatorAssumption
<1>3. Begun(new.at) = {}
  BY <1>1, <1>2 DEF Begun
<1>4. Over(NoFunction, {})
  BY DEF Over, NoFunction
<1> QED BY <1>1, <1>2, <1>3, <1>4 DEF ReadInv, new

\* A reading that is done without failing is complete.
LEMMA ReadComplete ==
    ASSUME SimulatorAssumption, ReadInv(reading), ReadDone, ~reading.failed
    PROVE  Marked(reading)
<1>1. reading.at \in Nat /\ reading.at > 3 * Nodes
  BY DEF ReadInv, ReadDone
<1>2. \A v \in Node : Nodes + 2 * v - 1 < reading.at /\ Nodes + 2 * v < reading.at
  BY <1>1 DEF Node, SimulatorAssumption
<1>3. Begun(reading.at) = Node
  BY <1>2 DEF Begun
<1> QED BY <1>2, <1>3 DEF ReadInv, Marked, Over


\* Every step keeps the invariant.
LEMMA NoticeStep ==
    ASSUME SimulatorAssumption, NoticeInv, [Next]_vars
    PROVE  NoticeInv'
<1> DEFINE Ending == phase \in {"interrupt", "wait"} /\ outcome # "error"
           Live   == phase \in {"spawn", "run", "read"}
<1>1. /\ child \in [Node -> ChildStates]
      /\ Over(disk, Node) /\ \A v \in Node : Over(disk[v], Files)
      /\ Over(todo, Node) /\ \A v \in Node : Harmless(todo[v])
      /\ Live => \A v \in Node : /\ child[v] \in {"none", "running", "exited"}
                                 /\ child[v] = "exited" => disk[v].clean = FALSE
      /\ phase = "read" => ReadInv(reading) /\ \A v \in reading.dead : disk[v].clean = FALSE
      /\ Ending => Marked(reading)
      /\ \E R : results \in Seq(R)
      /\ \A i \in DOMAIN results : Marked(results[i])
  BY DEF NoticeInv
<1>2. Harmless(<<>>) /\ Over(Fresh, Files)
  <2>1. "blocks" \in Files \ {"clean"}
    BY DEF Files
  <2>2. Harmless(<<>>)
    BY <2>1, WritesHarmless
  <2>3. Over(Fresh, Files)
    BY DEF Over, Fresh, Files
  <2> QED BY <2>2, <2>3
<1>3. ASSUME NEW v \in Node, NodeStep(v) PROVE NoticeInv'
  <2>1. /\ UNCHANGED <<phase, index, load, abuse, reading, polls, outcome, results>>
        /\ child' \in [Node -> ChildStates]
    BY <1>1, <1>3, NodeStepMoves
  <2>2. /\ Over(disk', Node) /\ \A w \in Node : Over(disk'[w], Files)
        /\ Over(todo', Node) /\ \A w \in Node : Harmless(todo'[w])
        /\ \A w \in Node : disk[w].clean = FALSE => disk'[w].clean = FALSE
        /\ \A w \in Node : child'[w] # child[w] =>
                \/ child[w] = "interrupted"
                \/ child'[w] = "exited" /\ disk'[w].clean = FALSE
    BY <1>3, NodeStepNotice
  <2>3. (phase \in {"spawn", "run", "read"} => \A w \in Node :
            /\ child[w] \in {"none", "running", "exited"}
            /\ child[w] = "exited" => disk[w].clean = FALSE)'
    BY <1>1, <2>1, <2>2
  <2>4. (phase = "read" => ReadInv(reading) /\ \A w \in reading.dead : disk[w].clean = FALSE)'
    BY <1>1, <2>1, <2>2 DEF ReadInv
  <2>5. (phase \in {"interrupt", "wait"} /\ outcome # "error" => Marked(reading))'
    BY <1>1, <2>1
  <2> QED BY <1>1, <2>1, <2>2, <2>3, <2>4, <2>5 DEF NoticeInv
<1>4. CASE InitLocalnet
  <2>1. /\ phase' = "spawn" /\ child' = [v \in Node |-> "none"] /\ disk' = [v \in Node |-> Fresh]
        /\ todo' = [v \in Node |-> <<>>] /\ results' = results
    BY <1>4 DEF InitLocalnet
  <2>2. Over(disk', Node) /\ Over(todo', Node) /\ child' \in [Node -> ChildStates]
    BY <2>1 DEF Over, ChildStates
  <2>3. \A v \in Node : Over(disk'[v], Files) /\ Harmless(todo'[v]) /\ child'[v] = "none"
    BY <1>2, <2>1
  <2> QED BY <1>1, <2>1, <2>2, <2>3 DEF NoticeInv
<1>5. ASSUME NEW v \in Node, SpawnNode(v) PROVE NoticeInv'
  <2>1. /\ phase = "spawn" /\ phase' \in {"spawn", "run"} /\ UNCHANGED <<disk, todo, results>>
        /\ child' = [child EXCEPT ![v] = "running"]
    BY <1>5 DEF SpawnNode
  <2>2. child' \in [Node -> ChildStates]
    BY <1>1, <2>1 DEF ChildStates
  <2>3. \A w \in Node : /\ child'[w] \in {"none", "running", "exited"}
                        /\ child'[w] = "exited" => disk'[w].clean = FALSE
    BY <1>1, <2>1
  <2> QED BY <1>1, <2>1, <2>2, <2>3 DEF NoticeInv
<1>6. CASE SpawnFails
  BY <1>1, <1>6 DEF SpawnFails, NoticeInv, nodeVars
<1>7. CASE LoadStart \/ LoadEnd \/ AbuseEnd
  <2>1. phase = "run" /\ phase' = "run" /\ UNCHANGED <<child, disk, todo, results>>
    BY <1>7 DEF LoadStart, LoadEnd, AbuseEnd, nodeVars
  <2> QED BY <1>1, <2>1 DEF NoticeInv
<1>8. ASSUME Live, StartReading(TRUE) \/ StartReading(FALSE), phase' = "read",
             UNCHANGED <<child, disk, todo, results>>
      PROVE  NoticeInv'
  <2>1. ReadInv(reading') /\ reading'.dead = {v \in Node : child[v] = "exited"}
    BY <1>8, ReadStarts
  <2> QED BY <1>1, <1>8, <2>1 DEF NoticeInv
<1>9. ASSUME Live, phase' = "interrupt", outcome' # "error" => Marked(reading'),
             UNCHANGED <<child, disk, todo, results>>
      PROVE  NoticeInv'
  BY <1>1, <1>9 DEF NoticeInv
<1>10. CASE Joined
  <2>1. CASE load = "failed"
    <3>1. Live /\ phase' = "interrupt" /\ outcome' = "error" /\ UNCHANGED <<child, disk, todo, results>>
      BY <1>10, <2>1 DEF Joined, EndRun, nodeVars
    <3> QED BY <1>9, <3>1
  <2>2. CASE load # "failed"
    <3>1. Live /\ StartReading(FALSE) /\ phase' = "read" /\ UNCHANGED <<child, disk, todo, results>>
      BY <1>10, <2>2 DEF Joined, nodeVars
    <3> QED BY <1>8, <3>1
  <2> QED BY <2>1, <2>2
<1>11. ASSUME NEW v \in Node, ReadMetrics(v) \/ ReadBlocks(v) \/ ReadSnapshot(v) PROVE NoticeInv'
  <2>1. phase = "read" /\ phase' = "read" /\ UNCHANGED <<child, disk, todo, results>>
    BY <1>11 DEF ReadMetrics, ReadBlocks, ReadSnapshot, nodeVars
  <2>2. ReadInv(reading') /\ reading'.dead = reading.dead
    BY <1>1, <1>11, <2>1, ReadKept
  <2> QED BY <1>1, <2>1, <2>2 DEF NoticeInv
<1>12. CASE Sleep \/ Deadline
  <2>1. /\ Live /\ (StartReading(TRUE) \/ StartReading(FALSE))
        /\ phase' = "read" /\ UNCHANGED <<child, disk, todo, results>>
    BY <1>12 DEF Sleep, Deadline, ReadDone, nodeVars
  <2> QED BY <1>8, <2>1
<1>13. CASE Settled \/ LastReading
  <2>1. /\ Live /\ phase = "read" /\ phase' = "interrupt" /\ UNCHANGED <<reading, child, disk, todo, results>>
        /\ ReadDone /\ (outcome' # "error" => ~reading.failed)
    BY <1>13 DEF Settled, LastReading, EndRun, ReadDone, Met, nodeVars
  <2>2. outcome' # "error" => Marked(reading')
    BY <1>1, <2>1, ReadComplete
  <2> QED BY <1>9, <2>1, <2>2
<1>14. CASE InterruptAll
  <2>1. /\ phase = "interrupt" /\ phase' = "wait" /\ UNCHANGED <<disk, todo, reading, outcome, results>>
        /\ child' = [v \in Node |-> IF child[v] = "running" THEN "interrupted" ELSE child[v]]
    BY <1>14 DEF InterruptAll
  <2>2. child' \in [Node -> ChildStates]
    BY <1>1, <2>1 DEF ChildStates
  <2> QED BY <1>1, <2>1, <2>2 DEF NoticeInv
<1>15. ASSUME NEW v \in Node, WaitChild(v) \/ KillChild(v) PROVE NoticeInv'
  <2>1. /\ phase = "wait" /\ phase' = "wait" /\ UNCHANGED <<disk, reading, outcome, results>>
        /\ child' = [child EXCEPT ![v] = "reaped"]
        /\ todo' = todo \/ todo' = [todo EXCEPT ![v] = <<>>]
    BY <1>15 DEF WaitChild, KillChild, Turn
  <2>2. child' \in [Node -> ChildStates]
    BY <1>1, <2>1 DEF ChildStates
  <2>3. Over(todo', Node) /\ \A w \in Node : Harmless(todo'[w])
    BY <1>1, <1>2, <2>1 DEF Over
  <2> QED BY <1>1, <2>1, <2>2, <2>3 DEF NoticeInv
<1>16. CASE Record
  <2>1. phase = "wait" /\ UNCHANGED <<child, disk, todo, reading, outcome>>
    BY <1>16 DEF Record, nodeVars
  <2>2. CASE outcome = "error"
    <3>1. phase' = "aborted" /\ results' = results
      BY <1>16, <2>2 DEF Record
    <3> QED BY <1>1, <2>1, <3>1 DEF NoticeInv
  <2>3. CASE outcome # "error"
    <3> DEFINE x == [scores |-> reading.scores, nodes |-> reading.nodes, dead |-> reading.dead]
    <3>1. results' = Append(results, x) /\ phase' \in {"done", "init"}
      BY <1>16, <2>3 DEF Record
    <3>2. Marked(x)
      BY <1>1, <2>1, <2>3 DEF Marked
    <3> HIDE DEF x
    <3>3. PICK R : results \in Seq(R)
      BY <1>1
    <3>4. results \in Seq(R \cup {x})
      BY <3>3
    <3>5. /\ results' \in Seq(R \cup {x})
          /\ \A i \in DOMAIN results' : (i \in DOMAIN results /\ results'[i] = results[i]) \/ results'[i] = x
      BY <3>1, <3>4, AppendProperties
    <3>6. \A i \in DOMAIN results' : Marked(results'[i])
      BY <1>1, <3>2, <3>5
    <3> QED BY <1>1, <2>1, <3>1, <3>5, <3>6 DEF NoticeInv
  <2> QED BY <2>2, <2>3
<1>17. CASE UNCHANGED vars
  BY <1>1, <1>17 DEF vars, NoticeInv
<1> QED BY <1>3, <1>4, <1>5, <1>6, <1>7, <1>10, <1>11, <1>12, <1>13, <1>14, <1>15, <1>16, <1>17
        DEF Next, Runner

\* A scenario passes only if no node had crashed before its reports were read, although
\* the runner never asks whether the processes still run: the line a crash leaves on
\* stderr is in every report begun later (build_structural_report).
THEOREM CrashesAlwaysNoticed ==
    ASSUME SimulatorAssumption
    PROVE  Spec => []CrashesNoticed
<1>1. Init => NoticeInv
  <2> SUFFICES ASSUME Init PROVE NoticeInv
    OBVIOUS
  <2>1. "blocks" \in Files \ {"clean"} /\ Over(Fresh, Files)
    BY DEF Files, Over, Fresh
  <2>2. Harmless(<<>>)
    BY <2>1, WritesHarmless
  <2>3. /\ child = [v \in Node |-> "none"] /\ disk = [v \in Node |-> Fresh]
        /\ todo = [v \in Node |-> <<>>] /\ phase = "init" /\ results = <<>>
    BY DEF Init
  <2>4. child \in [Node -> ChildStates] /\ Over(disk, Node) /\ Over(todo, Node)
    BY <2>3 DEF ChildStates, Over
  <2>5. \A v \in Node : Over(disk[v], Files) /\ Harmless(todo[v])
    BY <2>1, <2>2, <2>3
  <2>6. results \in Seq({}) /\ DOMAIN results = {}
    BY <2>3
  <2> QED BY <2>3, <2>4, <2>5, <2>6 DEF NoticeInv
<1>2. NoticeInv /\ [Next]_vars => NoticeInv'
  BY NoticeStep
<1>3. NoticeInv => CrashesNoticed
  <2> SUFFICES ASSUME NoticeInv, NEW i \in DOMAIN results,
                      Passed(Scenarios[i], results[i].scores, results[i].nodes)
               PROVE  results[i].dead = {}
    BY DEF CrashesNoticed
  <2>1. Marked(results[i])
    BY DEF NoticeInv
  <2>2. \A v \in DOMAIN results[i].nodes : results[i].nodes[v].clean
    BY DEF Passed, Structural, AllStderrClean
  <2> QED BY <2>1, <2>2 DEF Marked
<1> QED BY <1>1, <1>2, <1>3, PTL DEF Spec

-----------------------------------------------------------------------------
(* Reports.                                                                 *)

\* Whatever chain the count is taken of, a node on another chain is not counted.
LEMMA ForkMissesNode ==
    ASSUME NEW nodes, IsFiniteSet(DOMAIN nodes), NEW v \in DOMAIN nodes, NEW w \in DOMAIN nodes,
           nodes[v].chain # nodes[w].chain
    PROVE  SameChainCount(nodes) # Cardinality(DOMAIN nodes)
<1> DEFINE longest == Max({Len(nodes[u].chain) : u \in DOMAIN nodes})
           last == Max({u \in DOMAIN nodes : Len(nodes[u].chain) = longest})
           same == {u \in DOMAIN nodes : nodes[u].chain = nodes[last].chain}
<1>1. SameChainCount(nodes) = Cardinality(same)
  BY DEF SameChainCount
<1> HIDE DEF last
<1>2. same \in SUBSET DOMAIN nodes /\ same # DOMAIN nodes
  OBVIOUS
<1> HIDE DEF same
<1> QED BY <1>1, <1>2, FS_Subset

\* In a report of any number of nodes and on any scenario, two nodes on different chains
\* fail the scenario, and fail it as a fork and not as a matter of scores, whatever the
\* scores say (build_structural_report, MatrixScenarioResult::passed, failure_signal).
THEOREM ForksAlwaysSignalled ==
    ASSUME NEW s, NEW scores, NEW events,
           NEW nodes, IsFiniteSet(DOMAIN nodes), NEW v \in DOMAIN nodes, NEW w \in DOMAIN nodes,
           nodes[v].chain # nodes[w].chain
    PROVE  /\ ~Passed(s, scores, nodes)
           /\ FailureSignal(s, scores, nodes, events) = "sync/fork"
<1>1. SameChainCount(nodes) # Cardinality(DOMAIN nodes)
  BY ForkMissesNode
<1>2. ~Passed(s, scores, nodes)
  BY <1>1 DEF Passed, Structural
<1> QED BY <1>1, <1>2 DEF FailureSignal
=============================================================================
