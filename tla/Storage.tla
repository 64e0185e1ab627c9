------------------------------ MODULE Storage ------------------------------
(***************************************************************************)
(* The files of a node and what a restart makes of them.  An event changes *)
(* memory and writes files one after the other; the process may be killed  *)
(* between two system calls of a write, or in the middle of one.           *)
(*                                                                         *)
(* A JSONL file is a sequence of lines <<kind, value>>: a whole "line", a  *)
(* "bare" one whose newline is missing, a "torn" one that breaks off, or   *)
(* what appending to a bare line ("glued") or a torn one gives: "fused",   *)
(* or "frayed" if it breaks off again.  orphan_path, the log and the       *)
(* metrics are written but never loaded, and are left out.                 *)
(***************************************************************************)
EXTENDS BlockTree, SequencesExt

CONSTANTS
    Receipt,      \* relay receipts that may be stored
    MaxStops      \* bound: how often the process ends

ASSUME StorageAssumption == MaxStops \in Nat

VARIABLES
    state,        \* "up", "down" or "dead": run_node returned an error
    blocks,       \* self.blocks
    tip,          \* tip_hash of self.ledger
    qcs,          \* the blocks with a certificate in quorum_certificates
    receipts,     \* self.receipts
    disk,         \* the contents of each JSONL file
    snapshot,     \* the state snapshot's tip, Missing, or Torn if it does not parse
    writes,       \* the writes the running event still has to do
    stops,        \* how often the process has ended
    killed        \* history: it was killed at least once

memory == <<blocks, tip, qcs, receipts>>
files  == <<disk, snapshot>>
ends   == <<stops, killed>>
stored == <<state, memory, files, writes, ends>>

Missing == -1
Torn    == -2

Logs == {"blocks", "qcs", "receipts"}
Kinds == {"line", "bare", "torn", "fused", "frayed", "glued"}
Line  == Kinds \X (Blocks \cup Receipt)

\* What the lines of a log hold, and the snapshot.
Value(f) ==
    CASE f = "receipts" -> Receipt
      [] f = "snapshot" -> Blocks \cup {Genesis}
      [] OTHER -> Blocks

Write ==
         [op : {"create"}, file : Logs \cup {"snapshot"}, value : {Genesis}]
    \cup UNION {[op : {"append"}, file : {f}, value : Value(f)] : f \in Logs \cup {"snapshot"}}

\* Types; in particular the tip that run_node replays or restores is a block, never the
\* contents of a missing or torn snapshot file (load_snapshot).
StorageTypeOK ==
    /\ state \in {"up", "down", "dead"}
    /\ blocks \in Seq(Blocks)
    /\ tip \in Blocks \cup {Genesis}
    /\ qcs \subseteq Blocks
    /\ receipts \subseteq Receipt
    /\ disk \in [Logs -> Seq(Line)]
    /\ \A f \in Logs : \A i \in DOMAIN disk[f] : disk[f][i][2] \in Value(f)
    /\ snapshot \in Blocks \cup {Genesis, Missing, Torn}
    /\ writes \in Seq(Write)
    /\ stops \in 0 .. MaxStops
    /\ killed \in BOOLEAN

\* The blocks of the chain ending in t, in order.
ChainSeq(t) == [i \in 1 .. BlockNumber(t) |-> CHOOSE b \in Chain[t] : BlockNumber(b) = i]

-----------------------------------------------------------------------------
(* Writing.                                                                 *)

Create(f)    == [op |-> "create", file |-> f, value |-> Genesis]
Append1(f, v) == [op |-> "append", file |-> f, value |-> v]

\* append_json_line opens for appending: no newline is put before the value.  The
\* line that results is whole, or `kind` when the process is killed within it.
WithLine(lines, v, kind) ==
    LET end == IF lines = <<>> THEN "line" ELSE Last(lines)[1]
        onTorn == IF kind = "line" THEN "fused" ELSE "frayed"
    IN  CASE end = "bare" -> Front(lines) \o << <<"glued", v>> >>
          [] end \in {"torn", "frayed"} -> Front(lines) \o << <<onTorn, v>> >>
          [] OTHER -> lines \o << <<kind, v>> >>

\* overwrite_json_lines empties the file and writes line by line; fs::write of the
\* snapshot empties it and writes once.
Overwrite(f, vs) == <<Create(f)>> \o [i \in DOMAIN vs |-> Append1(f, vs[i])]
WriteSnapshot(t) == Overwrite("snapshot", <<t>>)

\* The next write of the running event takes place.
DoWrite ==
    LET w == Head(writes)
    IN  /\ state = "up"
        /\ writes # <<>>
        /\ writes' = Tail(writes)
        /\ IF w.file = "snapshot"
           THEN /\ snapshot' = IF w.op = "create" THEN Torn ELSE w.value
                /\ UNCHANGED disk
           ELSE /\ disk' = [disk EXCEPT ![w.file] =
                               IF w.op = "create" THEN <<>> ELSE WithLine(@, w.value, "line")]
                /\ UNCHANGED snapshot
        /\ UNCHANGED <<state, memory, ends>>

-----------------------------------------------------------------------------
(* Events.                                                                  *)

Ready == state = "up" /\ writes = <<>>

\* accept_block, a block on top of the ledger's tip that is not a known one.
AcceptBlock(b) ==
    /\ Ready
    /\ Parent[b] = tip
    /\ b \notin ToSet(blocks)
    /\ blocks' = Append(blocks, b)
    /\ tip' = b
    /\ writes' = <<Append1("blocks", b)>> \o WriteSnapshot(b)
    /\ UNCHANGED <<state, qcs, receipts, files, ends>>

\* A certificate for a block of the chain is built or imported.
Certify(b) ==
    /\ Ready
    /\ b \in ToSet(blocks) \ qcs
    /\ qcs' = qcs \cup {b}
    /\ writes' = <<Append1("qcs", b)>>
    /\ UNCHANGED <<state, blocks, tip, receipts, files, ends>>

\* adopt_canonical_chain, apply_chain_snapshot and apply_chain_segment write the
\* snapshot, then the blocks, then the certificates.
ChainWrites(t, certified) ==
    WriteSnapshot(t) \o Overwrite("blocks", ChainSeq(t)) \o Overwrite("qcs", SetToSeq(certified))

\* A certificate for a parked child or a fork: appended, then the branch is adopted.
CertifyAndAdopt(b) ==
    /\ Ready
    /\ b \notin ToSet(blocks) \cup qcs
    /\ blocks' = ChainSeq(b)
    /\ tip' = b
    /\ qcs' = qcs \cup {b}
    /\ writes' = <<Append1("qcs", b)>> \o ChainWrites(b, qcs \cup {b})
    /\ UNCHANGED <<state, receipts, files, ends>>

\* Another branch replaces the chain: an uncertified reorganisation keeps every
\* certificate, a sync payload those of its own blocks.
ReplaceChain(t) ==
    /\ Ready
    /\ t # tip
    /\ \E certified \in {qcs, qcs \cap Chain[t]} :
          /\ qcs' = certified
          /\ writes' = ChainWrites(t, certified)
    /\ blocks' = ChainSeq(t)
    /\ tip' = t
    /\ UNCHANGED <<state, receipts, files, ends>>

\* persist_receipt.
StoreReceipt(r) ==
    /\ Ready
    /\ r \notin receipts
    /\ receipts' = receipts \cup {r}
    /\ writes' = <<Append1("receipts", r)>>
    /\ UNCHANGED <<state, blocks, tip, qcs, files, ends>>

-----------------------------------------------------------------------------
(* Stopping and starting.  Memory keeps its last value while the node is    *)
(* down, for comparison with what is restored.                              *)

\* handle_shutdown on a signal, between two events, writes the snapshot.
Shutdown ==
    /\ Ready
    /\ stops < MaxStops
    /\ state' = "down"
    /\ stops' = stops + 1
    /\ snapshot' = tip
    /\ UNCHANGED <<memory, disk, writes, killed>>

\* The process is killed before its next write, or within it.
Kill ==
    LET w == Head(writes)
    IN  /\ state = "up"
        /\ stops < MaxStops
        /\ state' = "down"
        /\ stops' = stops + 1
        /\ killed' = TRUE
        /\ writes' = <<>>
        /\ \/ UNCHANGED disk
           \/ /\ writes # <<>> /\ w.op = "append" /\ w.file \in Logs
              /\ \E kind \in {"torn", "bare"} :
                    disk' = [disk EXCEPT ![w.file] = WithLine(@, w.value, kind)]
        /\ UNCHANGED <<memory, snapshot>>

\* load_json_lines: a last line that ends too early is ignored, any other that
\* does not parse is an error.  A glued line has trailing characters; whether a
\* fused one ends too early depends on where it broke off, so it may do either.
LoadMayFail(lines) == \E i \in DOMAIN lines : lines[i][1] \in {"fused", "frayed", "glued"}
LoadMayPass(lines) ==
    \A i \in DOMAIN lines :
        /\ lines[i][1] # "glued"
        /\ lines[i][1] \in {"fused", "frayed", "torn"} => i = Len(lines)

\* Seeded defect: the last line is left out even if it is whole.
LoadedAllButLast(lines) == [i \in 1 .. Len(lines) - 1 |-> lines[i][2]]
\* The values that load_json_lines returns, a last line that ends too early left out.
Loaded(lines) ==
    LET cut == lines # <<>> /\ Last(lines)[1] \in {"torn", "fused", "frayed"}
    IN  [i \in 1 .. Len(lines) - (IF cut THEN 1 ELSE 0) |-> lines[i][2]]

\* replay_blocks of what was loaded, from_genesis if it is not a chain.
ReplayedTip(bs) == IF bs # <<>> /\ bs = ChainSeq(Last(bs)) THEN Last(bs) ELSE Genesis

\* Seeded defect: the last certified block of the file is taken for the tip.
RestoredTipCertified(bs) ==
    LET certified == SelectSeq(bs, LAMBDA b : b \in qcs)
    IN  IF certified = <<>> THEN Genesis ELSE Last(certified)
\* The snapshot's ledger, or a replay when there is none.
RestoredTip(bs) == IF snapshot = Missing THEN ReplayedTip(bs) ELSE snapshot

\* restore_quorum_certificates skips certificates of blocks that are not in the list.
RestoredQcs(bs) == ToSet(Loaded(disk["qcs"])) \cap ToSet(bs)

\* run_node loads every file.
StartNode ==
    LET bs == Loaded(disk["blocks"])
    IN  /\ state = "down"
        /\ \A f \in Logs : LoadMayPass(disk[f])
        /\ snapshot # Torn
        /\ state' = "up"
        /\ blocks' = bs
        /\ tip' = RestoredTip(bs)
        /\ qcs' = RestoredQcs(bs)
        /\ receipts' = ToSet(Loaded(disk["receipts"]))
        /\ UNCHANGED <<files, writes, ends>>

\* ... and ends with an error if a log or the snapshot does not parse.
StartFails ==
    /\ state = "down"
    /\ snapshot = Torn \/ \E f \in Logs : LoadMayFail(disk[f])
    /\ state' = "dead"
    /\ UNCHANGED <<memory, files, writes, ends>>

-----------------------------------------------------------------------------
StorageInit ==
    /\ state = "up"
    /\ blocks = <<>> /\ tip = Genesis /\ qcs = {} /\ receipts = {}
    /\ disk = [f \in Logs |-> <<>>]
    /\ snapshot = Missing
    /\ writes = <<>>
    /\ stops = 0
    /\ killed = FALSE

StorageNext ==
    \/ DoWrite
    \/ \E b \in Blocks : AcceptBlock(b) \/ Certify(b) \/ CertifyAndAdopt(b) \/ ReplaceChain(b)
    \/ \E r \in Receipt : StoreReceipt(r)
    \/ Shutdown \/ Kill \/ StartNode \/ StartFails

StorageSpec == StorageInit /\ [][StorageNext]_stored

-----------------------------------------------------------------------------
(* Properties.                                                              *)

\* The block list and the ledger describe one chain, before and after restarts: the
\* blocks are those of the ledger's tip, in order.
BlocksFormChain == state = "up" => blocks = ChainSeq(tip)

\* Between two events the files hold the block list and the receipts.
DiskMirrorsMemory ==
    Ready =>
        /\ Loaded(disk["blocks"]) = blocks
        /\ ToSet(Loaded(disk["receipts"])) = receipts

\* As long as the process ends in an orderly way, ledger and block list are those of one
\* chain, and between two events the files hold what a restart needs, whatever mixture of
\* append_json_line and overwrite_json_lines produced them (accept_block,
\* adopt_canonical_chain, load_blocks).
FilesFollowChain == ~killed => BlocksFormChain /\ DiskMirrorsMemory

Restarts == state = "down" /\ state' = "up"

\* Without kills a restart takes no certificate of the chain away.  After kills too it
\* brings back no receipt the node did not have and loses at most two: one whose write was
\* interrupted, one that fell on a torn line (restore_quorum_certificates, persist_receipt,
\* load_json_lines).
RestartsKeepState ==
    [][Restarts =>
          /\ ~killed => qcs \cap ToSet(blocks) \subseteq qcs'
          /\ receipts' \subseteq receipts
          /\ Cardinality(receipts \ receipts') <= 2]_stored

=============================================================================
