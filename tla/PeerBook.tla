------------------------------ MODULE PeerBook ------------------------------
(***************************************************************************)
(* What a node keeps about each peer as network events arrive: the window  *)
(* in which it counts the peer's messages, whether the peer was ever heard *)
(* or reached, and in which epochs a session with it failed or succeeded.  *)
(* Time is in units of which Window make PEER_MESSAGE_WINDOW_MILLIS; the   *)
(* clock does not run backwards.                                           *)
(***************************************************************************)
EXTENDS Integers, FiniteSets, FiniteSetsExt

CONSTANTS
    Peers,
    Limit,        \* the limit per window of each rate-limited message class
    Messages,     \* the variants of ProtocolMessage that peers send
    Window,
    Targets,      \* the node's relay targets in each epoch
    ScoreWindow,  \* feature_flags.service_score_window_epochs
    LastTime      \* bound: the time a behaviour lasts

\* classify_peer_message: blocks, votes, answers and heartbeats have no limit.
Unlimited == "none"
ClassOf(message) ==
    CASE message \in {"SyncStatus", "SyncRequest", "CertifiedSyncRequest", "ReceiptFetch"} ->
            "SyncControl"
      [] message = "TransactionBroadcast" -> "TransactionGossip"
      [] message = "RelayReceipt" -> "ReceiptGossip"
      [] OTHER -> Unlimited

ASSUME PeerBookAssumption ==
    /\ IsFiniteSet(Peers)
    /\ \A c \in DOMAIN Limit : Limit[c] \in Nat
    /\ \A m \in Messages : ClassOf(m) \in {Unlimited} \cup DOMAIN Limit
    /\ Window \in Nat \ {0}
    /\ 0 \in DOMAIN Targets /\ DOMAIN Targets \subseteq Nat
    /\ \A e \in DOMAIN Targets : Targets[e] \subseteq Peers
    /\ ScoreWindow \in Nat /\ LastTime \in Nat \ {0}

VARIABLES
    clock,
    window,       \* peer_message_windows: [start, count], start 0 if there is none
    passed,       \* for each peer and class, the messages that passed within the last
                  \* Window: the time, the start of the window and the place in it
    silenced,     \* <<peer, class>> of the messages dropped at this time
    epoch,
    live,         \* known_live_peers
    failures,     \* observed_failed_sessions, <<epoch, peer>> of the node itself
    succeeded,    \* observed_successful_sessions
    reached       \* the <<epoch, peer>> of all sessions that succeeded so far

limiter  == <<window, passed, silenced>>
sessions == <<live, failures, succeeded, reached>>
bookVars == <<clock, epoch, limiter, sessions>>

Classes == DOMAIN Limit
Epochs  == DOMAIN Targets
Fresh   == [start |-> 0, count |-> [c \in Classes |-> 0]]

-----------------------------------------------------------------------------
\* The counter of the class is below its limit.
Allows(w, class) == w.count[class] < Limit[class]

\* Seeded defect: a message at a later time always starts a new window.
WindowAtAnew(w, t) == IF t # w.start THEN [Fresh EXCEPT !.start = t] ELSE w
\* The window a message at time t falls into: a new one if there is none yet, or
\* the old one is over.
WindowAt(w, t) ==
    IF w.start = 0 \/ t - w.start >= Window THEN [Fresh EXCEPT !.start = t] ELSE w

\* handle_protocol_message from peer p: allow_peer_message counts a message of a limited
\* class or drops it.
Receive(p, message) ==
    LET class == ClassOf(message)
        w     == WindowAt(window[p], clock)
    IN  /\ live' = live \cup {p}
        /\ IF class = Unlimited THEN UNCHANGED limiter
           ELSE IF Allows(w, class)
           THEN /\ window' = [window EXCEPT ![p] = [w EXCEPT !.count[class] = @ + 1]]
                /\ passed' = [passed EXCEPT ![p][class] =
                                @ \cup {[time |-> clock, start |-> w.start, place |-> w.count[class] + 1]}]
                /\ UNCHANGED silenced
           ELSE /\ window' = [window EXCEPT ![p] = w]
                /\ silenced' = silenced \cup {<<p, class>>}
                /\ UNCHANGED passed
        /\ UNCHANGED <<clock, epoch, failures, succeeded, reached>>

Elapse ==
    /\ clock < LastTime
    /\ clock' = clock + 1
    /\ passed' = [p \in Peers |-> [c \in Classes |->
                    {m \in passed[p][c] : m.time + Window > clock + 1}]]
    /\ silenced' = {}
    /\ UNCHANGED <<epoch, window, sessions>>

-----------------------------------------------------------------------------
\* record_successful_session: it takes back a failure of the epoch.
RecordSuccess(p) ==
    IF p \in Targets[epoch]
    THEN succeeded' = succeeded \cup {<<epoch, p>>} /\ failures' = failures \ {<<epoch, p>>}
    ELSE UNCHANGED <<succeeded, failures>>

\* handle_network_event of a SessionObserved for an outbound message that counts as
\* service.
OnSessionObserved(p) ==
    /\ live' = live \cup {p}
    /\ reached' = reached \cup {<<epoch, p>>}
    /\ RecordSuccess(p)
    /\ UNCHANGED <<clock, epoch, limiter>>

\* should_record_failed_service_session: of outbound service messages, a drop of the
\* fault profile.
Accountable(kind) == kind = "FaultInjected"

\* should_record_failed_session: a relay target that was heard of before and not reached
\* in this epoch.
RecordsFailure(p) == p \in Targets[epoch] /\ p \in live /\ <<epoch, p>> \notin succeeded

\* record_failed_session.
RecordFailure(p) == failures' = IF RecordsFailure(p) THEN failures \cup {<<epoch, p>>} ELSE failures

\* handle_network_event of a SessionFailed for an outbound service message.
OnSessionFailed(p, kind) ==
    /\ IF Accountable(kind) THEN RecordFailure(p) ELSE UNCHANGED failures
    /\ UNCHANGED <<clock, epoch, limiter, live, succeeded, reached>>

\* The next epoch; refresh_service_scores without consensus_v2 prunes what is older
\* than the score window (prune_penalty_observations).
NextEpoch ==
    LET earliest == Max({epoch - (Max({ScoreWindow, 1}) - 1), 0})
        recent(S) == {s \in S : s[1] >= earliest}
    IN  /\ epoch + 1 \in Epochs
        /\ epoch' = epoch + 1
        /\ failures' = recent(failures)
        /\ succeeded' = recent(succeeded)
        /\ UNCHANGED <<clock, limiter, live, reached>>

\* failed_sessions_for the node itself.
FailedSessions(e) == Cardinality({s \in failures : s[1] = e})

BookInit ==
    /\ clock = 1 /\ epoch = 0
    /\ window = [p \in Peers |-> Fresh]
    /\ passed = [p \in Peers |-> [c \in Classes |-> {}]]
    /\ silenced = {}
    /\ live = {} /\ failures = {} /\ succeeded = {} /\ reached = {}

SessionNext ==
    \/ \E p \in Peers : OnSessionObserved(p)
    \/ \E p \in Peers, kind \in {"FaultInjected", "Transport"} : OnSessionFailed(p, kind)
    \/ NextEpoch

BookNext == Elapse \/ (\E p \in Peers, m \in Messages : Receive(p, m)) \/ SessionNext

BookSpec == BookInit /\ [][BookNext]_bookVars

-----------------------------------------------------------------------------
(***************************************************************************)
(* Properties.                                                             *)
(***************************************************************************)

\* Types: counters never pass their limits and windows do not start in the future
\* (allow_peer_message_in_window).
BookTypeOK ==
    /\ clock \in 1 .. LastTime
    /\ \A p \in Peers :
        /\ window[p].start \in 0 .. clock
        /\ \A c \in Classes : window[p].count[c] \in 0 .. Limit[c]
    /\ failures \cup succeeded \subseteq Epochs \X Peers

\* A peer's bursts are bounded: in no interval as long as a window, wherever it
\* starts, do more than twice the limit pass (allow_peer_message_in_window restarts
\* the count at fixed points, so a burst may straddle two windows).
BurstsBounded ==
    \A p \in Peers, c \in Classes : Cardinality(passed[p][c]) <= 2 * Limit[c]

\* A peer that keeps to the limit loses nothing, whatever it or others send in other
\* classes: a message is dropped only if the class used its limit up within the last
\* window length (allow_peer_message counts per peer and class).
ModestPeersHeard ==
    \A s \in silenced : Cardinality(passed[s[1]][s[2]]) >= Limit[s[2]]

\* The penalty of an epoch counts only relay targets that were not reached in that
\* epoch, in whatever order successes and failures were reported
\* (record_successful_session, record_failed_session, failed_sessions_for).
ReachedNotPenalised ==
    \A e \in Epochs : FailedSessions(e) <= Cardinality({p \in Targets[e] : <<e, p>> \notin reached})

\* Peers are judged by what they do, and the state is well typed: no more than twice the
\* limit passes within a window length, a peer that keeps to the limit of a class loses
\* nothing, and a relay target that was reached in an epoch is not counted as failed in it
\* (allow_peer_message_in_window, record_successful_session, failed_sessions_for).
PeersJudgedFairly ==
    BookTypeOK /\ BurstsBounded /\ ModestPeersHeard /\ ReachedNotPenalised
=============================================================================
