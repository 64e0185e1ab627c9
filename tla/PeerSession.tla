---------------------------- MODULE PeerSession ----------------------------
(***************************************************************************)
(* The transport (entangrid-network): the lanes of some senders to one     *)
(* receiver.  A lane takes one request at a time, keeps a stream between   *)
(* requests, renews it when its session is too old and retries a failed    *)
(* write once.  The receiver admits a limited number of streams, answers   *)
(* the handshake and reads frames until the stream ends or its session is  *)
(* too old.                                                                *)
(*                                                                         *)
(* Each session has a key of its own that both ends hold (KeysFresh and    *)
(* KeysAgree of Credentials), so the key of a stream is its index.  Time   *)
(* is that of one host.                                                    *)
(***************************************************************************)
EXTENDS Integers, Sequences, FiniteSets, SequencesExt

CONSTANTS
    Senders,
    Message,       \* the messages sent; each is sent once, by one sender
    From,          \* the sender of each message
    FaultDropped,  \* the messages the sender's fault profile drops
    Policies,      \* the [encrypt, sender, receiver] a run starts with: whether frames
                   \* are encrypted, and the configured session_ttl_millis of each end
    Omitted,       \* the session_ttl_millis that is left out
    DefaultTtl,    \* DEFAULT_HYBRID_SESSION_TTL_MILLIS
    Capacity,      \* MAX_CONCURRENT_INBOUND_SESSIONS
    Unreachable,   \* whether connecting may fail
    MaxResets,     \* bound: connections that break
    MaxTime        \* bound: the time a behaviour lasts

\* What the constants have to satisfy.
PeerSessionAssumption ==
    /\ From \in [Message -> Senders]
    /\ FaultDropped \subseteq Message
    /\ Capacity \in Nat /\ MaxResets \in Nat /\ MaxTime \in Nat
    /\ DefaultTtl \in Nat \ {0} /\ Omitted \in Int \ Nat
    /\ Unreachable \in BOOLEAN

VARIABLES
    now, resets, policy,
    sent,        \* messages handed to the network
    queue,       \* the requests of each lane's channel
    lane,        \* the worker of each lane
    streams,     \* the connections opened so far, with the receiver's task for each
    received,    \* messages the receiver passed to its node
    observed,    \* messages reported as SessionObserved to the sender's node
    failed       \* messages reported as SessionFailed

vars == <<now, resets, policy, sent, queue, lane, streams, received, observed, failed>>
reports == <<received, observed, failed>>

\* A lane's worker: what it is doing, the message in hand, and the established
\* stream it keeps, 0 for none, with its send counter and time of birth.
Idle(l) == [l EXCEPT !.phase = "idle", !.retried = FALSE]

\* effective_session_ttl_millis; 0 for no expiry.
EffectiveTtl(configured) ==
    IF ~policy.encrypt THEN 0 ELSE IF configured = Omitted THEN DefaultTtl ELSE configured

\* session_is_expired.
Expired(established, configured) ==
    EffectiveTtl(configured) # 0 /\ now - established >= EffectiveTtl(configured)

\* The NetworkEvents: what the node is told about a message.
SessionFailed(m)   == failed' = failed \cup {m} /\ UNCHANGED <<received, observed>>
SessionObserved(m) == observed' = observed \cup {m} /\ UNCHANGED <<received, failed>>
Received(m)        == received' = received \cup {m} /\ UNCHANGED <<observed, failed>>

-----------------------------------------------------------------------------
(***************************************************************************)
(* The sender.                                                             *)
(***************************************************************************)

\* send_to, broadcast and the control variants: the request joins the peer's lane.
Enqueue(m) ==
    /\ m \notin sent
    /\ sent' = sent \cup {m}
    /\ queue' = [queue EXCEPT ![From[m]] = Append(@, m)]
    /\ UNCHANGED <<now, resets, policy, lane, streams, reports>>

\* should_drop hashes the message: one that is dropped is dropped whenever it is sent.
ShouldDrop(m) == m \in FaultDropped

\* The worker takes the next request; the fault profile may drop it.
Take(s) ==
    LET m == Head(queue[s])
    IN  /\ lane[s].phase = "idle" /\ queue[s] # <<>>
        /\ queue' = [queue EXCEPT ![s] = Tail(@)]
        /\ IF ShouldDrop(m)
           THEN SessionFailed(m) /\ UNCHANGED lane
           ELSE /\ lane' = [lane EXCEPT ![s].phase = "send", ![s].msg = m]
                /\ UNCHANGED reports
        /\ UNCHANGED <<now, resets, policy, sent, streams>>

\* The worker drops its stream, if any.
Closed(l, ss) == IF l.id = 0 THEN ss ELSE [ss EXCEPT ![l.id].client = FALSE]

\* The loop of send_message: a stream that is young enough is reused.
Reuse(s) ==
    /\ lane[s].phase = "send"
    /\ lane[s].id # 0 /\ ~Expired(lane[s].established, policy.sender)
    /\ lane' = [lane EXCEPT ![s].phase = "write"]
    /\ UNCHANGED <<now, resets, policy, sent, queue, streams, reports>>

\* Otherwise the worker drops it, connects and writes the client hello.
Connect(s) ==
    /\ lane[s].phase = "send"
    /\ lane[s].id = 0 \/ Expired(lane[s].established, policy.sender)
    /\ streams' = Append(Closed(lane[s], streams),
                    [owner |-> s, client |-> TRUE, server |-> "backlog",
                     wire |-> <<>>, counter |-> 0, established |-> 0])
    /\ lane' = [lane EXCEPT ![s].phase = "handshake", ![s].id = Len(streams) + 1]
    /\ UNCHANGED <<now, resets, policy, sent, queue, reports>>

\* connect_with_retries gives up: send_message fails.
ConnectFails(s) ==
    /\ Unreachable
    /\ lane[s].phase = "send"
    /\ lane[s].id = 0 \/ Expired(lane[s].established, policy.sender)
    /\ streams' = Closed(lane[s], streams)
    /\ lane' = [lane EXCEPT ![s] = [Idle(@) EXCEPT !.id = 0]]
    /\ SessionFailed(lane[s].msg)
    /\ UNCHANGED <<now, resets, policy, sent, queue>>

\* Seeded defect: the counter of the previous session goes on.
EstablishedKeepsCounter(l) == [l EXCEPT !.phase = "write", !.established = now]
\* The established stream: born now, its counter at 0.
Established(l) == [l EXCEPT !.phase = "write", !.counter = 0, !.established = now]

\* The server hello arrives (run_outbound_handshake).
Finalize(s) ==
    /\ lane[s].phase = "handshake"
    /\ streams[lane[s].id].server \in {"replied", "open"}
    /\ lane' = [lane EXCEPT ![s] = Established(@)]
    /\ UNCHANGED <<now, resets, policy, sent, queue, streams, reports>>

\* read_frame_bytes returns None: the stream ended before the server hello.
HelloMissed(id) == streams[id].server = "closed"

\* Without a server hello the message fails; it is not retried.
HandshakeFails(s) ==
    /\ lane[s].phase = "handshake"
    /\ HelloMissed(lane[s].id)
    /\ streams' = Closed(lane[s], streams)
    /\ lane' = [lane EXCEPT ![s] = [Idle(@) EXCEPT !.id = 0]]
    /\ SessionFailed(lane[s].msg)
    /\ UNCHANGED <<now, resets, policy, sent, queue>>

\* Seeded defect: a message that is written is written once more.
AfterWriteTwice(l) ==
    IF l.retried THEN Idle(l) ELSE [l EXCEPT !.phase = "send", !.retried = TRUE, !.counter = @ + 1]
\* The worker is done with the message; an encrypted frame used up its counter.
AfterWrite(l) == [Idle(l) EXCEPT !.counter = IF policy.encrypt THEN @ + 1 ELSE @]

\* encrypt_frame_payload: nonce and associated data are made of the session and counter.
EncryptFrame(l) == [key |-> l.id, counter |-> l.counter, msg |-> l.msg]

\* write_application_frame succeeds: the frame carries the lane's counter.  To a
\* stream the receiver has closed the write may still succeed, and the frame is lost.
WriteOk(s) ==
    LET l == lane[s]
        frame == EncryptFrame(l)
    IN  /\ l.phase = "write"
        /\ streams' = IF streams[l.id].server = "closed" THEN streams
                      ELSE [streams EXCEPT ![l.id].wire = Append(@, frame)]
        /\ lane' = [lane EXCEPT ![s] = AfterWrite(@)]
        /\ SessionObserved(l.msg)
        /\ UNCHANGED <<now, resets, policy, sent, queue>>

\* A write error drops the stream; the first one is retried on a new stream.
AfterError(l) ==
    IF l.retried THEN [Idle(l) EXCEPT !.id = 0]
    ELSE [l EXCEPT !.phase = "send", !.id = 0, !.retried = TRUE]

\* write_application_frame fails with a retryable error.
WriteFails(s) ==
    /\ lane[s].phase = "write" /\ streams[lane[s].id].server = "closed"
    /\ streams' = Closed(lane[s], streams)
    /\ lane' = [lane EXCEPT ![s] = AfterError(@)]
    /\ IF AfterError(lane[s]).phase = "idle" THEN SessionFailed(lane[s].msg) ELSE UNCHANGED reports
    /\ UNCHANGED <<now, resets, policy, sent, queue>>

-----------------------------------------------------------------------------
(***************************************************************************)
(* The receiver.                                                           *)
(***************************************************************************)
Holds(id) == id \in DOMAIN streams /\ streams[id].server \in {"accepted", "replied", "open"}
Admitted  == Cardinality({id \in DOMAIN streams : Holds(id)})

\* The semaphore has a permit left.
HasPermit == Admitted < Capacity

\* The accept loop: streams in the order they came, each with a permit.
Accept(id) ==
    /\ streams[id].server = "backlog"
    /\ \A other \in DOMAIN streams : streams[other].server = "backlog" => id <= other
    /\ HasPermit
    /\ streams' = [streams EXCEPT ![id].server = "accepted"]
    /\ UNCHANGED <<now, resets, policy, sent, queue, lane, reports>>

\* No permit for INBOUND_SESSION_ACQUIRE_TIMEOUT_MILLIS: the stream is dropped.
DropInbound(id) ==
    /\ streams[id].server = "backlog"
    /\ \A other \in DOMAIN streams : streams[other].server = "backlog" => id <= other
    /\ ~HasPermit
    /\ streams' = [streams EXCEPT ![id].server = "closed"]
    /\ UNCHANGED <<now, resets, policy, sent, queue, lane, reports>>

\* accept_inbound_handshake answers the client hello.
Reply(id) ==
    /\ streams[id].server = "accepted"
    /\ streams' = [streams EXCEPT ![id].server = "replied"]
    /\ UNCHANGED <<now, resets, policy, sent, queue, lane, reports>>

\* handle_inbound notes the session's birth: after the reply was written.
Stamp(id) ==
    /\ streams[id].server = "replied"
    /\ streams' = [streams EXCEPT ![id].server = "open", ![id].established = now]
    /\ UNCHANGED <<now, resets, policy, sent, queue, lane, reports>>

\* decrypt_frame_payload with the receive counter.
Decrypts(id, frame) ==
    policy.encrypt => frame.key = id /\ frame.counter = streams[id].counter

\* read_application_frame and the envelope checks: an expired session ends the stream
\* before the frame is accepted, a frame that does not decrypt ends it with an error,
\* any other is delivered.
ReadFrame(id) ==
    LET st    == streams[id]
        frame == Head(st.wire)
        ended == [st EXCEPT !.server = "closed", !.wire = <<>>]
        read  == [st EXCEPT !.wire = Tail(@), !.counter = IF policy.encrypt THEN @ + 1 ELSE @]
    IN  /\ st.server = "open" /\ st.wire # <<>>
        /\ IF Expired(st.established, policy.receiver) \/ ~Decrypts(id, frame)
           THEN /\ streams' = [streams EXCEPT ![id] = ended]
                /\ UNCHANGED reports
           ELSE /\ streams' = [streams EXCEPT ![id] = read]
                /\ Received(frame.msg)
        /\ UNCHANGED <<now, resets, policy, sent, queue, lane>>

\* Seeded defect: the end of the stream is read on as if nothing had come.
EndsIgnored(st) == FALSE
\* The end of the stream (StreamClosed).
Ends(st) == st.server = "open" /\ ~st.client /\ st.wire = <<>>

\* The task returns and gives its permit back.
ReadEnd(id) ==
    /\ Ends(streams[id])
    /\ streams' = [streams EXCEPT ![id].server = "closed"]
    /\ UNCHANGED <<now, resets, policy, sent, queue, lane, reports>>

\* A connection breaks: the receiver's task ends, what is on the wire is lost.
Reset(id) ==
    /\ resets < MaxResets /\ Holds(id)
    /\ resets' = resets + 1
    /\ streams' = [streams EXCEPT ![id].server = "closed", ![id].wire = <<>>]
    /\ UNCHANGED <<now, policy, sent, queue, lane, reports>>

Tick ==
    /\ now < MaxTime
    /\ now' = now + 1
    /\ UNCHANGED <<resets, policy, sent, queue, lane, streams, reports>>

-----------------------------------------------------------------------------
Init ==
    /\ now = 0 /\ resets = 0 /\ policy \in Policies
    /\ sent = {}
    /\ queue = [s \in Senders |-> <<>>]
    /\ lane = [s \in Senders |-> [phase |-> "idle", msg |-> 0, retried |-> FALSE,
                                  id |-> 0, counter |-> 0, established |-> 0]]
    /\ streams = <<>>
    /\ received = {} /\ observed = {} /\ failed = {}

Worker(s) ==
    \/ Take(s) \/ Reuse(s) \/ Connect(s) \/ ConnectFails(s)
    \/ Finalize(s) \/ HandshakeFails(s) \/ WriteOk(s) \/ WriteFails(s)

Listener == \E id \in DOMAIN streams : Accept(id) \/ DropInbound(id)

Inbound(id) ==
    /\ id \in DOMAIN streams
    /\ Reply(id) \/ Stamp(id) \/ ReadFrame(id) \/ ReadEnd(id)

Next ==
    \/ \E m \in Message : Enqueue(m)
    \/ \E s \in Senders : Worker(s)
    \/ Listener
    \/ \E id \in DOMAIN streams : Inbound(id) \/ Reset(id)
    \/ Tick

Spec == Init /\ [][Next]_vars

\* The runtime polls every task that can go on.
Fairness ==
    /\ \A s \in Senders : WF_vars(Worker(s))
    /\ WF_vars(Listener)
    /\ \A id \in 1 .. 2 * Cardinality(Message) : WF_vars(Inbound(id))

-----------------------------------------------------------------------------
(***************************************************************************)
(* Properties.                                                             *)
(***************************************************************************)

\* Types; a worker in the middle of a message has the stream it needs, and never more
\* streams are admitted than there are permits (spawn_network, send_message).
TypeOK ==
    /\ now \in 0 .. MaxTime
    /\ observed \cup failed \cup received \subseteq sent
    /\ \A s \in Senders :
        /\ lane[s].id \in 0 .. Len(streams)
        /\ lane[s].phase \in {"handshake", "write"} =>
                lane[s].id # 0 /\ streams[lane[s].id].client
    /\ Admitted <= Capacity

\* The messages that may still reach the receiver.
Pending ==
    (UNION {ToSet(queue[s]) : s \in Senders})
    \cup {lane[s].msg : s \in {t \in Senders : lane[t].phase # "idle"}}
    \cup (UNION {{f.msg : f \in ToSet(streams[id].wire)} : id \in DOMAIN streams})

Channel == INSTANCE LossyChannel WITH pending <- Pending, delivered <- received

\* The transport is a lossy channel that delivers each message at most once, through
\* renewed sessions, retries and broken connections (send_message, handle_inbound).
DeliversAtMostOnce == Channel!Spec

\* No frame fails to decrypt: sender and receiver count alike on every stream
\* (write_application_frame, read_application_frame).
FramesDecrypt ==
    \A id \in DOMAIN streams : \A i \in DOMAIN streams[id].wire :
        policy.encrypt =>
            /\ streams[id].wire[i].key = id
            /\ streams[id].wire[i].counter = streams[id].counter + i - 1

\* The sender's node hears of every message it handed over: observed or failed
\* (the worker of spawn_network never stops on one).
EverySendReported == \A m \in Message : m \in sent ~> m \in observed \cup failed

\* A stream its sender has dropped gives its permit back (handle_inbound returns).
PermitsReturned ==
    \A id \in 1 .. 2 * Cardinality(Message) :
        (id \in DOMAIN streams /\ ~streams[id].client) ~> ~Holds(id)
=============================================================================
