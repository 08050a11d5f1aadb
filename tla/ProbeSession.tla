---------------------------- MODULE ProbeSession -----------------------------
(***************************************************************************)
(* session.rs, socket.rs and the exchange_*_probe functions of the         *)
(* executor: the exchanges of one socket probe with its peer.  An exchange *)
(* connects unless the probe has a live session, writes its payload and    *)
(* reads, each under a timeout.  A failed exchange ends the run, unless a  *)
(* retry makes another one: both are the next Begin here.                  *)
(*                                                                         *)
(* Bytes are counted, not represented.  The peer sends segments when it    *)
(* likes; a stream read returns a part of what is there, a datagram read   *)
(* one datagram cut to the buffer.                                         *)
(***************************************************************************)
EXTENDS Integers, Sequences

CONSTANTS
    Specs,           \* the probes to try, see Spec below
    ReadTimeout,     \* config.read_timeout, for each read and write
    ConnectTimeout,  \* config.default_timeout, to connect and to shake hands
    BufferSize,      \* 4096
    MaxSegment,      \* bound: the size of a segment
    MaxUnread        \* bound: the segments that wait to be read

SocketSpec == [udp : BOOLEAN, tls : BOOLEAN, session : BOOLEAN, payload : BOOLEAN,
               read_max : Nat, read_idle : Nat]

ASSUME SessionAssumption ==
    /\ Specs \subseteq SocketSpec
    /\ ReadTimeout \in Nat /\ ConnectTimeout \in Nat
    /\ BufferSize \in Nat \ {0}
    /\ MaxSegment \in Nat /\ MaxUnread \in Nat

VARIABLES
    spec,       \* the probe
    stage,      \* "idle", or the await the exchange is in
    connection, \* "none", "fresh" (of this exchange) or "stored" (the session)
    unread,     \* the segments that arrived on the connection
    hung_up,    \* has the peer closed the connection?
    waited,     \* the time spent in this await
    received,   \* the bytes this exchange has collected
    last,       \* the result of the last exchange
    proven,     \* history: has an exchange succeeded on the connection?
    lost        \* history: were bytes of the connection read and thrown away?

vars == <<spec, stage, connection, unread, hung_up, waited, received, last, proven, lost>>

AtMost(m, n) == IF m < n THEN m ELSE n

Awaits == {"connect", "handshake", "write", "read"}
NoExchange == [tag |-> "none", bytes |-> 0]

Init ==
    /\ spec \in Specs
    /\ stage = "idle"
    /\ connection = "none"
    /\ unread = << >>
    /\ hung_up = FALSE
    /\ waited = 0
    /\ received = 0
    /\ last = NoExchange
    /\ proven = FALSE
    /\ lost = FALSE

-----------------------------------------------------------------------------
(* How an exchange ends.                                                   *)
\* Fault: the session is stored before its first exchange.
FailStored ==
    /\ stage' = "idle"
    /\ last' = [tag |-> "error", bytes |-> 0]
    /\ connection' = IF spec.session THEN "stored" ELSE "none"
    /\ lost' = (lost \/ received > 0)
    /\ UNCHANGED <<spec, unread, hung_up, waited, received, proven>>

\* `?`: what was received is dropped, and so is a connection that the exchange
\* opened itself.  A stored session stays.
FailExchange ==
    /\ stage' = "idle"
    /\ last' = [tag |-> "error", bytes |-> 0]
    /\ connection' = IF connection = "stored" THEN "stored" ELSE "none"
    /\ lost' = (lost \/ received > 0)
    /\ UNCHANGED <<spec, unread, hung_up, waited, received, proven>>

\* Ok(data); a session keeps its connection.
Succeed(bytes) ==
    /\ stage' = "idle"
    /\ last' = [tag |-> "ok", bytes |-> bytes]
    /\ connection' = IF spec.session THEN "stored" ELSE "none"
    /\ received' = bytes
    /\ proven' = TRUE
    /\ UNCHANGED <<spec, waited>>

\* The next await of the exchange.
Await(next) ==
    /\ stage' = next
    /\ waited' = 0
    /\ UNCHANGED <<spec, hung_up, proven>>

-----------------------------------------------------------------------------
(* Opening.                                                                *)
Unsupported ==
    /\ stage = "idle" /\ spec.udp /\ spec.tls
    /\ FailExchange

Begin ==
    /\ stage = "idle" /\ ~ (spec.udp /\ spec.tls)
    /\ Await(IF connection = "stored" THEN "write" ELSE "connect")
    /\ received' = 0
    /\ last' = NoExchange
    /\ UNCHANGED <<connection, unread, lost>>

Connected ==
    /\ stage = "connect"
    /\ stage' = IF spec.tls THEN "handshake" ELSE "write"
    /\ connection' = "fresh"
    /\ unread' = << >>
    /\ hung_up' = FALSE
    /\ waited' = 0
    /\ proven' = FALSE
    /\ lost' = FALSE
    /\ UNCHANGED <<spec, received, last>>

ShookHands ==
    /\ stage = "handshake" /\ ~ hung_up
    /\ Await("write")
    /\ UNCHANGED <<connection, unread, received, last, lost>>

-----------------------------------------------------------------------------
(* Writing.  Without a payload there is nothing to wait for.               *)
Written ==
    /\ stage = "write"
    /\ Await("read")
    /\ UNCHANGED <<connection, unread, received, last, lost>>

-----------------------------------------------------------------------------
(* Reading.                                                                *)
\* Fault: the buffer is not cut to read_max.
BufferUncut == BufferSize
Buffer == AtMost(BufferSize, IF spec.read_max > 0 THEN spec.read_max ELSE 1)

\* Fault: the chunk is taken whole.
TakenWhole(chunk) == chunk
Taken(chunk) ==
    LET room == IF received >= spec.read_max THEN 0 ELSE spec.read_max - received IN
    AtMost(chunk, room)

\* Fault: the loop does not stop at read_max.
LastChunkUncapped(bytes) == spec.read_idle = 0
LastChunk(bytes) == bytes >= spec.read_max \/ spec.read_idle = 0

\* What a read can return, and what it leaves unread.
Reads ==
    IF spec.udp
    THEN {[chunk |-> AtMost(Head(unread), Buffer), rest |-> Tail(unread),
           cut |-> Head(unread) > Buffer]}
    ELSE {[chunk |-> n,
           rest |-> IF n = Head(unread) THEN Tail(unread)
                    ELSE <<Head(unread) - n>> \o Tail(unread),
           cut |-> FALSE] : n \in 1..AtMost(Head(unread), Buffer)}

ReadChunk ==
    /\ stage = "read" /\ unread # << >>
    /\ \E r \in Reads :
          LET bytes == received + Taken(r.chunk) IN
          /\ unread' = r.rest
          /\ lost' = (lost \/ r.cut \/ Taken(r.chunk) < r.chunk)
          /\ \/ /\ r.chunk = 0 \/ LastChunk(bytes)
                /\ Succeed(bytes)
                /\ UNCHANGED hung_up
             \/ /\ r.chunk # 0 /\ ~ LastChunk(bytes)
                /\ Await("read")
                /\ received' = bytes
                /\ UNCHANGED <<connection, last>>

\* A read of nothing: the end of the stream.
ReadEnd ==
    /\ stage = "read" /\ unread = << >> /\ hung_up /\ ~ spec.udp
    /\ Succeed(received)
    /\ UNCHANGED <<unread, hung_up, lost>>

\* Data that is there when the timer fires is read: the timeout polls its read
\* first.  An idle timeout ends the loop, and ends it well.
TimesOut(limit) == waited = limit

IdleTimeout ==
    /\ stage = "read" /\ unread = << >> /\ ~ hung_up
    /\ spec.read_idle > 0 /\ TimesOut(spec.read_idle)
    /\ Succeed(received)
    /\ UNCHANGED <<unread, hung_up, lost>>

Limit == IF stage \in {"connect", "handshake"} THEN ConnectTimeout
         ELSE IF stage = "read" /\ spec.read_idle > 0 THEN spec.read_idle
         ELSE ReadTimeout

AwaitTimeout ==
    /\ stage \in Awaits
    /\ stage = "read" => unread = << >> /\ ~ hung_up /\ spec.read_idle = 0
    /\ stage = "write" => spec.payload
    /\ TimesOut(Limit)
    /\ FailExchange

\* An error of the network at any await.
NetworkError ==
    /\ stage \in Awaits
    /\ stage = "write" => spec.payload
    /\ FailExchange

-----------------------------------------------------------------------------
(* The peer, and time.                                                     *)
Arrive ==
    /\ connection # "none" /\ ~ hung_up /\ Len(unread) < MaxUnread
    /\ \E size \in (IF spec.udp THEN 0 ELSE 1)..MaxSegment : unread' = Append(unread, size)
    /\ UNCHANGED <<spec, stage, connection, hung_up, waited, received, last, proven, lost>>

HangUp ==
    /\ connection # "none" /\ ~ hung_up /\ ~ spec.udp
    /\ hung_up' = TRUE
    /\ UNCHANGED <<spec, stage, connection, unread, waited, received, last, proven, lost>>

Tick ==
    /\ stage \in Awaits /\ waited < Limit
    /\ waited' = waited + 1
    /\ UNCHANGED <<spec, stage, connection, unread, hung_up, received, last, proven, lost>>

-----------------------------------------------------------------------------
Run == Unsupported \/ Written \/ ReadChunk \/ ReadEnd \/ IdleTimeout \/ AwaitTimeout

Next ==
    \/ Begin \/ Run \/ Connected \/ ShookHands \/ NetworkError
    \/ Arrive \/ HangUp \/ Tick

Spec == Init /\ [][Next]_vars

\* What the exchange does by itself.  To connect, to shake hands and to take a
\* payload is up to the peer.
Own ==
    \/ Unsupported \/ (~ spec.payload /\ Written)
    \/ ReadChunk \/ ReadEnd \/ IdleTimeout \/ AwaitTimeout

\* The runtime polls the exchange and its timers; the peer owes nothing.
FairSpec == Spec /\ WF_vars(Own) /\ WF_vars(Tick)

-----------------------------------------------------------------------------
(* Properties.                                                             *)

\* Every variable keeps its type.
TypeOK ==
    /\ spec \in Specs
    /\ stage \in Awaits \cup {"idle"}
    /\ connection \in {"none", "fresh", "stored"}
    /\ unread \in Seq(Nat)
    /\ hung_up \in BOOLEAN
    /\ waited \in Nat
    /\ received \in Nat
    /\ last \in [tag : {"none", "ok", "error"}, bytes : Nat]
    /\ proven \in BOOLEAN /\ lost \in BOOLEAN

\* A response is never longer than read_max, however the peer cuts its data.
Capped == received <= spec.read_max /\ last.bytes <= spec.read_max

\* What arrived on a session and was not read by one exchange is there for the
\* next: with single reads no byte of the stream is lost, over failed exchanges
\* and retries too.
StreamIsWhole ==
    (~ spec.udp /\ spec.read_idle = 0 /\ spec.read_max > 0) => ~ lost

\* A connection outlives its exchange only as a session on which an exchange
\* has succeeded: a retry never meets the half-open connection of the attempt
\* before it.
OnlyProvenIsKept ==
    stage = "idle" => (connection = "none" \/ (connection = "stored" /\ spec.session /\ proven))

\* Every exchange ends, also with a peer that never stops sending, or never
\* sends.
EveryExchangeEnds == stage # "idle" ~> stage = "idle"

\* SocketProbeSpec::read_idle_ms, spec.rs:60: "After first read, keep reading
\* until idle for this many ms".  So the first read is not under the idle timer:
\* an exchange with a peer that keeps the connection open does not succeed
\* without having read something.
FirstReadWaits ==
    (last.tag = "ok" /\ last.bytes = 0 /\ spec.read_max > 0 /\ ~ spec.udp) => hung_up
=============================================================================
