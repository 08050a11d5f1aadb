------------------------- MODULE ProbeSessionProofs --------------------------
(***************************************************************************)
(* What TLAPS proves about ProbeSession, for any probes, any timeouts, any *)
(* buffer and any peer.                                                    *)
(***************************************************************************)
EXTENDS ProbeSession, TLAPS

-----------------------------------------------------------------------------
(* Types, and what one read returns.                                       *)

LEMMA SpecType ==
    ASSUME spec \in Specs
    PROVE  /\ spec \in SocketSpec
           /\ spec.read_max \in Nat /\ spec.read_idle \in Nat
           /\ Buffer \in Nat
           /\ spec.read_max > 0 => Buffer <= spec.read_max
  BY SessionAssumption DEF SocketSpec, Buffer, AtMost

\* A read leaves segments, and a stream read leaves all it does not return.
LEMMA ReadType ==
    ASSUME TypeOK, unread # << >>, NEW r \in Reads
    PROVE  /\ r.chunk \in Nat /\ r.rest \in Seq(Nat) /\ r.cut \in BOOLEAN
           /\ ~ spec.udp => r.cut = FALSE /\ r.chunk <= Buffer
  <1>1. Head(unread) \in Nat /\ Tail(unread) \in Seq(Nat) /\ spec \in Specs
    BY DEF TypeOK
  <1>2. Buffer \in Nat
    BY <1>1, SpecType
  <1>3. CASE spec.udp
    <2>1. r = [chunk |-> AtMost(Head(unread), Buffer), rest |-> Tail(unread),
               cut |-> Head(unread) > Buffer]
      BY <1>3 DEF Reads
    <2>2. AtMost(Head(unread), Buffer) \in Nat
      BY <1>1, <1>2 DEF AtMost
    <2> QED
      BY <1>1, <1>2, <1>3, <2>1, <2>2
  <1>4. CASE ~ spec.udp
    <2>1. PICK n \in 1..AtMost(Head(unread), Buffer) :
              r = [chunk |-> n,
                   rest |-> IF n = Head(unread) THEN Tail(unread)
                            ELSE <<Head(unread) - n>> \o Tail(unread),
                   cut |-> FALSE]
      BY <1>4 DEF Reads
    <2>2. n \in Nat /\ n <= Head(unread) /\ n <= Buffer
      BY <1>1, <1>2, <2>1 DEF AtMost
    <2>3. Head(unread) - n \in Nat
      BY <1>1, <2>2
    <2>4. <<Head(unread) - n>> \o Tail(unread) \in Seq(Nat)
      BY <1>1, <2>3
    <2> QED
      BY <1>1, <1>4, <2>1, <2>2, <2>4
  <1> QED
    BY <1>3, <1>4

\* What is kept of a chunk fits below read_max.
LEMMA TakenType ==
    ASSUME TypeOK, Capped, NEW chunk \in Nat
    PROVE  /\ Taken(chunk) \in Nat
           /\ received + Taken(chunk) \in Nat
           /\ received + Taken(chunk) <= spec.read_max
           /\ received = 0 /\ chunk <= spec.read_max => Taken(chunk) = chunk
  BY SpecType DEF TypeOK, Capped, Taken, AtMost

LEMMA EmptyType == << >> \in Seq(Nat)
  OBVIOUS

LEMMA SizeType == (0..MaxSegment) \subseteq Nat /\ (1..MaxSegment) \subseteq Nat
  BY SessionAssumption

LEMMA TypeStep ==
    ASSUME TypeOK, Capped, [Next]_vars
    PROVE  TypeOK'
  <1> USE SpecType DEF TypeOK, Awaits, NoExchange
  <1>1. CASE Begin
    BY <1>1 DEF Begin, Await
  <1>2. CASE Unsupported
    BY <1>2 DEF Unsupported, FailExchange
  <1>3. CASE Written
    BY <1>3 DEF Written, Await
  <1>4. CASE ReadChunk
    <2>1. PICK r \in Reads :
              LET bytes == received + Taken(r.chunk) IN
              /\ unread' = r.rest
              /\ lost' = (lost \/ r.cut \/ Taken(r.chunk) < r.chunk)
              /\ \/ /\ r.chunk = 0 \/ LastChunk(bytes)
                    /\ Succeed(bytes)
                    /\ UNCHANGED hung_up
                 \/ /\ r.chunk # 0 /\ ~ LastChunk(bytes)
                    /\ Await("read")
                    /\ received' = bytes
                    /\ UNCHANGED <<connection, last>>
      BY <1>4 DEF ReadChunk
    <2>2. /\ r.chunk \in Nat /\ r.rest \in Seq(Nat) /\ r.cut \in BOOLEAN
          /\ ~ spec.udp => r.cut = FALSE /\ r.chunk <= Buffer
      BY <1>4, ReadType DEF ReadChunk
    <2>3. received + Taken(r.chunk) \in Nat /\ received + Taken(r.chunk) <= spec.read_max
      BY <2>2, TakenType
    <2>4. lost' \in BOOLEAN
      BY <2>1
    <2>5. CASE Succeed(received + Taken(r.chunk)) /\ UNCHANGED hung_up
      BY <2>1, <2>2, <2>3, <2>4, <2>5 DEF Succeed
    <2>6. CASE Await("read") /\ received' = received + Taken(r.chunk)
                /\ UNCHANGED <<connection, last>>
      BY <2>1, <2>2, <2>3, <2>4, <2>6 DEF Await
    <2> QED
      BY <2>1, <2>5, <2>6
  <1>5. CASE ReadEnd
    BY <1>5 DEF ReadEnd, Succeed
  <1>6. CASE IdleTimeout
    BY <1>6 DEF IdleTimeout, Succeed
  <1>7. CASE AwaitTimeout
    BY <1>7 DEF AwaitTimeout, FailExchange
  <1>8. CASE Connected
    BY <1>8, EmptyType DEF Connected
  <1>9. CASE ShookHands
    BY <1>9 DEF ShookHands, Await
  <1>10. CASE NetworkError
    BY <1>10 DEF NetworkError, FailExchange
  <1>11. CASE Arrive
    BY <1>11, SizeType DEF Arrive
  <1>12. CASE HangUp
    BY <1>12 DEF HangUp
  <1>13. CASE Tick
    BY <1>13 DEF Tick
  <1>14. CASE UNCHANGED vars
    BY <1>14 DEF vars
  <1> QED
    BY <1>1, <1>2, <1>3, <1>4, <1>5, <1>6, <1>7, <1>8, <1>9, <1>10, <1>11, <1>12, <1>13, <1>14
       DEF Next, Run

-----------------------------------------------------------------------------
(* The strengthening.                                                      *)

\* Between the reads of a probe that reads once, nothing is held.
SingleReads ==
    (~ spec.udp /\ spec.read_idle = 0 /\ spec.read_max > 0) =>
        /\ ~ lost
        /\ stage # "idle" => received = 0

\* A connection of an exchange is not kept when it is over.
Kept ==
    /\ stage = "idle" => connection # "fresh"
    /\ connection = "stored" => spec.session /\ proven

IInv == TypeOK /\ Capped /\ SingleReads /\ Kept

LEMMA CapStep ==
    ASSUME TypeOK, Capped, [Next]_vars
    PROVE  Capped'
  <1> USE SpecType DEF TypeOK, Capped, NoExchange
  <1>1. CASE Begin
    BY <1>1 DEF Begin, Await
  <1>2. CASE Unsupported
    BY <1>2 DEF Unsupported, FailExchange
  <1>3. CASE Written
    BY <1>3 DEF Written, Await
  <1>4. CASE ReadChunk
    <2>1. PICK r \in Reads :
              LET bytes == received + Taken(r.chunk) IN
              /\ unread' = r.rest
              /\ lost' = (lost \/ r.cut \/ Taken(r.chunk) < r.chunk)
              /\ \/ /\ r.chunk = 0 \/ LastChunk(bytes)
                    /\ Succeed(bytes)
                    /\ UNCHANGED hung_up
                 \/ /\ r.chunk # 0 /\ ~ LastChunk(bytes)
                    /\ Await("read")
                    /\ received' = bytes
                    /\ UNCHANGED <<connection, last>>
      BY <1>4 DEF ReadChunk
    <2>2. /\ r.chunk \in Nat /\ r.rest \in Seq(Nat) /\ r.cut \in BOOLEAN
          /\ ~ spec.udp => r.cut = FALSE /\ r.chunk <= Buffer
      BY <1>4, ReadType DEF ReadChunk
    <2>3. received + Taken(r.chunk) \in Nat /\ received + Taken(r.chunk) <= spec.read_max
      BY <2>2, TakenType
    <2> QED
      BY <2>1, <2>2, <2>3 DEF Succeed, Await
  <1>5. CASE ReadEnd
    BY <1>5 DEF ReadEnd, Succeed
  <1>6. CASE IdleTimeout
    BY <1>6 DEF IdleTimeout, Succeed
  <1>7. CASE AwaitTimeout
    BY <1>7 DEF AwaitTimeout, FailExchange
  <1>8. CASE Connected
    BY <1>8 DEF Connected
  <1>9. CASE ShookHands
    BY <1>9 DEF ShookHands, Await
  <1>10. CASE NetworkError
    BY <1>10 DEF NetworkError, FailExchange
  <1>11. CASE Arrive
    BY <1>11 DEF Arrive
  <1>12. CASE HangUp
    BY <1>12 DEF HangUp
  <1>13. CASE Tick
    BY <1>13 DEF Tick
  <1>14. CASE UNCHANGED vars
    BY <1>14 DEF vars
  <1> QED
    BY <1>1, <1>2, <1>3, <1>4, <1>5, <1>6, <1>7, <1>8, <1>9, <1>10, <1>11, <1>12, <1>13, <1>14
       DEF Next, Run

LEMMA SingleStep ==
    ASSUME TypeOK, Capped, SingleReads, [Next]_vars
    PROVE  SingleReads'
  <1> USE SpecType DEF TypeOK, SingleReads, Awaits
  <1>1. CASE Begin
    BY <1>1 DEF Begin, Await
  <1>2. CASE Unsupported
    BY <1>2 DEF Unsupported, FailExchange
  <1>3. CASE Written
    BY <1>3 DEF Written, Await
  <1>4. CASE ReadChunk
    <2>1. PICK r \in Reads :
              LET bytes == received + Taken(r.chunk) IN
              /\ unread' = r.rest
              /\ lost' = (lost \/ r.cut \/ Taken(r.chunk) < r.chunk)
              /\ \/ /\ r.chunk = 0 \/ LastChunk(bytes)
                    /\ Succeed(bytes)
                    /\ UNCHANGED hung_up
                 \/ /\ r.chunk # 0 /\ ~ LastChunk(bytes)
                    /\ Await("read")
                    /\ received' = bytes
                    /\ UNCHANGED <<connection, last>>
      BY <1>4 DEF ReadChunk
    <2>2. /\ r.chunk \in Nat /\ r.rest \in Seq(Nat) /\ r.cut \in BOOLEAN
          /\ ~ spec.udp => r.cut = FALSE /\ r.chunk <= Buffer
      BY <1>4, ReadType DEF ReadChunk
    <2>3. /\ received + Taken(r.chunk) \in Nat
          /\ received = 0 /\ r.chunk <= spec.read_max => Taken(r.chunk) = r.chunk
      BY <2>2, TakenType
    <2>4. stage = "read" /\ spec' = spec
      BY <1>4, <2>1 DEF ReadChunk, Succeed, Await
    <2>5. ASSUME ~ spec.udp, spec.read_idle = 0, spec.read_max > 0
          PROVE  ~ lost' /\ stage' = "idle"
      <3>1. received = 0 /\ ~ lost
        BY <2>4, <2>5
      <3>2. Taken(r.chunk) = r.chunk /\ r.cut = FALSE
        BY <2>2, <2>3, <2>5, <3>1
      <3> QED
        BY <2>1, <2>2, <2>5, <3>1, <3>2 DEF LastChunk, Succeed
    <2> QED
      BY <2>4, <2>5
  <1>5. CASE ReadEnd
    BY <1>5 DEF ReadEnd, Succeed
  <1>6. CASE IdleTimeout
    BY <1>6 DEF IdleTimeout, Succeed
  <1>7. CASE AwaitTimeout
    BY <1>7 DEF AwaitTimeout, FailExchange
  <1>8. CASE Connected
    BY <1>8 DEF Connected
  <1>9. CASE ShookHands
    BY <1>9 DEF ShookHands, Await
  <1>10. CASE NetworkError
    BY <1>10 DEF NetworkError, FailExchange
  <1>11. CASE Arrive
    BY <1>11 DEF Arrive
  <1>12. CASE HangUp
    BY <1>12 DEF HangUp
  <1>13. CASE Tick
    BY <1>13 DEF Tick
  <1>14. CASE UNCHANGED vars
    BY <1>14 DEF vars
  <1> QED
    BY <1>1, <1>2, <1>3, <1>4, <1>5, <1>6, <1>7, <1>8, <1>9, <1>10, <1>11, <1>12, <1>13, <1>14
       DEF Next, Run

LEMMA KeptStep ==
    ASSUME TypeOK, Kept, [Next]_vars
    PROVE  Kept'
  <1> USE DEF TypeOK, Kept, Awaits
  <1>1. CASE Begin
    BY <1>1 DEF Begin, Await
  <1>2. CASE Unsupported
    BY <1>2 DEF Unsupported, FailExchange
  <1>3. CASE Written
    BY <1>3 DEF Written, Await
  <1>4. CASE ReadChunk
    BY <1>4 DEF ReadChunk, Succeed, Await
  <1>5. CASE ReadEnd
    BY <1>5 DEF ReadEnd, Succeed
  <1>6. CASE IdleTimeout
    BY <1>6 DEF IdleTimeout, Succeed
  <1>7. CASE AwaitTimeout
    BY <1>7 DEF AwaitTimeout, FailExchange
  <1>8. CASE Connected
    BY <1>8 DEF Connected
  <1>9. CASE ShookHands
    BY <1>9 DEF ShookHands, Await
  <1>10. CASE NetworkError
    BY <1>10 DEF NetworkError, FailExchange
  <1>11. CASE Arrive
    BY <1>11 DEF Arrive
  <1>12. CASE HangUp
    BY <1>12 DEF HangUp
  <1>13. CASE Tick
    BY <1>13 DEF Tick
  <1>14. CASE UNCHANGED vars
    BY <1>14 DEF vars
  <1> QED
    BY <1>1, <1>2, <1>3, <1>4, <1>5, <1>6, <1>7, <1>8, <1>9, <1>10, <1>11, <1>12, <1>13, <1>14
       DEF Next, Run

THEOREM Inductive == Spec => []IInv
  <1>1. Init => IInv
    <2> SUFFICES ASSUME Init PROVE IInv
      OBVIOUS
    <2>1. TypeOK
      BY EmptyType DEF Init, TypeOK, Awaits, NoExchange
    <2> QED
      BY <2>1, SpecType DEF Init, IInv, TypeOK, NoExchange, Capped, SingleReads, Kept
  <1>2. IInv /\ [Next]_vars => IInv'
    BY TypeStep, CapStep, SingleStep, KeptStep DEF IInv
  <1> QED
    BY <1>1, <1>2, PTL DEF Spec

-----------------------------------------------------------------------------
(* The properties.                                                         *)

\* No peer makes a response longer than read_max.
THEOREM ResponsesAreCapped == Spec => []Capped
  <1>1. IInv => Capped
    BY DEF IInv
  <1> QED
    BY <1>1, Inductive, PTL

\* Single reads lose no byte of a session's stream.
THEOREM SessionsLoseNothing == Spec => []StreamIsWhole
  <1>1. IInv => StreamIsWhole
    BY DEF IInv, SingleReads, StreamIsWhole
  <1> QED
    BY <1>1, Inductive, PTL

\* No exchange finds a connection on which none succeeded.
THEOREM SessionsAreProven == Spec => []OnlyProvenIsKept
  <1>1. IInv => OnlyProvenIsKept
    BY DEF IInv, TypeOK, Kept, OnlyProvenIsKept
  <1> QED
    BY <1>1, Inductive, PTL
=============================================================================
