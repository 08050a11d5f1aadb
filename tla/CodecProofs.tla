----------------------------- MODULE CodecProofs -----------------------------
(***************************************************************************)
(* What TLAPS proves about decode on any input, and about a program that   *)
(* is encoded, kept and decoded: decode stays inside its input, the        *)
(* version decides before the rest is read, what encode writes comes back  *)
(* as it was, and no part of it nor more than it is a program.             *)
(***************************************************************************)
EXTENDS WireProofs

-----------------------------------------------------------------------------
(* What a read_ function does where such a front stands.                   *)

InputOK == bytes \in Seq(Byte) /\ pos \in 0..Len(bytes)

\* The read_ function of the next part takes the step, or there is no room to call
\* it, or need refuses it.
LEMMA Dispatch ==
    ASSUME InParts, Type \in WireTypes, Step
    PROVE  \/ UnexpectedEnd
           \/ Type[1] = "union" /\ Overflow
           \/ Type[1] = "magic" /\ ReadMagic
           \/ Type[1] = "version" /\ ReadVersion
           \/ Type[1] \in {"u16", "u32"} /\ ReadNumber
           \/ Type[1] = "u64" /\ ReadU64
           \/ Type[1] = "bool" /\ ReadBool
           \/ Type[1] \in {"str", "bytes"} /\ ReadText
           \/ Type[1] = "opt" /\ ReadOption
           \/ Type[1] = "enum" /\ ReadEnum
           \/ Type[1] = "union" /\ ReadUnion
           \/ Type[1] \in {"list", "table"} /\ ReadList
           \/ Type[1] = "struct" /\ ReadStruct
  <1>1. ~ Return /\ ~ Conclude
    <2>1. Len(Reading.read) # Len(Reading.parts)
      BY DEF InParts
    <2> QED
      BY <2>1 DEF Return, Conclude, AllRead
  <1> QED
    BY <1>1 DEF Step, ReadMagic, ReadVersion, ReadNumber, ReadU64, ReadBool, ReadText, ReadOption,
       ReadEnum, ReadUnion, ReadList, ReadStruct, Reads, Overflow, StackFull, Union

\* Front(Type, v) stands at pos, as far as the input goes.
Stands(v) == \A k \in 1..Len(Front(Type, v)) : pos + k <= Len(bytes) => bytes[pos + k] = Front(Type, v)[k]

\* A slice of the input is what stands there.
LEMMA SliceIs ==
    ASSUME InputOK, NEW data \in Seq(Byte), pos + Len(data) <= Len(bytes),
           \A k \in 1..Len(data) : bytes[pos + k] = data[k]
    PROVE  Slice(pos, Len(data)) = data
  <1> DEFINE s == Slice(pos, Len(data))
             n == Len(data)
  <1>1. bytes \in Seq(Byte) /\ pos \in Nat /\ n \in Nat /\ pos + n <= Len(bytes)
    BY DEF InputOK
  <1>2. s \in Seq(Byte) /\ Len(s) = n /\ \A k \in 1..n : s[k] = bytes[pos + k]
    BY <1>1, SMTT(30) DEF Slice
  <1> HIDE DEF s
  <1>3. s = data
    BY <1>1, <1>2
  <1> QED
    BY <1>3 DEF s

\* A slice of the input is bytes.
LEMMA SliceIsBytes ==
    ASSUME InputOK, NEW from \in Nat, NEW n \in Nat, from + n <= Len(bytes)
    PROVE  Slice(from, n) \in Seq(Byte) /\ Len(Slice(from, n)) = n
           /\ \A k \in 1..n : Slice(from, n)[k] = bytes[from + k]
  BY DEF InputOK, Slice
\* The step enters the value, unless the input ends within what encode wrote for it.
LEMMA ReadsFront ==
    ASSUME InputOK, InParts, Type \in WireTypes, Step, NEW v, Holds(Type, v), Stands(v)
    PROVE  LET n == Len(Front(Type, v)) IN
           \/ Fits(n) /\ Enter(HeadOf(Type, v), n)
           \/ /\ Error("corrupt")
              /\ \/ ~ Fits(n)
                 \/ Type[1] \in {"list", "table"} /\ HeadOf(Type, v) > Len(bytes) - pos - n
           \/ Error("overflow") /\ StackFull
  <1> DEFINE front == Front(Type, v)
             n == Len(front)
             head == HeadOf(Type, v)
             Accepts == Fits(n) /\ Enter(head, n)
             Refuses == /\ Error("corrupt")
                     /\ \/ ~ Fits(n)
                        \/ Type[1] \in {"list", "table"} /\ head > Len(bytes) - pos - n
  <1> SUFFICES Accepts \/ Refuses \/ (Error("overflow") /\ StackFull)
    OBVIOUS
  <1>1. /\ front \in Seq(Byte) /\ n \in Nat /\ n >= Need /\ Need \in Nat
        /\ Type[1] \notin {"str", "bytes"} => n = Need
    BY FrontIsBytes, WidthIsNat DEF Need
  <1>2. bytes \in Seq(Byte) /\ pos \in Nat /\ Len(bytes) \in Nat
    BY DEF InputOK
  <1>3. ASSUME Fits(n)
        PROVE  Slice(pos, n) = front /\ \A k \in 1..n : bytes[pos + k] = front[k]
    <2>1. \A k \in 1..n : bytes[pos + k] = front[k]
      BY <1>1, <1>2, <1>3 DEF Stands, Fits
    <2> QED
      BY <1>1, <1>3, <2>1, SliceIs DEF Fits
  <1>4. CASE UnexpectedEnd
    BY <1>1, <1>2, <1>4 DEF UnexpectedEnd, Fits
  <1>5. Type[1] \notin {"str", "bytes", "opt", "list", "table", "union", "struct"} => head = v
    BY KindFacts DEF HeadOf
  <1> HIDE DEF front, head
  <1>6. CASE Type[1] = "magic" /\ ReadMagic
    <2>1. n = 4 /\ Fits(4) /\ front = Magic /\ v = Magic
      BY <1>1, <1>6, Widths DEF ReadMagic, Need, Front, Holds, front
    <2> QED
      BY <1>3, <1>5, <1>6, <2>1 DEF ReadMagic
  <1>7. CASE Type[1] = "version" /\ ReadVersion
    <2>1. n = 1 /\ Fits(1) /\ front = <<Version>> /\ v = Version
      BY <1>1, <1>7, Widths DEF ReadVersion, Need, Front, Holds, front
    <2>2. bytes[pos + 1] = Version
      BY <1>3, <2>1
    <2> QED
      BY <1>5, <1>7, <2>1, <2>2 DEF ReadVersion
  <1>8. CASE Type[1] \in {"u16", "u32"} /\ ReadNumber
    <2>1. n = Need /\ Fits(n)
      BY <1>1, <1>8 DEF ReadNumber
    <2>2. Number(front) = v
      <3>1. CASE Type[1] = "u16"
        <4>1. v \in 0..(Two - 1) /\ front = LittleEndian(v, 2)
          BY <3>1, Widths DEF Holds, Front, front
        <4> QED
          BY <4>1, U16Written
      <3>2. CASE Type[1] = "u32"
        <4>1. v \in 0..(Four - 1) /\ front = LittleEndian(v, 4)
          BY <3>2, Widths DEF Holds, Front, front
        <4> QED
          BY <4>1, U32Written
      <3> QED
        BY <1>8, <3>1, <3>2
    <2> QED
      BY <1>3, <1>5, <1>8, <2>1, <2>2 DEF ReadNumber
  <1>9. CASE Type[1] = "u64" /\ ReadU64
    <2>1. n = 8 /\ Fits(8) /\ front = v
      BY <1>1, <1>9, Widths DEF ReadU64, Need, Front, front
    <2> QED
      BY <1>3, <1>5, <1>9, <2>1 DEF ReadU64
  <1>10. CASE Type[1] = "bool" /\ ReadBool
    <2>1. n = 1 /\ Fits(1) /\ v \in BOOLEAN /\ front = IF v THEN <<1>> ELSE <<0>>
      BY <1>1, <1>10, Widths DEF ReadBool, Need, Front, Holds, front
    <2>2. (bytes[pos + 1] # 0) = v
      BY <1>3, <2>1
    <2> QED
      BY <1>5, <1>10, <2>1, <2>2 DEF ReadBool
  <1>11. CASE Type[1] = "opt" /\ ReadOption
    <2>1. n = 1 /\ Fits(1) /\ front = <<head>>
      BY <1>1, <1>11, Widths DEF ReadOption, Need, Front, HeadOf, front, head
    <2>2. bytes[pos + 1] = head
      BY <1>3, <2>1
    <2> QED
      BY <1>11, <2>1, <2>2 DEF ReadOption
  <1>12. CASE Type[1] = "enum" /\ ReadEnum
    <2>1. n = 1 /\ Fits(1)
      BY <1>1, <1>12, Widths DEF ReadEnum, Need
    <2>2. PICK tag \in Byte :
             front = <<tag>> /\ tag < Len(Labels(Type[2])) /\ Labels(Type[2])[tag + 1] = v
      BY <1>12, EnumFront DEF front
    <2>3. bytes[pos + 1] = tag
      BY <1>3, <2>1, <2>2
    <2> QED
      BY <1>5, <1>12, <2>1, <2>2, <2>3 DEF ReadEnum
  <1>13. CASE Type[1] = "union" /\ ReadUnion
    <2>1. n = 1 /\ Fits(1)
      BY <1>1, <1>13, Widths DEF ReadUnion, Need
    <2>2. front = <<head>> /\ head \in DOMAIN ReadArms(Type[2])
      BY <1>13, UnionFront DEF HeadOf, front, head
    <2>3. bytes[pos + 1] = head
      BY <1>3, <2>1, <2>2
    <2> QED
      BY <1>13, <2>1, <2>2, <2>3 DEF ReadUnion
  <1>14. CASE Type[1] = "struct" /\ ReadStruct
    <2>1. n = 0 /\ head = 0
      BY <1>1, <1>14, Widths DEF Need, HeadOf, head
    <2>2. Fits(0)
      BY DEF Fits, InputOK
    <2> QED
      BY <1>14, <2>1, <2>2 DEF ReadStruct
  <1>17. CASE Overflow
    BY <1>17 DEF Overflow
  <1>15. CASE Type[1] \in {"list", "table"} /\ ReadList
    <2>1. n = 4 /\ Fits(4) /\ Number(front) = head /\ head \in 0..(Four - 1)
      BY <1>15, ListFront DEF ReadList, front, head
    <2>2. Number(Slice(pos, 4)) = head
      BY <1>3, <2>1
    <2>3. CASE Bounded(head)
      BY <1>15, <2>1, <2>2, <2>3 DEF ReadList
    <2>4. CASE ~ Bounded(head)
      <3>1. Error("corrupt")
        BY <1>15, <2>2, <2>4 DEF ReadList
      <3>2. head > Len(bytes) - pos - 4
        <4>1. head \in Nat
          BY <2>1, TwoAndFour
        <4> QED
          BY <1>2, <2>4, <4>1 DEF Bounded, Remaining
      <3> QED
        BY <1>15, <2>1, <3>1, <3>2
    <2> QED
      BY <2>3, <2>4
  <1>16. CASE Type[1] \in {"str", "bytes"} /\ ReadText
    <2> DEFINE count == LittleEndian(Len(v), 4)
               len == Number(Slice(pos, 4))
               data == Slice(pos + 4, len)
    <2>1. /\ front = count \o v /\ Len(v) \in 0..(Four - 1)
          /\ count \in Seq(Byte) /\ Len(count) = 4 /\ Number(count) = Len(v)
          /\ v \in Seq(Byte) /\ (Type[1] = "str" => Utf8(v))
      BY <1>16, TextFront DEF front
    <2>2. Fits(4) /\ head = v
      BY <1>16 DEF ReadText, HeadOf, head
    <2> HIDE DEF count
    <2>3. /\ n = 4 + Len(v) /\ Len(v) \in Nat
          /\ \A k \in 1..4 : front[k] = count[k]
          /\ \A k \in 1..Len(v) : front[4 + k] = v[k]
      <3>1. count \in Seq(Byte) /\ v \in Seq(Byte)
        BY <2>1
      <3>2. /\ Len(count \o v) = Len(count) + Len(v) /\ Len(v) \in Nat
            /\ \A k \in 1..Len(count) : (count \o v)[k] = count[k]
            /\ \A k \in 1..Len(v) : (count \o v)[Len(count) + k] = v[k]
        BY <3>1, CountedBytes
      <3> QED
        BY <2>1, <3>2
    <2>4. pos + 4 <= Len(bytes)
      BY <2>2 DEF Fits
    <2>5. \A k \in 1..4 : bytes[pos + k] = count[k]
      <3> SUFFICES ASSUME NEW k \in 1..4 PROVE bytes[pos + k] = count[k]
        OBVIOUS
      <3>1. k \in 1..n /\ pos + k <= Len(bytes)
        BY <1>2, <2>3, <2>4
      <3>2. bytes[pos + k] = front[k]
        BY <3>1 DEF Stands, front
      <3> QED
        BY <2>3, <3>2
    <2>6. Slice(pos, 4) = count
      <3>1. pos + Len(count) <= Len(bytes)
        BY <2>1, <2>4
      <3>2. \A k \in 1..Len(count) : bytes[pos + k] = count[k]
        BY <2>1, <2>5
      <3>3. Slice(pos, Len(count)) = count
        BY <2>1, <3>1, <3>2, SliceIs
      <3> QED
        BY <2>1, <3>3
    <2>7. len = Len(v)
      BY <2>1, <2>6
    <2>8. CASE Fits(n)
      <3>1. pos + n <= Len(bytes)
        BY <2>8 DEF Fits
      <3>2. \A k \in 1..Len(v) : bytes[(pos + 4) + k] = v[k]
        <4> SUFFICES ASSUME NEW k \in 1..Len(v) PROVE bytes[(pos + 4) + k] = v[k]
          OBVIOUS
        <4>1. 4 + k \in 1..n /\ pos + (4 + k) = (pos + 4) + k
          BY <1>2, <2>3
        <4>2. bytes[pos + (4 + k)] = front[4 + k]
          BY <1>3, <2>8, <4>1
        <4> QED
          BY <2>3, <4>1, <4>2
      <3>3. /\ Slice(pos + 4, Len(v)) \in Seq(Byte) /\ Len(Slice(pos + 4, Len(v))) = Len(v)
            /\ \A k \in 1..Len(v) : Slice(pos + 4, Len(v))[k] = bytes[(pos + 4) + k]
        <4>1. pos + 4 \in Nat /\ Len(v) \in Nat /\ (pos + 4) + Len(v) <= Len(bytes)
          BY <1>2, <2>3, <3>1
        <4> QED
          BY <4>1, SliceIsBytes
      <3>4. Slice(pos + 4, Len(v)) = v
        <4>1. IsSeq(v) /\ IsSeq(Slice(pos + 4, Len(v)))
          BY <2>1, <3>3, SeqIsSeq
        <4>2. \A k \in 1..Len(v) : Slice(pos + 4, Len(v))[k] = v[k]
          BY <3>2, <3>3
        <4> QED
          BY <3>3, <4>1, <4>2, SameElements
      <3>5. data = v
        BY <2>7, <3>4
      <3>6. ~ (Len(v) > Remaining - 4)
        BY <1>2, <2>3, <3>1 DEF Remaining
      <3>7. Enter(v, 4 + Len(v))
        <4> HIDE DEF len
        <4>1. len = Len(v) /\ Slice(pos + 4, len) = v
          BY <2>7, <3>5
        <4>2. IF len > Remaining - 4 \/ (Type[1] = "str" /\ ~ Utf8(Slice(pos + 4, len)))
              THEN Error("corrupt") ELSE Enter(Slice(pos + 4, len), 4 + len)
          BY <1>16 DEF ReadText, len
        <4> QED
          BY <2>1, <3>6, <4>1, <4>2
      <3> QED
        BY <2>2, <2>3, <2>8, <3>7
    <2>9. CASE ~ Fits(n)
      <3>1. Len(v) > Remaining - 4
        BY <1>2, <2>3, <2>9 DEF Fits, Remaining
      <3>2. Error("corrupt")
        BY <1>16, <2>7, <3>1 DEF ReadText
      <3> QED
        BY <2>9, <3>2
    <2> QED
      BY <2>8, <2>9
  <1> QED
    BY <1>4, <1>6, <1>7, <1>8, <1>9, <1>10, <1>11, <1>12, <1>13, <1>14, <1>15, <1>16, <1>17,
       Dispatch

-----------------------------------------------------------------------------
(* The steps of encode.                                                    *)

\* encode at one moment: its calls and what it has written.
WrotePart(c, d) ==
    LET top == c.calls[Len(c.calls)]
        type == top.parts[top.next + 1][1]
        v == top.parts[top.next + 1][2] IN
    /\ c.calls # << >> /\ top.next < Len(top.parts)
    /\ d.bytes = c.bytes \o Front(type, v)
    /\ \E parts \in Parts(type, v) : d.calls = Append(c.calls, WriteCall(type, v, parts))

WroteAll(c, d) ==
    LET n == Len(c.calls) - 1
        top == c.calls[Len(c.calls)] IN
    /\ Len(c.calls) > 1 /\ top.next = Len(top.parts)
    /\ d.calls = [SubSeq(c.calls, 1, n) EXCEPT ![n].next = @ + 1]
    /\ d.bytes = c.bytes

Wrote(c, d) == WrotePart(c, d) \/ WroteAll(c, d)

\* A call that writes a value that can be encoded.
CallOk(call) ==
    /\ call = [type |-> call.type, value |-> call.value, parts |-> call.parts, next |-> call.next]
    /\ call.type \in CallTypes /\ Good(call.type, call.value)
    /\ call.parts \in Parts(call.type, call.value)
    /\ Len(call.parts) \in Nat /\ DOMAIN call.parts = 1..Len(call.parts)
    /\ call.next \in 0..Len(call.parts)

\* A call writes the next part of the call below it.
CallsOk(calls, program) ==
    /\ IsSeq(calls) /\ Len(calls) >= 1
    /\ calls[1].type = File /\ calls[1].value = program
    /\ \A d \in 1..Len(calls) : CallOk(calls[d])
    /\ \A d \in 1..(Len(calls) - 1) :
          /\ calls[d].next < Len(calls[d].parts)
          /\ calls[d].parts[calls[d].next + 1] = <<calls[d + 1].type, calls[d + 1].value>>
          /\ calls[d + 1].type \in WireTypes

ConfigOk(c, program) == CallsOk(c.calls, program) /\ c.bytes \in Seq(Byte)

IsStart(data, whole) == Len(data) <= Len(whole) /\ \A k \in 1..Len(data) : data[k] = whole[k]

\* What TypeAgrees says of a value that can be encoded.
LEMMA PartsOk ==
    ASSUME NEW type \in CallTypes, NEW v, Good(type, v), NEW parts \in Parts(type, v)
    PROVE  LET types == PartTypes(type, HeadOf(type, v)) IN
           /\ Len(parts) \in Nat /\ DOMAIN parts = 1..Len(parts) /\ Len(types) = Len(parts)
           /\ \A k \in 1..Len(parts) :
                 /\ parts[k] = <<types[k], parts[k][2]>> /\ types[k] \in WireTypes
                 /\ parts[k][1] = types[k] /\ Good(parts[k][1], parts[k][2])
           /\ \A read :
                 (/\ IsSeq(read) /\ Len(read) = Len(parts)
                  /\ \A k \in 1..Len(parts) : read[k] = parts[k][2])
                 => Made(type, HeadOf(type, v), read) = v
  <1> DEFINE types == PartTypes(type, HeadOf(type, v))
  <1>1. Holds(type, v)
    BY GoodHolds
  <1>2. Agrees(type, v)
    BY <1>1, TypeAgrees
  <1>3. /\ Len(parts) \in Nat /\ DOMAIN parts = 1..Len(parts) /\ Len(types) = Len(parts)
        /\ \A k \in 1..Len(parts) : parts[k] = <<types[k], parts[k][2]>> /\ types[k] \in WireTypes
        /\ \A read :
              (/\ IsSeq(read) /\ Len(read) = Len(parts)
               /\ \A k \in 1..Len(parts) : read[k] = parts[k][2])
              => Made(type, HeadOf(type, v), read) = v
    BY <1>2 DEF Agrees
  <1>4. ASSUME NEW k \in 1..Len(parts)
        PROVE  parts[k][1] = types[k] /\ Good(parts[k][1], parts[k][2])
    <2>1. parts[k] = <<types[k], parts[k][2]>>
      BY <1>3
    <2>2. parts[k][1] = types[k]
      BY <2>1
    <2>3. parts[k] = <<parts[k][1], parts[k][2]>>
      BY <2>1, <2>2
    <2>4. k \in DOMAIN parts
      BY <1>3
    <2> QED
      BY <2>2, <2>3, <2>4, GoodParts
  <1> QED
    BY <1>3, <1>4

\* A part that is written next is a value that can be encoded, and so is its call.
LEMMA NewCallOk ==
    ASSUME NEW call, CallOk(call), call.next < Len(call.parts),
           NEW type, type = call.parts[call.next + 1][1],
           NEW v, v = call.parts[call.next + 1][2],
           NEW parts \in Parts(type, v)
    PROVE  /\ type \in WireTypes /\ Good(type, v) /\ Front(type, v) \in Seq(Byte)
           /\ call.parts[call.next + 1] = <<type, v>>
           /\ type = PartTypes(call.type, HeadOf(call.type, call.value))[call.next + 1]
           /\ CallOk(WriteCall(type, v, parts))
  <1> DEFINE k == call.next + 1
  <1>1. k \in 1..Len(call.parts)
    BY DEF CallOk
  <1> HIDE DEF k
  <1>2. /\ call.parts[k] = <<call.parts[k][1], call.parts[k][2]>> /\ call.parts[k][1] \in WireTypes
        /\ Good(call.parts[k][1], call.parts[k][2])
        /\ call.parts[k][1] = PartTypes(call.type, HeadOf(call.type, call.value))[k]
    BY <1>1, PartsOk DEF CallOk
  <1>3. type \in WireTypes /\ Good(type, v) /\ call.parts[k] = <<type, v>>
    BY <1>2 DEF k
  <1>4. type \in CallTypes
    BY <1>3 DEF CallTypes
  <1>5. Len(parts) \in Nat /\ DOMAIN parts = 1..Len(parts)
    BY <1>3, <1>4, PartsOk
  <1>6. CallOk(WriteCall(type, v, parts))
    BY <1>3, <1>4, <1>5 DEF CallOk, WriteCall
  <1>7. Front(type, v) \in Seq(Byte)
    BY <1>3, GoodHolds, FrontIsBytes
  <1> QED
    BY <1>2, <1>3, <1>6, <1>7 DEF k

\* encode has written what stands in front of the next part, and called its function.
LEMMA AfterPart ==
    ASSUME NEW c, NEW d, NEW program, ConfigOk(c, program), WrotePart(c, d)
    PROVE  LET n == Len(c.calls)
               top == c.calls[n]
               type == top.parts[top.next + 1][1]
               v == top.parts[top.next + 1][2] IN
           /\ n \in Nat /\ n >= 1 /\ CallOk(top) /\ top.next \in Nat /\ top.next < Len(top.parts)
           /\ type \in WireTypes /\ Good(type, v) /\ top.parts[top.next + 1] = <<type, v>>
           /\ type = PartTypes(top.type, HeadOf(top.type, top.value))[top.next + 1]
           /\ d.bytes = c.bytes \o Front(type, v) /\ Front(type, v) \in Seq(Byte)
           /\ IsSeq(d.calls) /\ Len(d.calls) = n + 1
           /\ \A k \in 1..n : d.calls[k] = c.calls[k]
           /\ \E parts \in Parts(type, v) :
                 d.calls[n + 1] = WriteCall(type, v, parts) /\ CallOk(WriteCall(type, v, parts))
  <1> DEFINE n == Len(c.calls)
             top == c.calls[n]
             type == top.parts[top.next + 1][1]
             v == top.parts[top.next + 1][2]
  <1>1. IsSeq(c.calls) /\ n \in Nat /\ n >= 1 /\ CallOk(top)
    BY DEF ConfigOk, CallsOk, IsSeq
  <1>2. top.next \in Nat /\ top.next < Len(top.parts)
    <2>1. top.next < Len(top.parts)
      BY DEF WrotePart
    <2>2. top.next \in Nat
      <3> HIDE DEF top
      <3> QED
        BY <1>1 DEF CallOk
    <2> QED
      BY <2>1, <2>2
  <1>3. PICK parts \in Parts(type, v) : d.calls = Append(c.calls, WriteCall(type, v, parts))
    BY DEF WrotePart
  <1>4. d.bytes = c.bytes \o Front(type, v)
    BY DEF WrotePart
  <1>5. /\ type \in WireTypes /\ Good(type, v) /\ Front(type, v) \in Seq(Byte)
        /\ top.parts[top.next + 1] = <<type, v>>
        /\ type = PartTypes(top.type, HeadOf(top.type, top.value))[top.next + 1]
        /\ CallOk(WriteCall(type, v, parts))
    <2> HIDE DEF top
    <2> QED
      BY <1>1, <1>2, <1>3, NewCallOk
  <1>6. /\ IsSeq(d.calls) /\ Len(d.calls) = n + 1
        /\ \A k \in 1..n : d.calls[k] = c.calls[k]
        /\ d.calls[n + 1] = WriteCall(type, v, parts)
    <2> DEFINE call == WriteCall(type, v, parts)
    <2> HIDE DEF call
    <2>1. d.calls = Append(c.calls, call)
      BY <1>3 DEF call
    <2>2. /\ IsSeq(d.calls) /\ Len(d.calls) = n + 1
          /\ \A k \in 1..n : d.calls[k] = c.calls[k]
          /\ d.calls[n + 1] = call
      BY <1>1, <2>1, AppendIsSeq
    <2> QED
      BY <2>2 DEF call
  <1> HIDE DEF n, top, type, v
  <1>7. \E p \in Parts(type, v) :
           d.calls[n + 1] = WriteCall(type, v, p) /\ CallOk(WriteCall(type, v, p))
    BY <1>3, <1>5, <1>6
  <1> QED
    BY <1>1, <1>2, <1>4, <1>5, <1>6, <1>7 DEF n, top, type, v

\* A call of encode has returned, and the call below it has one part less to write.
LEMMA AfterAll ==
    ASSUME NEW c, NEW d, NEW program, ConfigOk(c, program), WroteAll(c, d)
    PROVE  LET n == Len(c.calls) - 1
               call == c.calls[n]
               top == c.calls[n + 1] IN
           /\ n \in Nat /\ n >= 1 /\ Len(c.calls) = n + 1 /\ CallOk(call) /\ CallOk(top)
           /\ top.next = Len(top.parts) /\ call.next < Len(call.parts) /\ call.next \in Nat
           /\ call.parts[call.next + 1] = <<top.type, top.value>> /\ top.type \in WireTypes
           /\ d.bytes = c.bytes
           /\ IsSeq(d.calls) /\ Len(d.calls) = n
           /\ \A k \in 1..(n - 1) : d.calls[k] = c.calls[k]
           /\ d.calls[n] = [type |-> call.type, value |-> call.value, parts |-> call.parts,
                            next |-> call.next + 1]
  <1> DEFINE n == Len(c.calls) - 1
             call == c.calls[n]
             top == c.calls[n + 1]
             after == [call EXCEPT !.next = @ + 1]
  <1>1. /\ n \in Nat /\ n >= 1 /\ Len(c.calls) = n + 1 /\ IsSeq(c.calls) /\ Len(c.calls) > 1
        /\ n \in 1..Len(c.calls) /\ n + 1 \in 1..Len(c.calls) /\ n \in 1..(Len(c.calls) - 1)
    BY DEF ConfigOk, CallsOk, IsSeq, WroteAll
  <1>2. CallOk(call) /\ CallOk(top)
    BY <1>1 DEF ConfigOk, CallsOk
  <1>3. /\ call.next < Len(call.parts)
        /\ call.parts[call.next + 1] = <<top.type, top.value>> /\ top.type \in WireTypes
    BY <1>1 DEF ConfigOk, CallsOk
  <1>4. d.bytes = c.bytes /\ top.next = Len(top.parts)
    BY <1>1 DEF WroteAll
  <1>5. d.calls = [SubSeq(c.calls, 1, n) EXCEPT ![n].next = @ + 1]
    BY DEF WroteAll
  <1>6. SubSeq(c.calls, 1, n)[n] = call
    <2> DEFINE u == SubSeq(c.calls, 1, n)
    <2>1. n = Len(c.calls) - 1 /\ u = SubSeq(c.calls, 1, n)
      OBVIOUS
    <2> HIDE DEF n, u
    <2>2. u[n] = c.calls[n]
      BY <1>1, <2>1, Popped
    <2> QED
      BY <2>2 DEF u
  <1>7. d.calls = [SubSeq(c.calls, 1, n) EXCEPT ![n] = after]
    BY <1>5, <1>6
  <1> HIDE DEF after
  <1>8. /\ IsSeq(d.calls) /\ Len(d.calls) = n
        /\ \A k \in 1..(n - 1) : d.calls[k] = c.calls[k]
        /\ d.calls[n] = after
    <2> DEFINE t == d.calls
               s == c.calls
               u == SubSeq(s, 1, n)
    <2>1. n = Len(s) - 1 /\ IsSeq(s) /\ Len(s) > 1 /\ u = SubSeq(s, 1, n)
      BY <1>1
    <2>2. t = [u EXCEPT ![n] = after]
      BY <1>7
    <2> HIDE DEF n, t, s, u
    <2>3. n \in Nat /\ n >= 1 /\ DOMAIN u = 1..n /\ \A k \in 1..n : u[k] = s[k]
      BY <2>1, Popped
    <2>4. t = [k \in 1..n |-> IF k = n THEN after ELSE u[k]]
      BY <2>2, <2>3, Replaced, Zenon
    <2>5. IsSeq(t) /\ Len(t) = n
      BY <2>3, <2>4, SeqFromElements
    <2>6. (\A k \in 1..(n - 1) : t[k] = s[k]) /\ t[n] = after
      BY <2>3, <2>4
    <2> QED
      BY <2>5, <2>6 DEF t, s
  <1>9. after = [type |-> call.type, value |-> call.value, parts |-> call.parts, next |-> call.next + 1]
    BY <1>2 DEF after, CallOk
  <1>10. call.next \in Nat
    BY <1>2 DEF CallOk
  <1> QED
    BY <1>1, <1>2, <1>3, <1>4, <1>8, <1>9, <1>10

\* Both keep the calls of encode well formed, and only add bytes.
LEMMA ConfigKept ==
    ASSUME NEW c, NEW d, NEW program, ConfigOk(c, program), Wrote(c, d)
    PROVE  ConfigOk(d, program) /\ IsStart(c.bytes, d.bytes)
  <1>1. CASE WrotePart(c, d)
    <2> DEFINE n == Len(c.calls)
               top == c.calls[n]
               type == top.parts[top.next + 1][1]
               v == top.parts[top.next + 1][2]
    <2>1. /\ n \in Nat /\ n >= 1 /\ CallOk(top) /\ top.next \in Nat /\ top.next < Len(top.parts)
          /\ type \in WireTypes /\ Good(type, v) /\ top.parts[top.next + 1] = <<type, v>>
          /\ d.bytes = c.bytes \o Front(type, v) /\ Front(type, v) \in Seq(Byte)
          /\ IsSeq(d.calls) /\ Len(d.calls) = n + 1
          /\ \A k \in 1..n : d.calls[k] = c.calls[k]
      BY <1>1, AfterPart
    <2>2. PICK parts \in Parts(type, v) :
             d.calls[n + 1] = WriteCall(type, v, parts) /\ CallOk(WriteCall(type, v, parts))
      BY <1>1, AfterPart
    <2>9. Len(c.calls) = n /\ c.calls[n] = top
      OBVIOUS
    <2> HIDE DEF n, top, type, v
    <2>3. d.calls[n + 1].type = type /\ d.calls[n + 1].value = v
      BY <2>2 DEF WriteCall
    <2>4. c.bytes \in Seq(Byte)
      BY DEF ConfigOk
    <2>5. d.bytes \in Seq(Byte) /\ IsStart(c.bytes, d.bytes)
      BY <2>1, <2>4, CountedBytes DEF IsStart
    <2>6. d.calls[1].type = File /\ d.calls[1].value = program
      BY <2>1 DEF ConfigOk, CallsOk
    <2>7. \A k \in 1..Len(d.calls) : CallOk(d.calls[k])
      <3> SUFFICES ASSUME NEW k \in 1..Len(d.calls) PROVE CallOk(d.calls[k])
        OBVIOUS
      <3>1. CASE k = n + 1
        BY <2>2, <3>1
      <3>2. CASE k \in 1..n
        BY <2>1, <2>9, <3>2 DEF ConfigOk, CallsOk
      <3> QED
        BY <2>1, <3>1, <3>2
    <2>8. ASSUME NEW k \in 1..(Len(d.calls) - 1)
          PROVE  /\ d.calls[k].next < Len(d.calls[k].parts)
                 /\ d.calls[k].parts[d.calls[k].next + 1] = <<d.calls[k + 1].type, d.calls[k + 1].value>>
                 /\ d.calls[k + 1].type \in WireTypes
      <3>1. CASE k = n
        <4>1. d.calls[k] = top /\ k + 1 = n + 1
          BY <2>1, <2>9, <3>1
        <4> QED
          BY <2>1, <2>3, <4>1
      <3>2. CASE k \in 1..(n - 1)
        <4>1. k \in 1..n /\ k + 1 \in 1..n
          BY <2>1, <3>2, SMTT(30)
        <4> QED
          BY <2>1, <2>9, <3>2, <4>1 DEF ConfigOk, CallsOk
      <3> QED
        BY <2>1, <3>1, <3>2, SMTT(30)
    <2>11. Len(d.calls) >= 1
      BY <2>1
    <2>10. CallsOk(d.calls, program)
      BY <2>1, <2>6, <2>7, <2>8, <2>11 DEF CallsOk
    <2> QED
      BY <2>5, <2>10 DEF ConfigOk
  <1>2. CASE WroteAll(c, d)
    <2> DEFINE n == Len(c.calls) - 1
               call == c.calls[n]
               top == c.calls[n + 1]
    <2>1. /\ n \in Nat /\ n >= 1 /\ Len(c.calls) = n + 1 /\ CallOk(call)
          /\ call.next < Len(call.parts) /\ call.next \in Nat
          /\ d.bytes = c.bytes
          /\ IsSeq(d.calls) /\ Len(d.calls) = n
          /\ \A k \in 1..(n - 1) : d.calls[k] = c.calls[k]
          /\ d.calls[n] = [type |-> call.type, value |-> call.value, parts |-> call.parts,
                           next |-> call.next + 1]
      BY <1>2, AfterAll
    <2> HIDE DEF n
    <2>2. c.bytes \in Seq(Byte) /\ d.bytes \in Seq(Byte) /\ IsStart(c.bytes, d.bytes)
      BY <2>1 DEF ConfigOk, IsStart
    <2>3. d.calls[1].type = File /\ d.calls[1].value = program
      <3>1. c.calls[1].type = File /\ c.calls[1].value = program
        BY DEF ConfigOk, CallsOk
      <3>2. CASE n = 1
        BY <2>1, <3>1, <3>2
      <3>3. CASE n > 1
        BY <2>1, <3>1, <3>3
      <3> QED
        BY <2>1, <3>2, <3>3
    <2>4. CallOk(d.calls[n])
      <3>1. d.calls[n].next \in 0..Len(call.parts)
        BY <2>1 DEF CallOk
      <3> QED
        BY <2>1, <3>1 DEF CallOk
    <2>5. \A k \in 1..Len(d.calls) : CallOk(d.calls[k])
      <3> SUFFICES ASSUME NEW k \in 1..Len(d.calls) PROVE CallOk(d.calls[k])
        OBVIOUS
      <3>1. CASE k = n
        BY <2>4, <3>1
      <3>2. CASE k \in 1..(n - 1)
        <4>1. k \in 1..Len(c.calls)
          BY <2>1, <3>2
        <4> QED
          BY <2>1, <3>2, <4>1 DEF ConfigOk, CallsOk
      <3> QED
        BY <2>1, <3>1, <3>2
    <2>6. ASSUME NEW k \in 1..(Len(d.calls) - 1)
          PROVE  /\ d.calls[k].next < Len(d.calls[k].parts)
                 /\ d.calls[k].parts[d.calls[k].next + 1] = <<d.calls[k + 1].type, d.calls[k + 1].value>>
                 /\ d.calls[k + 1].type \in WireTypes
      <3>1. k \in 1..(n - 1) /\ k \in 1..(Len(c.calls) - 1)
        BY <2>1
      <3>2. d.calls[k + 1].type = c.calls[k + 1].type /\ d.calls[k + 1].value = c.calls[k + 1].value
        <4>1. CASE k + 1 = n
          BY <2>1, <4>1
        <4>2. CASE k + 1 \in 1..(n - 1)
          BY <2>1, <4>2
        <4> QED
          BY <2>1, <3>1, <4>1, <4>2
      <3>3. d.calls[k] = c.calls[k]
        BY <2>1, <3>1
      <3>4. /\ c.calls[k].next < Len(c.calls[k].parts)
            /\ c.calls[k].parts[c.calls[k].next + 1] = <<c.calls[k + 1].type, c.calls[k + 1].value>>
            /\ c.calls[k + 1].type \in WireTypes
        BY <3>1 DEF ConfigOk, CallsOk
      <3> QED
        BY <3>2, <3>3, <3>4
    <2>7. CallsOk(d.calls, program)
      BY <2>1, <2>3, <2>5, <2>6 DEF CallsOk
    <2> QED
      BY <2>2, <2>7 DEF ConfigOk
  <1> QED
    BY <1>1, <1>2 DEF Wrote

-----------------------------------------------------------------------------
(* What a read_ function does wherever it is.                              *)

\* A read_ function has read its head, and it is one of its type.
Entered(head, n) ==
    /\ Fits(n) /\ Enter(head, n) /\ HeadOk(Type, head)
    /\ Type[1] \in {"list", "table"} => head <= Len(bytes)
    /\ Type[1] = "magic" => n = 4 /\ Slice(pos, 4) = Magic
    /\ Type[1] = "version" => n = 1 /\ bytes[pos + 1] = Version

\* A read_ function has returned an error, or there was no room to call it.
Refused(why) ==
    /\ Error(why) /\ why \in {"corrupt", "bad_magic", "bad_version", "overflow"}
    /\ why = "bad_version" => Type[1] = "version" /\ Fits(1) /\ bytes[pos + 1] # Version
    /\ Type[1] = "magic" => ~ Fits(4) \/ Slice(pos, 4) # Magic
    /\ Type[1] = "version" /\ why # "bad_version" => ~ Fits(1)

\* Whatever the input is.
LEMMA ReadsHead ==
    ASSUME InputOK, InParts, Type \in WireTypes, Step
    PROVE  (\E head : \E n \in Nat : Entered(head, n)) \/ (\E why : Refused(why))
  <1>0. /\ bytes \in Seq(Byte) /\ pos \in Nat /\ Len(bytes) \in Nat
        /\ pos + 1 <= Len(bytes) => bytes[pos + 1] \in Byte
    BY DEF InputOK
  <1>1. Type[1] \in {"magic", "version", "u16", "u32", "u64", "bool", "str", "bytes", "enum"} =>
           Type \in PlainTypes
    BY KindFacts
  <1>2. CASE UnexpectedEnd
    <2>1. Error("corrupt") /\ ~ Fits(Need)
      BY <1>2 DEF UnexpectedEnd
    <2>2. Refused("corrupt")
      BY <2>1, Widths DEF Refused, Need
    <2> QED
      BY <2>2
  <1>3. CASE Type[1] = "magic" /\ ReadMagic
    <2>1. CASE Slice(pos, 4) = Magic
      <3>1. Entered(Magic, 4)
        BY <1>1, <1>3, <2>1 DEF ReadMagic, Entered, HeadOk, Holds
      <3> QED
        BY <3>1
    <2>2. CASE Slice(pos, 4) # Magic
      <3>1. Refused("bad_magic")
        BY <1>3, <2>2 DEF ReadMagic, Refused
      <3> QED
        BY <3>1
    <2> QED
      BY <2>1, <2>2
  <1>4. CASE Type[1] = "version" /\ ReadVersion
    <2>1. CASE bytes[pos + 1] = Version
      <3>1. Entered(Version, 1)
        BY <1>1, <1>4, <2>1 DEF ReadVersion, Entered, HeadOk, Holds
      <3> QED
        BY <3>1
    <2>2. CASE bytes[pos + 1] # Version
      <3>1. Refused("bad_version")
        BY <1>4, <2>2 DEF ReadVersion, Refused
      <3> QED
        BY <3>1
    <2> QED
      BY <2>1, <2>2
  <1>5. CASE Type[1] \in {"u16", "u32"} /\ ReadNumber
    <2> DEFINE data == Slice(pos, Need)
    <2>1. Need \in {2, 4} /\ (Type[1] = "u16" => Need = 2) /\ (Type[1] = "u32" => Need = 4)
      BY <1>5, Widths DEF Need
    <2>2. Fits(Need) /\ Enter(Number(data), Need)
      BY <1>5 DEF ReadNumber
    <2>3. Need \in Nat /\ pos + Need <= Len(bytes)
      BY <2>1, <2>2 DEF Fits
    <2>4. data \in Seq(Byte) /\ Len(data) = Need
      BY <1>0, <2>3, SliceIsBytes
    <2> HIDE DEF data
    <2>5. (Type[1] = "u16" => Number(data) \in 0..(Two - 1)) /\ (Type[1] = "u32" => Number(data) \in 0..(Four - 1))
      BY <2>1, <2>4, NumberBound
    <2>6. Holds(Type, Number(data))
      BY <1>5, <2>5 DEF Holds
    <2>7. Entered(Number(data), Need)
      BY <1>1, <1>5, <2>2, <2>6 DEF Entered, HeadOk
    <2> QED
      BY <2>3, <2>7
  <1>6. CASE Type[1] = "u64" /\ ReadU64
    <2>1. Fits(8) /\ Enter(Slice(pos, 8), 8)
      BY <1>6 DEF ReadU64
    <2>2. pos + 8 <= Len(bytes)
      BY <2>1 DEF Fits
    <2>3. Slice(pos, 8) \in Seq(Byte) /\ Len(Slice(pos, 8)) = 8
      BY <1>0, <2>2, SliceIsBytes
    <2>4. Holds(Type, Slice(pos, 8))
      BY <1>6, <2>3 DEF Holds, Byte
    <2>5. Entered(Slice(pos, 8), 8)
      BY <1>1, <1>6, <2>1, <2>4 DEF Entered, HeadOk
    <2> QED
      BY <2>5
  <1>7. CASE Type[1] = "bool" /\ ReadBool
    <2>1. Entered(bytes[pos + 1] # 0, 1)
      BY <1>1, <1>7 DEF ReadBool, Entered, HeadOk, Holds
    <2> QED
      BY <2>1
  <1>8. CASE Type[1] \in {"str", "bytes"} /\ ReadText
    <2> DEFINE len == Number(Slice(pos, 4))
               data == Slice(pos + 4, len)
    <2>1. /\ Fits(4)
          /\ IF len > Remaining - 4 \/ (Type[1] = "str" /\ ~ Utf8(data))
             THEN Error("corrupt") ELSE Enter(data, 4 + len)
      BY <1>8 DEF ReadText
    <2>2. pos + 4 <= Len(bytes)
      BY <2>1 DEF Fits
    <2>3. Slice(pos, 4) \in Seq(Byte) /\ Len(Slice(pos, 4)) = 4
      BY <1>0, <2>2, SliceIsBytes
    <2>4. len \in 0..(Four - 1) /\ len \in Nat
      BY <2>3, NumberBound, TwoAndFour
    <2> HIDE DEF len
    <2>5. CASE len > Remaining - 4 \/ (Type[1] = "str" /\ ~ Utf8(data))
      <3>1. Refused("corrupt")
        BY <1>8, <2>1, <2>5 DEF Refused
      <3> QED
        BY <3>1
    <2>6. CASE ~ (len > Remaining - 4 \/ (Type[1] = "str" /\ ~ Utf8(data)))
      <3>1. (pos + 4) + len <= Len(bytes) /\ pos + 4 \in Nat /\ 4 + len \in Nat /\ pos + (4 + len) <= Len(bytes)
        BY <1>0, <2>4, <2>6 DEF Remaining
      <3>2. data \in Seq(Byte) /\ Len(data) = len
        BY <2>4, <3>1, SliceIsBytes
      <3>3. Enter(data, 4 + len)
        BY <2>1, <2>6
      <3>4. Type[1] = "str" => Utf8(data)
        BY <2>6
      <3> HIDE DEF data
      <3>5. Len(data) < Four
        BY <2>4, <3>2, TwoAndFour
      <3>6. Holds(Type, data)
        BY <1>8, <3>2, <3>4, <3>5 DEF Holds, IsText, Byte
      <3>7. Entered(data, 4 + len)
        BY <1>1, <1>8, <3>1, <3>3, <3>6 DEF Entered, HeadOk, Fits
      <3> QED
        BY <3>1, <3>7
    <2> QED
      BY <2>5, <2>6
  <1>9. CASE Type[1] = "opt" /\ ReadOption
    <2>1. Fits(1) /\ Enter(bytes[pos + 1], 1)
      BY <1>9 DEF ReadOption
    <2>2. bytes[pos + 1] \in Byte
      BY <1>0, <2>1 DEF Fits
    <2>3. Entered(bytes[pos + 1], 1)
      BY <1>9, <2>1, <2>2 DEF Entered, HeadOk
    <2> QED
      BY <2>3
  <1>10. CASE Type[1] = "enum" /\ ReadEnum
    <2> DEFINE labels == Labels(Type[2])
               tag == bytes[pos + 1]
    <2>1. Fits(1) /\ IF tag < Len(labels) THEN Enter(labels[tag + 1], 1) ELSE Error("corrupt")
      BY <1>10 DEF ReadEnum
    <2>2. tag \in Byte
      BY <1>0, <2>1 DEF Fits
    <2>3. Type[2] \in Enums /\ WriteLabels(Type[2]) = labels
      BY <1>10, KindFacts, LabelsOfEnums
    <2>4. Len(labels) \in Nat /\ DOMAIN labels = 1..Len(labels)
      BY <2>3, LabelsFit
    <2>5. CASE tag < Len(labels)
      <3>1. tag + 1 \in DOMAIN labels
        BY <2>2, <2>4, <2>5 DEF Byte
      <3>2. \E k \in DOMAIN WriteLabels(Type[2]) : labels[tag + 1] = WriteLabels(Type[2])[k]
        BY <2>3, <3>1
      <3>3. Holds(Type, labels[tag + 1])
        BY <1>10, <3>2 DEF Holds
      <3>4. Enter(labels[tag + 1], 1)
        BY <2>1, <2>5
      <3>5. Entered(labels[tag + 1], 1)
        BY <1>1, <1>10, <2>1, <3>3, <3>4 DEF Entered, HeadOk
      <3> QED
        BY <3>5
    <2>6. CASE ~ (tag < Len(labels))
      <3>1. Refused("corrupt")
        BY <1>10, <2>1, <2>6 DEF Refused
      <3> QED
        BY <3>1
    <2> QED
      BY <2>5, <2>6
  <1>11. CASE Type[1] = "union" /\ ReadUnion
    <2>1. CASE bytes[pos + 1] \in DOMAIN ReadArms(Type[2])
      <3>1. Entered(bytes[pos + 1], 1)
        BY <1>11, <2>1 DEF ReadUnion, Entered, HeadOk
      <3> QED
        BY <3>1
    <2>2. CASE bytes[pos + 1] \notin DOMAIN ReadArms(Type[2])
      <3>1. Refused("corrupt")
        BY <1>11, <2>2 DEF ReadUnion, Refused
      <3> QED
        BY <3>1
    <2> QED
      BY <2>1, <2>2
  <1>12. CASE Type[1] \in {"list", "table"} /\ ReadList
    <2> DEFINE count == Number(Slice(pos, 4))
    <2>1. Fits(4) /\ IF Bounded(count) THEN Enter(count, 4) ELSE Error("corrupt")
      BY <1>12 DEF ReadList
    <2>2. pos + 4 <= Len(bytes)
      BY <2>1 DEF Fits
    <2>3. Slice(pos, 4) \in Seq(Byte) /\ Len(Slice(pos, 4)) = 4
      BY <1>0, <2>2, SliceIsBytes
    <2>4. count \in 0..(Four - 1) /\ count \in Nat
      BY <2>3, NumberBound, TwoAndFour
    <2> HIDE DEF count
    <2>5. CASE Bounded(count)
      <3>1. count <= Len(bytes)
        BY <1>0, <2>4, <2>5 DEF Bounded, Remaining
      <3>2. Entered(count, 4)
        BY <1>12, <2>1, <2>4, <2>5, <3>1 DEF Entered, HeadOk
      <3> QED
        BY <3>2
    <2>6. CASE ~ Bounded(count)
      <3>1. Refused("corrupt")
        BY <1>12, <2>1, <2>6 DEF Refused
      <3> QED
        BY <3>1
    <2> QED
      BY <2>5, <2>6
  <1>14. CASE Type[1] = "union" /\ Overflow
    <2>1. Refused("overflow")
      BY <1>14 DEF Overflow, Refused
    <2> QED
      BY <2>1
  <1>13. CASE Type[1] = "struct" /\ ReadStruct
    <2>1. Fits(0)
      BY <1>0 DEF Fits, InputOK
    <2>2. Entered(0, 0)
      BY <1>13, <2>1 DEF ReadStruct, Entered, HeadOk
    <2> QED
      BY <2>2
  <1> QED
    BY <1>2, <1>3, <1>4, <1>5, <1>6, <1>7, <1>8, <1>9, <1>10, <1>11, <1>12, <1>13, <1>14,
       Dispatch

-----------------------------------------------------------------------------
(* The stack of decode.                                                    *)

\* A call whose head and whose parts so far have the types that it asked for.
FrameOk(f, limit) ==
    /\ f = [type |-> f.type, head |-> f.head, parts |-> f.parts, read |-> f.read]
    /\ f.type \in CallTypes /\ HeadOk(f.type, f.head) /\ f.parts = PartTypes(f.type, f.head)
    /\ IsSeq(f.read) /\ Len(f.read) <= Len(f.parts)
    /\ \A k \in 1..Len(f.read) : Good(f.parts[k], f.read[k])
    /\ f.type[1] \in {"list", "table"} => f.head <= limit

\* Every call reads the next part of the call below it.
StackOk(s, limit) ==
    /\ IsSeq(s) /\ Len(s) >= 1 /\ s[1].type = File
    /\ \A d \in 1..Len(s) : FrameOk(s[d], limit)
    /\ \A d \in 1..(Len(s) - 1) :
          /\ Len(s[d].read) < Len(s[d].parts)
          /\ s[d].parts[Len(s[d].read) + 1] = s[d + 1].type

ReaderOK == InputOK /\ StackOk(reads, Len(bytes))

\* The length of a sequence is a number.
LEMMA LengthsAreNat == \A s : IsSeq(s) => Len(s) \in Nat
  BY DEF IsSeq

\* The parts that a call asks for.
LEMMA FrameFacts ==
    ASSUME NEW f, NEW limit, FrameOk(f, limit)
    PROVE  /\ Len(f.parts) \in Nat /\ Len(f.read) \in Nat
           /\ \A k \in 1..Len(f.parts) : /\ f.parts[k] \in WireTypes
                                         /\ f.type # File => f.parts[k] \in BodyTypes
  BY PartTypesOk, LengthsAreNat DEF FrameOk

\* The call on top, and the part that is read next.
LEMMA TopFacts ==
    ASSUME ReaderOK
    PROVE  /\ Len(reads) \in Nat /\ reads # << >> /\ FrameOk(Reading, Len(bytes))
           /\ Len(Reading.read) \in Nat /\ Len(Reading.parts) \in Nat
           /\ InParts => Len(Reading.read) + 1 \in 1..Len(Reading.parts) /\ Type \in WireTypes
  <1>1. Len(reads) \in Nat /\ Len(reads) >= 1 /\ Len(reads) \in 1..Len(reads)
    BY LengthsAreNat DEF ReaderOK, StackOk
  <1>2. FrameOk(Reading, Len(bytes))
    BY <1>1 DEF ReaderOK, StackOk, Reading
  <1>3. /\ Len(Reading.parts) \in Nat /\ Len(Reading.read) \in Nat
        /\ \A k \in 1..Len(Reading.parts) : Reading.parts[k] \in WireTypes
    BY <1>2, FrameFacts
  <1>4. InParts => Len(Reading.read) + 1 \in 1..Len(Reading.parts)
    BY <1>3 DEF InParts
  <1>5. reads # << >>
    BY <1>1
  <1> QED
    BY <1>1, <1>2, <1>3, <1>4, <1>5 DEF Type

\* What a step of decode is.
LEMMA StepsOfReader ==
    ASSUME ReaderOK, Step
    PROVE  /\ outcome = "none"
           /\ \/ InParts /\ \E head : \E n \in Nat : Entered(head, n)
              \/ InParts /\ \E why : Refused(why)
              \/ Return
              \/ Conclude
  <1>1. outcome = "none" /\ (InParts \/ Return \/ Conclude)
    BY DEF Step, UnexpectedEnd, ReadMagic, ReadVersion, ReadNumber, ReadU64, ReadBool, ReadText,
           ReadOption, ReadEnum, ReadUnion, ReadList, ReadStruct, Reads, Overflow, InParts, Return,
           Conclude, AllRead
  <1>2. CASE InParts
    <2>1. Type \in WireTypes /\ InputOK
      BY <1>2, TopFacts DEF ReaderOK
    <2> QED
      BY <1>1, <1>2, <2>1, ReadsHead
  <1> QED
    BY <1>1, <1>2

\* Entering pushes a call.
LEMMA Pushed ==
    ASSUME ReaderOK, InParts, NEW head, NEW n \in Nat, Enter(head, n)
    PROVE  /\ IsSeq(reads') /\ Len(reads') = Len(reads) + 1
           /\ \A d \in 1..Len(reads) : reads'[d] = reads[d]
           /\ reads'[Len(reads) + 1] = ReadCall(Type, head)
           /\ pos' = pos + n /\ bytes' = bytes /\ outcome' = outcome
  <1> DEFINE call == ReadCall(Type, head)
             s == reads
             t == reads'
  <1>1. t = Append(s, call) /\ pos' = pos + n /\ bytes' = bytes /\ outcome' = outcome
    BY DEF Enter
  <1>2. IsSeq(s)
    BY DEF ReaderOK, StackOk
  <1> HIDE DEF call, s, t
  <1>3. /\ IsSeq(t) /\ Len(t) = Len(s) + 1 /\ (\A d \in 1..Len(s) : t[d] = s[d])
        /\ t[Len(s) + 1] = call
    BY <1>1, <1>2, AppendIsSeq
  <1> QED
    BY <1>1, <1>3 DEF call, s, t

\* A pushed call that is well formed keeps the stack well formed.
LEMMA StackPushed ==
    ASSUME NEW s, NEW limit, StackOk(s, limit), NEW t, IsSeq(t), Len(t) = Len(s) + 1,
           \A d \in 1..Len(s) : t[d] = s[d], FrameOk(t[Len(s) + 1], limit),
           Len(s[Len(s)].read) < Len(s[Len(s)].parts),
           s[Len(s)].parts[Len(s[Len(s)].read) + 1] = t[Len(s) + 1].type
    PROVE  StackOk(t, limit)
  <1> DEFINE n == Len(s)
             below == s[n]
             call == t[n + 1]
  <1>1. n \in Nat /\ n >= 1
    BY LengthsAreNat DEF StackOk
  <1>2. Len(t) >= 1 /\ t[1].type = File
    BY <1>1 DEF StackOk
  <1>3. \A d \in 1..Len(t) : FrameOk(t[d], limit)
    <2> SUFFICES ASSUME NEW d \in 1..Len(t) PROVE FrameOk(t[d], limit)
      OBVIOUS
    <2>1. CASE d = n + 1
      BY <2>1
    <2>2. CASE d \in 1..n
      BY <2>2 DEF StackOk
    <2> QED
      BY <1>1, <2>1, <2>2
  <1>4. ASSUME NEW d \in 1..(Len(t) - 1)
        PROVE  /\ Len(t[d].read) < Len(t[d].parts)
               /\ t[d].parts[Len(t[d].read) + 1] = t[d + 1].type
    <2>1. CASE d = n
      <3>1. t[d] = below /\ t[d + 1] = call
        BY <1>1, <2>1
      <3> QED
        BY <3>1
    <2>2. CASE d \in 1..(n - 1)
      <3>1. d \in 1..n /\ d + 1 \in 1..n
        BY <1>1, <2>2
      <3> QED
        BY <2>2, <3>1 DEF StackOk
    <2> QED
      BY <1>1, <2>1, <2>2
  <1> QED
    BY <1>2, <1>3, <1>4 DEF StackOk

\* So does a call that returns what it made to the one below.
LEMMA StackPopped ==
    ASSUME NEW s, NEW limit, StackOk(s, limit), NEW t, IsSeq(t), Len(s) > 1, Len(t) = Len(s) - 1,
           \A d \in 1..(Len(t) - 1) : t[d] = s[d],
           LET n == Len(t)
               below == s[n]
               top == s[n + 1] IN
           /\ Len(top.read) = Len(top.parts)
           /\ t[n] = [type |-> below.type, head |-> below.head, parts |-> below.parts,
                      read |-> Append(below.read, Made(top.type, top.head, top.read))]
    PROVE  StackOk(t, limit)
  <1> DEFINE n == Len(t)
             below == s[n]
             top == s[n + 1]
             v == Made(top.type, top.head, top.read)
  <1>0. /\ Len(top.read) = Len(top.parts)
        /\ t[n] = [type |-> below.type, head |-> below.head, parts |-> below.parts,
                   read |-> Append(below.read, v)]
    OBVIOUS
  <1>1. Len(s) = n + 1 /\ n \in Nat /\ n >= 1
    BY LengthsAreNat DEF StackOk
  <1>2. FrameOk(below, limit) /\ FrameOk(top, limit)
    <2>1. n \in 1..Len(s) /\ n + 1 \in 1..Len(s)
      BY <1>1
    <2> QED
      BY <2>1 DEF StackOk
  <1>3. Len(below.read) < Len(below.parts) /\ below.parts[Len(below.read) + 1] = top.type
    BY <1>1 DEF StackOk
  <1>4. /\ Len(below.read) \in Nat /\ Len(below.parts) \in Nat /\ Len(top.parts) \in Nat
        /\ \A k \in 1..Len(top.parts) : top.parts[k] \in WireTypes
    BY <1>2, FrameFacts
  <1>5. Good(top.type, v)
    <2>1. GoodRead(top.type, top.head, top.read)
      BY <1>0, <1>2, <1>4 DEF GoodRead, FrameOk
    <2> QED
      BY <1>2, <2>1, MadeIsGood DEF FrameOk
  <1> DEFINE read == Append(below.read, v)
  <1>6. /\ IsSeq(read) /\ Len(read) = Len(below.read) + 1
        /\ \A k \in 1..Len(below.read) : read[k] = below.read[k]
        /\ read[Len(below.read) + 1] = v
    <2>1. IsSeq(below.read)
      BY <1>2 DEF FrameOk
    <2> QED
      BY <2>1, AppendIsSeq
  <1> HIDE DEF read
  <1>7. \A k \in 1..Len(read) : Good(below.parts[k], read[k])
    <2> SUFFICES ASSUME NEW k \in 1..Len(read) PROVE Good(below.parts[k], read[k])
      OBVIOUS
    <2>1. CASE k = Len(below.read) + 1
      BY <1>3, <1>5, <1>6, <2>1
    <2>2. CASE k \in 1..Len(below.read)
      BY <1>2, <1>6, <2>2 DEF FrameOk
    <2> QED
      BY <1>4, <1>6, <2>1, <2>2, SMTT(30)
  <1>8. /\ t[n].type = below.type /\ t[n].head = below.head /\ t[n].parts = below.parts
        /\ t[n].read = read
        /\ t[n] = [type |-> t[n].type, head |-> t[n].head, parts |-> t[n].parts, read |-> t[n].read]
    BY <1>0 DEF read
  <1>9. FrameOk(t[n], limit)
    <2>1. Len(read) <= Len(below.parts)
      BY <1>3, <1>4, <1>6
    <2> QED
      BY <1>2, <1>6, <1>7, <1>8, <2>1 DEF FrameOk
  <1>10. t[1].type = File
    <2>1. s[1].type = File
      BY DEF StackOk
    <2>2. CASE n = 1
      BY <1>8, <2>1, <2>2
    <2>3. CASE n > 1
      BY <1>1, <2>1, <2>3, SMTT(30)
    <2> QED
      BY <1>1, <2>2, <2>3
  <1>11. \A d \in 1..Len(t) : FrameOk(t[d], limit)
    <2> SUFFICES ASSUME NEW d \in 1..Len(t) PROVE FrameOk(t[d], limit)
      OBVIOUS
    <2>1. CASE d = n
      BY <1>9, <2>1
    <2>2. CASE d \in 1..(n - 1)
      <3>1. d \in 1..Len(s)
        BY <1>1, <2>2
      <3> QED
        BY <2>2, <3>1 DEF StackOk
    <2> QED
      BY <1>1, <2>1, <2>2
  <1>12. ASSUME NEW d \in 1..(Len(t) - 1)
         PROVE  /\ Len(t[d].read) < Len(t[d].parts)
                /\ t[d].parts[Len(t[d].read) + 1] = t[d + 1].type
    <2>1. d \in 1..(n - 1) /\ d \in 1..(Len(s) - 1)
      BY <1>1
    <2>2. t[d + 1].type = s[d + 1].type
      <3>1. CASE d + 1 = n
        BY <1>8, <3>1
      <3>2. CASE d + 1 \in 1..(n - 1)
        BY <3>2
      <3> QED
        BY <1>1, <2>1, <3>1, <3>2
    <2> QED
      BY <2>1, <2>2 DEF StackOk
  <1> QED
    BY <1>1, <1>10, <1>11, <1>12 DEF StackOk

\* Entering keeps the reader's part of the invariant.
LEMMA PushKeeps ==
    ASSUME ReaderOK, InParts, NEW head, NEW n \in Nat, Entered(head, n)
    PROVE  ReaderOK'
  <1> DEFINE call == ReadCall(Type, head)
             type == Type
             s == reads
             t == reads'
             limit == Len(bytes)
             below == Reading
  <1>1. /\ IsSeq(t) /\ Len(t) = Len(s) + 1
        /\ \A d \in 1..Len(s) : t[d] = s[d]
        /\ t[Len(s) + 1] = call
        /\ pos' = pos + n /\ bytes' = bytes
    BY Pushed DEF Entered
  <1>2. InputOK'
    BY <1>1 DEF ReaderOK, InputOK, Entered, Fits
  <1>3. /\ type \in WireTypes /\ type = below.parts[Len(below.read) + 1]
        /\ Len(below.read) < Len(below.parts) /\ below = s[Len(s)]
    BY TopFacts DEF Type, InParts, Reading
  <1>4. HeadOk(type, head) /\ (type[1] \in {"list", "table"} => head <= limit)
    BY DEF Entered
  <1>5. call = [type |-> type, head |-> head, parts |-> PartTypes(type, head), read |-> << >>]
    BY DEF ReadCall
  <1>6. StackOk(s, limit)
    BY DEF ReaderOK
  <1> HIDE DEF call, type, s, t, limit, below
  <1>7. /\ call = [type |-> call.type, head |-> call.head, parts |-> call.parts, read |-> call.read]
        /\ call.type = type /\ call.head = head /\ call.parts = PartTypes(type, head)
        /\ call.read = << >>
    BY <1>5
  <1>8. FrameOk(call, limit)
    <2>1. type \in CallTypes
      BY <1>3 DEF CallTypes
    <2>2. Len(PartTypes(type, head)) \in Nat
      BY <1>4, <2>1, PartTypesOk
    <2>3. IsSeq(<< >>) /\ Len(<< >>) = 0
      BY DEF IsSeq
    <2> QED
      BY <1>4, <1>7, <2>1, <2>2, <2>3 DEF FrameOk
  <1>9. StackOk(t, limit)
    <2>1. /\ FrameOk(t[Len(s) + 1], limit) /\ Len(s[Len(s)].read) < Len(s[Len(s)].parts)
          /\ s[Len(s)].parts[Len(s[Len(s)].read) + 1] = t[Len(s) + 1].type
      BY <1>1, <1>3, <1>7, <1>8
    <2> QED
      BY <1>1, <1>6, <2>1, StackPushed
  <1> QED
    BY <1>1, <1>2, <1>9 DEF ReaderOK, t, limit

\* Returning pops a call and hands its value to the one below.
LEMMA PoppedReads ==
    ASSUME ReaderOK, Return
    PROVE  LET n == Len(reads) - 1
               below == reads[n]
               top == reads[n + 1]
               v == Made(top.type, top.head, top.read) IN
           /\ Len(reads) > 1 /\ n \in Nat /\ n >= 1 /\ Len(reads) = n + 1
           /\ Len(top.read) = Len(top.parts)
           /\ IsSeq(reads') /\ Len(reads') = n /\ \A d \in 1..(n - 1) : reads'[d] = reads[d]
           /\ reads'[n] = [type |-> below.type, head |-> below.head, parts |-> below.parts,
                           read |-> Append(below.read, v)]
           /\ bytes' = bytes /\ pos' = pos /\ outcome' = outcome
  <1> DEFINE n == Len(reads) - 1
             below == reads[n]
             top == reads[n + 1]
             v == Made(top.type, top.head, top.read)
             rest == Append(below.read, v)
             after == [below EXCEPT !.read = rest]
             s == reads
             t == reads'
             u == SubSeq(s, 1, n)
  <1>1. Len(s) > 1 /\ n \in Nat /\ n >= 1 /\ Len(s) = n + 1 /\ IsSeq(s) /\ n \in 1..Len(s) /\ u = SubSeq(s, 1, n) /\ n = Len(s) - 1
    BY LengthsAreNat DEF Return, ReaderOK, StackOk
  <1>2. Reading = top
    BY <1>1 DEF Reading
  <1>3. Len(top.read) = Len(top.parts) /\ bytes' = bytes /\ pos' = pos /\ outcome' = outcome
    BY <1>2 DEF Return, AllRead
  <1>4. t = [u EXCEPT ![n].read = Append(@, v)]
    BY <1>2 DEF Return
  <1>5. FrameOk(below, Len(bytes))
    BY <1>1 DEF ReaderOK, StackOk
  <1>6. after = [type |-> below.type, head |-> below.head, parts |-> below.parts,
                 read |-> rest]
    <2> HIDE DEF below, rest
    <2> QED
      BY <1>5 DEF FrameOk
  <1> HIDE DEF n, u, v
  <1>7. DOMAIN u = 1..n /\ \A k \in 1..n : u[k] = s[k]
    <2> HIDE DEF s
    <2> QED
      BY <1>1, Popped
  <1>8. t = [u EXCEPT ![n] = after]
    <2>1. u[n] = below
      BY <1>1, <1>7
    <2> HIDE DEF t, below
    <2> QED
      BY <1>4, <2>1
  <1> HIDE DEF after, s, t
  <1>9. t = [k \in 1..n |-> IF k = n THEN after ELSE u[k]]
    BY <1>7, <1>8, Replaced, Zenon
  <1>10. IsSeq(t) /\ Len(t) = n
    BY <1>1, <1>9, SeqFromElements
  <1>11. (\A k \in 1..(n - 1) : t[k] = s[k]) /\ t[n] = after
    BY <1>1, <1>7, <1>9
  <1> QED
    BY <1>1, <1>3, <1>6, <1>10, <1>11 DEF s, t, n, v

\* Returning keeps the reader's part of the invariant.
LEMMA ReturnKeeps ==
    ASSUME ReaderOK, Return
    PROVE  ReaderOK'
  <1> DEFINE n == Len(reads) - 1
             below == reads[n]
             top == reads[n + 1]
             v == Made(top.type, top.head, top.read)
             s == reads
             t == reads'
             limit == Len(bytes)
  <1>1. /\ Len(s) > 1 /\ n = Len(s) - 1 /\ below = s[n] /\ top = s[n + 1]
        /\ v = Made(top.type, top.head, top.read)
        /\ Len(top.read) = Len(top.parts)
        /\ IsSeq(t) /\ Len(t) = n /\ \A d \in 1..(n - 1) : t[d] = s[d]
        /\ t[n] = [type |-> below.type, head |-> below.head, parts |-> below.parts,
                   read |-> Append(below.read, v)]
        /\ bytes' = bytes /\ pos' = pos
    BY PoppedReads
  <1>2. InputOK'
    BY <1>1 DEF ReaderOK, InputOK
  <1>3. StackOk(s, limit)
    BY DEF ReaderOK
  <1>4. StackOk(t, limit)
    <2> HIDE DEF s, t, limit
    <2>1. /\ Len(s) > 1 /\ IsSeq(t) /\ Len(t) = Len(s) - 1 /\ Len(s) = Len(t) + 1
          /\ \A d \in 1..(Len(t) - 1) : t[d] = s[d]
      BY <1>1
    <2>2. LET m == Len(t)
              b == s[m]
              a == s[m + 1] IN
          /\ Len(a.read) = Len(a.parts)
          /\ t[m] = [type |-> b.type, head |-> b.head, parts |-> b.parts,
                     read |-> Append(b.read, Made(a.type, a.head, a.read))]
      BY <1>1 DEF s, t
    <2> QED
      BY <1>3, <2>1, <2>2, StackPopped
  <1> QED
    BY <1>1, <1>2, <1>4 DEF ReaderOK, t, limit

\* The reader's part of the invariant, for all that happens to it.
LEMMA StepKeepsReader ==
    ASSUME ReaderOK, Step
    PROVE  ReaderOK' /\ bytes' = bytes
  <1>1. ASSUME InParts, NEW head, NEW n \in Nat, Entered(head, n)
        PROVE  ReaderOK' /\ bytes' = bytes
    BY <1>1, PushKeeps DEF Entered, Enter
  <1>2. ASSUME NEW why, Error(why)
        PROVE  ReaderOK' /\ bytes' = bytes
    BY <1>2 DEF Error, ReaderOK, InputOK
  <1>3. CASE Return
    BY <1>3, ReturnKeeps DEF Return
  <1>4. CASE Conclude
    BY <1>2, <1>4 DEF Conclude
  <1> QED
    BY <1>1, <1>2, <1>3, <1>4, StepsOfReader DEF Refused

\* decode begins with a well-formed stack.
LEMMA StartStack ==
    ASSUME NEW limit
    PROVE  StackOk(Start, limit)
  <1> DEFINE call == ReadCall(File, 0)
             s == Start
  <1>1. s = <<call>>
    BY DEF Start
  <1>2. call = [type |-> File, head |-> 0, parts |-> PartTypes(File, 0), read |-> << >>]
    BY DEF ReadCall
  <1> HIDE DEF call, s
  <1>3. /\ call = [type |-> call.type, head |-> call.head, parts |-> call.parts, read |-> call.read]
        /\ call.type = File /\ call.head = 0 /\ call.parts = PartTypes(File, 0)
        /\ call.read = << >>
    BY <1>2
  <1>4. File \in CallTypes /\ HeadOk(File, 0) /\ File[1] = "file"
    BY DEF CallTypes, HeadOk, File
  <1>5. Len(PartTypes(File, 0)) \in Nat
    BY <1>4, PartTypesOk
  <1>6. IsSeq(<< >>) /\ Len(<< >>) = 0
    BY DEF IsSeq
  <1>7. FrameOk(call, limit)
    BY <1>3, <1>4, <1>5, <1>6 DEF FrameOk
  <1>8. IsSeq(s) /\ Len(s) = 1 /\ s[1] = call
    BY <1>1 DEF IsSeq
  <1>9. StackOk(s, limit)
    BY <1>3, <1>7, <1>8 DEF StackOk
  <1> QED
    BY <1>9 DEF s

-----------------------------------------------------------------------------
(* decode of any input: it stays inside, and the version decides.          *)

\* How far the file is read before its program, and what that showed.
HeaderRead ==
    LET m == Len(reads[1].read) IN
    /\ m = 0 /\ Len(reads) = 1 => pos = 0
    /\ m = 0 /\ Len(reads) > 1 => pos = 4 /\ Len(reads) = 2 /\ reads[2].type = MagicBytes
    /\ m = 1 /\ Len(reads) = 1 => pos = 4
    /\ m > 1 \/ (m = 1 /\ Len(reads) > 1) => bytes[5] = Version /\ outcome # "bad_version"

DecodingInv == ReaderOK /\ HeaderRead /\ VersionFirst

\* The call of decode itself is at the bottom.
LEMMA FilePart ==
    ASSUME ReaderOK
    PROVE  /\ reads[1].parts = FileTypes /\ Len(reads[1].read) \in 0..3 /\ Len(FileTypes) = 3
           /\ FileTypes[1] = MagicBytes /\ FileTypes[2] = VersionByte
           /\ FileTypes[3] = Struct("program")
           /\ FrameOk(reads[1], Len(bytes)) /\ reads[1].type = File /\ reads[1].head = 0
  <1>1. 1 \in 1..Len(reads) /\ reads[1].type = File
    BY LengthsAreNat DEF ReaderOK, StackOk
  <1>2. FrameOk(reads[1], Len(bytes))
    BY <1>1 DEF ReaderOK, StackOk
  <1>3. Len(FileTypes) = 3 /\ FileTypes[1] = MagicBytes /\ FileTypes[2] = VersionByte
        /\ FileTypes[3] = Struct("program")
    BY DEF FileTypes
  <1>4. reads[1].head = 0
    BY <1>1, <1>2, PlainKind DEF FrameOk, HeadOk, File
  <1>5. reads[1].parts = FileTypes
    BY <1>1, <1>2 DEF FrameOk, PartTypes, File
  <1>6. Len(reads[1].read) \in Nat /\ Len(reads[1].read) <= 3
    BY <1>2, <1>3, <1>5, LengthsAreNat DEF FrameOk
  <1>7. Len(reads[1].read) \in 0..3
    <2> DEFINE m == Len(reads[1].read)
    <2>1. m \in Nat /\ m <= 3
      BY <1>6
    <2> HIDE DEF m
    <2>2. m \in 0..3
      BY <2>1
    <2> QED
      BY <2>2 DEF m
  <1> QED
    BY <1>1, <1>2, <1>3, <1>4, <1>5, <1>7

\* The next part is magic or the version only where the file is read.
LEMMA HeaderParts ==
    ASSUME ReaderOK, InParts
    PROVE  LET m == Len(reads[1].read) IN
           /\ Len(reads) = 1 => m < 3 /\ Type = FileTypes[m + 1]
           /\ Type[1] \in {"magic", "version"} => Len(reads) = 1 /\ m < 2
  <1> DEFINE m == Len(reads[1].read)
  <1> SUFFICES /\ Len(reads) = 1 => m < 3 /\ Type = FileTypes[m + 1]
               /\ Type[1] \in {"magic", "version"} => Len(reads) = 1 /\ m < 2
    OBVIOUS
  <1>1. Len(reads) \in Nat /\ Len(reads) >= 1
    BY LengthsAreNat DEF ReaderOK, StackOk
  <1>2. CASE Len(reads) = 1
    <2>1. Reading = reads[1]
      BY <1>2 DEF Reading
    <2>2. Type = FileTypes[Len(reads[1].read) + 1] /\ Len(reads[1].read) < 3
      BY <2>1, FilePart DEF Type, InParts
    <2>3. FileTypes[3][1] = "struct"
      BY FilePart DEF Struct
    <2>4. m \in 0..3
      BY FilePart
    <2> HIDE DEF m
    <2>5. ASSUME m = 2 PROVE Type[1] = "struct"
      <3>1. m + 1 = 3
        BY <2>5
      <3> QED
        BY <2>2, <2>3, <3>1 DEF m
    <2>9. m < 3
      BY <2>2 DEF m
    <2>6. m = 0 \/ m = 1 \/ m = 2
      BY <2>4, <2>9
    <2>7. m < 3 /\ Type = FileTypes[m + 1]
      BY <2>2 DEF m
    <2>8. Type[1] \in {"magic", "version"} => m < 2
      BY <2>5, <2>6
    <2> QED
      BY <1>2, <2>7, <2>8
  <1>3. CASE Len(reads) > 1
    <2> DEFINE n == Len(reads) - 1
    <2>1. n \in 1..(Len(reads) - 1) /\ n \in 1..Len(reads) /\ n + 1 = Len(reads) /\ n + 1 \in 1..Len(reads)
      BY <1>1, <1>3
    <2>2. Reading = reads[n + 1] /\ FrameOk(reads[n + 1], Len(bytes)) /\ FrameOk(reads[n], Len(bytes))
      BY <2>1 DEF Reading, ReaderOK, StackOk
    <2>3. Reading.type = reads[n].parts[Len(reads[n].read) + 1] /\ Len(reads[n].read) < Len(reads[n].parts)
      BY <2>1, <2>2 DEF ReaderOK, StackOk
    <2>4. Len(reads[n].read) + 1 \in 1..Len(reads[n].parts)
      BY <2>2, <2>3, FrameFacts
    <2>5. Reading.type \in WireTypes
      BY <2>2, <2>3, <2>4, FrameFacts
    <2>6. Reading.type # File
      BY <2>5, KindFacts DEF File
    <2>7. Type \in BodyTypes
      <3>1. Len(Reading.read) + 1 \in 1..Len(Reading.parts)
        BY TopFacts
      <3> QED
        BY <2>2, <2>6, <3>1, FrameFacts DEF Type
    <2>9. Len(reads) # 1
      <3> DEFINE depth == Len(reads)
      <3>1. depth > 1
        BY <1>3
      <3> HIDE DEF depth
      <3>2. depth # 1
        BY <3>1
      <3> QED
        BY <3>2 DEF depth
    <2>8. Len(reads) # 1 /\ Type[1] \notin {"magic", "version"}
      BY <2>7, <2>9, BodyKinds
    <2> QED
      BY <2>8
  <1>4. Len(reads) = 1 \/ Len(reads) > 1
    <2> DEFINE depth == Len(reads)
    <2>1. depth \in Nat /\ depth >= 1
      BY <1>1
    <2> HIDE DEF depth
    <2>2. depth = 1 \/ depth > 1
      BY <2>1
    <2> QED
      BY <2>2 DEF depth
  <1> HIDE DEF m
  <1> QED
    BY <1>2, <1>3, <1>4

\* A step keeps the header's part of the invariant.
LEMMA StepKeepsHeader ==
    ASSUME DecodingInv, Step
    PROVE  HeaderRead' /\ VersionFirst'
  <1> DEFINE m == Len(reads[1].read)
  <1>0. ReaderOK /\ ReaderOK' /\ bytes' = bytes /\ HeaderRead
    BY StepKeepsReader DEF DecodingInv
  <1>1. /\ Len(reads) \in Nat /\ Len(reads) >= 1 /\ m \in 0..3
        /\ bytes \in Seq(Byte) /\ pos \in Nat /\ Len(bytes) \in Nat
    BY <1>0, FilePart, LengthsAreNat DEF ReaderOK, StackOk, InputOK
  <1>2. /\ m = 0 /\ Len(reads) = 1 => pos = 0
        /\ m = 0 /\ Len(reads) > 1 => pos = 4 /\ Len(reads) = 2 /\ reads[2].type = MagicBytes
        /\ m = 1 /\ Len(reads) = 1 => pos = 4
        /\ m > 1 \/ (m = 1 /\ Len(reads) > 1) => bytes[5] = Version /\ outcome # "bad_version"
    BY <1>0 DEF HeaderRead
  <1>3. outcome = "none"
    BY <1>0, StepsOfReader
  <1> HIDE DEF m
  <1>8. /\ \/ (m = 0 /\ Len(reads) = 1) \/ (m = 0 /\ Len(reads) > 1) \/ (m = 1 /\ Len(reads) = 1)
           \/ (m > 1 \/ (m = 1 /\ Len(reads) > 1))
        /\ (m > 1 \/ (m = 1 /\ Len(reads) > 1)) => m # 0 /\ ~ (Len(reads) = 1 /\ m < 2)
    <2> DEFINE depth == Len(reads)
    <2>1. depth \in Nat /\ depth >= 1 /\ m \in 0..3
      BY <1>1
    <2> HIDE DEF depth
    <2>2. /\ \/ (m = 0 /\ depth = 1) \/ (m = 0 /\ depth > 1) \/ (m = 1 /\ depth = 1)
             \/ (m > 1 \/ (m = 1 /\ depth > 1))
          /\ (m > 1 \/ (m = 1 /\ depth > 1)) => m # 0 /\ ~ (depth = 1 /\ m < 2)
      BY <2>1
    <2> QED
      BY <2>2 DEF depth
  <1>4. ASSUME InParts, NEW head, NEW n \in Nat, Entered(head, n)
        PROVE  HeaderRead' /\ VersionFirst'
    <2>1. /\ Len(reads') = Len(reads) + 1 /\ \A d \in 1..Len(reads) : reads'[d] = reads[d]
          /\ reads'[Len(reads) + 1] = ReadCall(Type, head)
          /\ pos' = pos + n /\ outcome' = outcome
      BY <1>0, <1>4, Pushed DEF Entered
    <2>2. reads'[1] = reads[1]
      BY <1>1, <2>1
    <2>3. VersionFirst'
      BY <1>3, <2>1 DEF VersionFirst
    <2>4. Len(reads) = 1 => m < 3 /\ Type = FileTypes[m + 1]
      BY <1>0, <1>4, HeaderParts DEF m
    <2>5. CASE m = 0 /\ Len(reads) = 1
      <3>1. Type = MagicBytes
        BY <2>4, <2>5, <1>0, FilePart
      <3>2. n = 4
        BY <1>4, <3>1 DEF Entered, MagicBytes
      <3>3. reads'[2].type = MagicBytes
        BY <2>1, <2>5, <3>1 DEF ReadCall
      <3> QED
        BY <1>2, <2>1, <2>2, <2>3, <2>5, <3>2, <3>3 DEF HeaderRead, m
    <2>6. CASE m = 0 /\ Len(reads) > 1
      <3>1. Len(reads) = 2 /\ reads[2].type = MagicBytes /\ FrameOk(reads[2], Len(bytes))
        BY <1>0, <1>2, <2>6 DEF ReaderOK, StackOk
      <3>2. reads[2].parts = << >>
        BY <3>1 DEF FrameOk, PartTypes, MagicBytes
      <3>3. Reading.parts = << >>
        BY <3>1, <3>2 DEF Reading
      <3>4. Len(Reading.read) \in Nat
        BY <1>0, TopFacts
      <3> QED
        BY <1>4, <3>3, <3>4 DEF InParts
    <2>7. CASE m = 1 /\ Len(reads) = 1
      <3>1. Type = VersionByte
        BY <2>4, <2>7, <1>0, FilePart
      <3>2. bytes[5] = Version
        BY <1>2, <1>4, <2>7, <3>1 DEF Entered, VersionByte
      <3>3. outcome' # "bad_version"
        BY <1>3, <2>1
      <3> QED
        BY <1>0, <2>1, <2>2, <2>3, <2>7, <3>2, <3>3 DEF HeaderRead, m
    <2>8. CASE m > 1 \/ (m = 1 /\ Len(reads) > 1)
      <3>1. bytes[5] = Version /\ outcome # "bad_version"
        BY <1>2, <2>8
      <3>2. m # 0 /\ Len(reads') > 1
        BY <1>1, <2>1, <2>8
      <3> QED
        BY <1>0, <1>1, <2>1, <2>2, <2>3, <2>8, <3>1, <3>2 DEF HeaderRead, m
    <2>9. (m = 0 /\ Len(reads) = 1) \/ (m = 0 /\ Len(reads) > 1) \/ (m = 1 /\ Len(reads) = 1)
          \/ (m > 1 \/ (m = 1 /\ Len(reads) > 1))
      BY <1>8
    <2> QED
      BY <2>5, <2>6, <2>7, <2>8, <2>9
  <1>5. ASSUME InParts, NEW why, Refused(why)
        PROVE  HeaderRead' /\ VersionFirst'
    <2>1. outcome' = why /\ reads' = reads /\ pos' = pos /\ why # "none"
      BY <1>5 DEF Refused, Error
    <2>2. /\ Len(reads) = 1 => m < 3 /\ Type = FileTypes[m + 1]
          /\ Type[1] \in {"magic", "version"} => Len(reads) = 1 /\ m < 2
      BY <1>0, <1>5, HeaderParts DEF m
    <2>3. CASE m = 0 /\ Len(reads) = 1
      <3>1. Type[1] = "magic" /\ pos = 0
        BY <1>0, <1>2, <2>2, <2>3, FilePart DEF MagicBytes
      <3>2. ~ Fits(4) \/ Slice(pos, 4) # Magic
        BY <1>5, <3>1 DEF Refused
      <3>3. ~ (Len(bytes) > 4 /\ SubSeq(bytes, 1, 4) = Magic)
        BY <1>1, <3>1, <3>2 DEF Fits, Slice
      <3>4. VersionFirst'
        BY <1>0, <3>3 DEF VersionFirst
      <3> QED
        BY <1>2, <2>1, <2>3, <3>4 DEF HeaderRead, m
    <2>4. CASE m = 1 /\ Len(reads) = 1
      <3>1. Type[1] = "version" /\ pos = 4
        BY <1>0, <1>2, <2>2, <2>4, FilePart DEF VersionByte
      <3>2. why = "bad_version" => bytes[5] # Version
        BY <1>5, <3>1 DEF Refused
      <3>3. why # "bad_version" => ~ (Len(bytes) > 4)
        BY <1>1, <1>5, <3>1 DEF Refused, Fits
      <3>4. VersionFirst'
        BY <1>0, <2>1, <3>2, <3>3 DEF VersionFirst
      <3> QED
        BY <1>2, <2>1, <2>4, <3>4 DEF HeaderRead, m
    <2>5. CASE m = 0 /\ Len(reads) > 1
      <3>1. Len(reads) = 2 /\ reads[2].type = MagicBytes /\ FrameOk(reads[2], Len(bytes))
        BY <1>0, <1>2, <2>5 DEF ReaderOK, StackOk
      <3>2. reads[2].parts = << >>
        BY <3>1 DEF FrameOk, PartTypes, MagicBytes
      <3>3. Reading.parts = << >>
        BY <3>1, <3>2 DEF Reading
      <3>4. Len(Reading.read) \in Nat
        BY <1>0, TopFacts
      <3> QED
        BY <1>5, <3>3, <3>4 DEF InParts
    <2>6. CASE m > 1 \/ (m = 1 /\ Len(reads) > 1)
      <3>1. bytes[5] = Version
        BY <1>2, <2>6
      <3>2. why # "bad_version"
        <4>1. ~ (Len(reads) = 1 /\ m < 2)
          BY <1>8, <2>6
        <4> QED
          BY <1>5, <2>2, <4>1 DEF Refused
      <3>3. VersionFirst'
        BY <1>0, <2>1, <3>1, <3>2 DEF VersionFirst
      <3> QED
        BY <1>0, <1>1, <2>1, <2>6, <3>1, <3>2, <3>3 DEF HeaderRead, m
    <2>7. (m = 0 /\ Len(reads) = 1) \/ (m = 0 /\ Len(reads) > 1) \/ (m = 1 /\ Len(reads) = 1)
          \/ (m > 1 \/ (m = 1 /\ Len(reads) > 1))
      BY <1>8
    <2> QED
      BY <2>3, <2>4, <2>5, <2>6, <2>7
  <1>6. CASE Return
    <2> DEFINE n == Len(reads) - 1
               below == reads[n]
               top == reads[n + 1]
               v == Made(top.type, top.head, top.read)
               read == Append(below.read, v)
    <2>1. /\ Len(reads) > 1 /\ n \in Nat /\ n >= 1 /\ Len(reads) = n + 1
          /\ Len(reads') = n /\ \A d \in 1..(n - 1) : reads'[d] = reads[d]
          /\ reads'[n] = [type |-> below.type, head |-> below.head, parts |-> below.parts,
                          read |-> read]
          /\ pos' = pos /\ outcome' = outcome
      BY <1>0, <1>6, PoppedReads
    <2>2. n = 1 => Len(read) = m + 1
      <3>1. IsSeq(reads[1].read)
        BY <1>0, FilePart DEF FrameOk
      <3>2. n = 1 => below.read = reads[1].read
        OBVIOUS
      <3> HIDE DEF v
      <3> QED
        BY <3>1, <3>2, AppendIsSeq DEF m
    <2> HIDE DEF n, read
    <2>3. reads'[n].read = read
      BY <2>1
    <2>4. IF n = 1 THEN Len(reads'[1].read) = m + 1 ELSE Len(reads'[1].read) = m
      <3>1. CASE n = 1
        BY <2>2, <2>3, <3>1
      <3>2. CASE n > 1
        BY <2>1, <3>2 DEF m
      <3> QED
        BY <2>1, <3>1, <3>2
    <2>5. VersionFirst'
      BY <1>3, <2>1 DEF VersionFirst
    <2>6. CASE m = 0
      <3>1. n = 1 /\ pos = 4
        BY <1>2, <2>1, <2>6
      <3> QED
        <4>1. Len(reads'[1].read) = 1 /\ Len(reads') = 1 /\ pos' = 4
          BY <2>1, <2>4, <2>6, <3>1
        <4> QED
          BY <2>5, <4>1 DEF HeaderRead
    <2>7. CASE m >= 1
      <3>1. bytes[5] = Version /\ outcome # "bad_version"
        BY <1>1, <1>2, <2>1, <2>7
      <3>2. n > 1 => Len(reads') > 1
        BY <2>1
      <3>3. (n = 1 => Len(reads'[1].read) > 1) /\ (n > 1 => Len(reads'[1].read) >= 1) /\ Len(reads'[1].read) \in Nat
        BY <1>1, <2>1, <2>4, <2>7
      <3> QED
        <4> DEFINE k == Len(reads'[1].read)
                   depth == Len(reads')
        <4>0. (n = 1 => k > 1) /\ (n > 1 => depth > 1) /\ k \in Nat /\ k >= 1 /\ n \in Nat /\ n >= 1
          BY <1>1, <2>1, <2>4, <2>7, <3>2, <3>3
        <4> HIDE DEF k, depth
        <4>3. k # 0 /\ (k = 1 => depth > 1 /\ depth # 1)
          BY <4>0
        <4>1. k # 0 /\ (k = 1 => Len(reads') > 1 /\ Len(reads') # 1)
          BY <4>3 DEF depth
        <4>2. bytes'[5] = Version /\ outcome' # "bad_version"
          BY <1>0, <2>1, <3>1
        <4>4. HeaderRead'
          BY <4>1, <4>2 DEF HeaderRead, k
        <4> QED
          BY <2>5, <4>4
    <2> QED
      BY <1>1, <2>6, <2>7
  <1>7. CASE Conclude
    <2>1. /\ Len(reads) = 1 /\ Len(Reading.read) = Len(Reading.parts)
          /\ outcome' \in {"ok", "corrupt"} /\ reads' = reads /\ pos' = pos
      BY <1>7 DEF Conclude, AllRead, Error
    <2>2. m = 3
      BY <1>0, <2>1, FilePart DEF Reading, m
    <2>3. bytes[5] = Version
      BY <1>2, <2>2
    <2>4. VersionFirst'
      BY <1>0, <2>1, <2>3 DEF VersionFirst
    <2> QED
      BY <1>0, <2>1, <2>2, <2>3, <2>4 DEF HeaderRead, m
  <1> QED
    BY <1>0, <1>4, <1>5, <1>6, <1>7, StepsOfReader

\* The stack says that counts are within the input.
LEMMA StackFits == ReaderOK => ReadsFit
  <1> SUFFICES ASSUME ReaderOK PROVE ReadsFit
    OBVIOUS
  <1>1. DOMAIN reads = 1..Len(reads)
    BY SeqOfElements DEF ReaderOK, StackOk
  <1> QED
    BY <1>1 DEF ReaderOK, InputOK, StackOk, FrameOk, ReadsFit

\* Whatever the input is, decode keeps its stack well formed, every value it has made one
\* that could be encoded, its counts within the input and its header as it was found.
THEOREM DecodingKeepsInv == Decoding => []DecodingInv
  <1>1. ASSUME NEW input \in Seq(0..(Radix - 1)), Init(input)
        PROVE  DecodingInv
    <2>1. bytes \in Seq(Byte) /\ pos = 0 /\ reads = Start /\ outcome = "none"
      BY <1>1 DEF Init, Byte
    <2>2. ReaderOK
      BY <2>1, StartStack DEF ReaderOK, InputOK
    <2>3. Len(reads) = 1 /\ reads[1].read = << >>
      BY <2>1 DEF Start, ReadCall
    <2>4. HeaderRead
      BY <2>1, <2>3 DEF HeaderRead
    <2> QED
      BY <2>1, <2>2, <2>4 DEF DecodingInv, VersionFirst
  <1>2. (\E input \in Seq(0..(Radix - 1)) : Init(input)) => DecodingInv
    BY <1>1
  <1>3. DecodingInv /\ [Step]_vars => DecodingInv'
    <2>1. CASE Step
      BY <2>1, StepKeepsReader, StepKeepsHeader DEF DecodingInv
    <2>2. CASE UNCHANGED vars
      BY <2>2 DEF vars, DecodingInv, ReaderOK, InputOK, HeaderRead, VersionFirst
    <2> QED
      BY <2>1, <2>2
  <1> QED
    BY <1>2, <1>3, PTL DEF Decoding

\* ReadsFit on any input: decode never passes the end of its data, and no list it makes
\* room for has more elements than the data has bytes (need, bounded_count).
THEOREM ReaderStaysInside == Decoding => []ReadsFit
  <1>1. DecodingInv => ReadsFit
    BY StackFits DEF DecodingInv
  <1> QED
    BY <1>1, DecodingKeepsInv, PTL

\* VersionFirst on any input: behind a right magic, decode returns BadVersion if and only
\* if the version differs (read of the header).
THEOREM VersionDecides == Decoding => []VersionFirst
  <1>1. DecodingInv => VersionFirst
    BY DEF DecodingInv
  <1> QED
    BY <1>1, DecodingKeepsInv, PTL

-----------------------------------------------------------------------------
(* The lists that encode writes are paid for.                              *)

\* The structs that lists and tables are made of.
Elements == {"pair", "member", "matcher", "probe"}

\* The elements of lists and tables are such structs, or begin with a byte.
LEMMA ElementParts ==
    ASSUME NEW call, CallOk(call), call.type[1] \in {"list", "table"},
           NEW k \in 1..Len(call.parts)
    PROVE  /\ call.parts[k][1] \in WireTypes
           /\ call.parts[k][1][1] = "struct" => \E s \in Elements : call.parts[k][1] = Struct(s)
  <1> DEFINE head == HeadOf(call.type, call.value)
             types == PartTypes(call.type, head)
             t == call.parts[k][1]
  <1>1. t = types[k] /\ t \in WireTypes /\ Len(types) = Len(call.parts)
    <2>1. /\ Len(types) = Len(call.parts)
          /\ \A j \in 1..Len(call.parts) : call.parts[j][1] = types[j] /\ types[j] \in WireTypes
      BY PartsOk DEF CallOk
    <2> HIDE DEF types
    <2> QED
      BY <2>1
  <1>2. head \in 0..(Four - 1)
    BY GoodHolds, ListFront DEF CallOk
  <1>3. types = [j \in 1..head |-> call.type[2]]
    BY DEF PartTypes
  <1> HIDE DEF head
  <1>4. Len(types) = head
    BY <1>2, <1>3, TwoAndFour
  <1>5. types[k] = call.type[2]
    <2>1. k \in 1..head
      BY <1>1, <1>4
    <2> QED
      BY <1>3, <2>1
  <1> HIDE DEF types
  <1>6. t = call.type[2]
    BY <1>1, <1>5
  <1>7. CASE call.type = Table(Struct("probe"))
    <2>1. t = Struct("probe")
      BY <1>6, <1>7 DEF Table
    <2> QED
      BY <1>1, <2>1 DEF Elements
  <1>8. ASSUME NEW e \in ElementTypes, call.type = List(e)
        PROVE  t[1] = "struct" => \E s \in Elements : t = Struct(s)
    <2>1. t = e
      BY <1>6, <1>8 DEF List
    <2> QED
      BY <2>1 DEF ElementTypes, Elements, Str, Bytes, Union, Struct
  <1>9. call.type = Table(Struct("probe")) \/ \E e \in ElementTypes : call.type = List(e)
    <2>1. call.type \in CallTypes
      BY DEF CallOk
    <2>2. call.type \notin PlainTypes
      BY PlainKind
    <2>3. call.type # File /\ (\A s \in Structs : call.type # Struct(s))
          /\ (\A u \in Unions : call.type # Union(u)) /\ (\A o \in OptionTypes : call.type # Opt(o))
      BY DEF File, Struct, Union, Opt
    <2> QED
      BY <2>1, <2>2, <2>3, KindsOfTypes
  <1> QED
    BY <1>1, <1>7, <1>8, <1>9

\* Each begins with its name, and has more than that.
LEMMA ElementStarts ==
    ASSUME NEW call, CallOk(call), NEW s \in Elements, call.type = Struct(s)
    PROVE  Len(call.parts) >= 2 /\ Len(call.parts) \in Nat /\ call.parts[1][1] = Str
  <1> DEFINE fields == ReadFields(s)
             types == PartTypes(call.type, HeadOf(call.type, call.value))
  <1>1. Len(fields) \in {2, 3} /\ DOMAIN fields = 1..Len(fields) /\ fields[1][2] = Str
    <2>1. CASE s = "matcher"
      BY <2>1 DEF ReadFields, MatcherFields
    <2>2. CASE s = "pair"
      BY <2>2 DEF ReadFields
    <2>3. CASE s = "member"
      BY <2>3 DEF ReadFields
    <2>4. CASE s = "probe"
      BY <2>4 DEF ReadFields
    <2> QED
      BY <2>1, <2>2, <2>3, <2>4 DEF Elements
  <1>2. types = [k \in DOMAIN fields |-> fields[k][2]]
    BY DEF PartTypes, HeadOf, Struct
  <1> HIDE DEF fields
  <1>3. Len(types) = Len(fields) /\ types[1] = Str
    BY <1>1, <1>2
  <1>4. /\ Len(call.parts) \in Nat /\ Len(types) = Len(call.parts)
        /\ \A j \in 1..Len(call.parts) : call.parts[j][1] = types[j]
    BY PartsOk DEF CallOk
  <1> HIDE DEF types
  <1>5. Len(call.parts) \in {2, 3}
    BY <1>1, <1>3, <1>4
  <1>6. 1 \in 1..Len(call.parts) /\ Len(call.parts) >= 2
    <2> DEFINE n == Len(call.parts)
    <2>1. n \in {2, 3}
      BY <1>5
    <2> HIDE DEF n
    <2>2. 1 \in 1..n /\ n >= 2
      BY <2>1
    <2> QED
      BY <2>2 DEF n
  <1> QED
    BY <1>3, <1>4, <1>6

\* All but a struct begins with a byte.
LEMMA FrontStarts ==
    ASSUME NEW type \in WireTypes, NEW v, Holds(type, v)
    PROVE  /\ Len(Front(type, v)) \in Nat
           /\ type[1] # "struct" => Len(Front(type, v)) >= 1
           /\ type = Str => Len(Front(type, v)) >= 1
  <1> DEFINE n == Len(Front(type, v))
  <1>1. n \in Nat /\ n >= Width[type[1]]
    BY FrontIsBytes
  <1>2. type[1] # "struct" => Width[type[1]] \in 1..8
    BY KindFacts, Widths
  <1>3. type = Str => type[1] # "struct"
    BY DEF Str
  <1> HIDE DEF n
  <1>4. n \in Nat /\ (type[1] # "struct" => n >= 1) /\ (type = Str => n >= 1)
    BY <1>1, <1>2, <1>3
  <1> QED
    BY <1>4 DEF n

-----------------------------------------------------------------------------
(* A list is no longer than what is written for it.                        *)

\* Has the next element written something?
Started(calls, d) ==
    IF Len(calls) > d + 1
       \/ (Len(calls) = d + 1 /\ (calls[d + 1].type[1] # "struct" \/ calls[d + 1].next > 0))
    THEN 1 ELSE 0

\* With the list on top of c, as many bytes follow as elements are written.
Pays(c, e) ==
    LET d == Len(c.calls)
        top == c.calls[d] IN
    (top.type[1] \in {"list", "table"} /\ top.next = 0) =>
        \/ Len(e.bytes) >= Len(c.bytes) + Len(top.parts)
        \/ /\ Len(e.calls) >= d
           /\ e.calls[d].type = top.type /\ e.calls[d].parts = top.parts
           /\ Len(e.bytes) >= Len(c.bytes) + e.calls[d].next + Started(e.calls, d)

\* No element is written yet when a list is on top.
LEMMA PaysStart ==
    ASSUME NEW c, NEW program, ConfigOk(c, program)
    PROVE  Pays(c, c)
  <1> DEFINE d == Len(c.calls)
             top == c.calls[d]
             size == Len(c.bytes)
             started == Started(c.calls, d)
  <1>1. d \in Nat /\ size \in Nat
    BY LengthsAreNat DEF ConfigOk, CallsOk
  <1>2. started = 0
    <2> HIDE DEF d
    <2>1. ~ (d > d + 1) /\ ~ (d = d + 1)
      BY <1>1
    <2> QED
      BY <2>1 DEF Started, d
  <1>3. d >= d /\ (top.next = 0 => size >= size + top.next + started)
    <2> HIDE DEF d, top, size, started
    <2> QED
      BY <1>1, <1>2
  <1> QED
    BY <1>3 DEF Pays

\* encode only adds bytes.
LEMMA Grows ==
    ASSUME NEW e, NEW f, e.bytes \in Seq(Byte), f.bytes \in Seq(Byte), IsStart(e.bytes, f.bytes)
    PROVE  Len(e.bytes) \in Nat /\ Len(f.bytes) \in Nat /\ Len(f.bytes) >= Len(e.bytes)
  BY DEF IsStart

\* The two steps of encode, in the terms of the call on top.
WritesPart(e, f, above, type, v) ==
    /\ above = e.calls[Len(e.calls)] /\ CallOk(above) /\ above.next \in Nat
    /\ above.next < Len(above.parts) /\ type = above.parts[above.next + 1][1]
    /\ type = PartTypes(above.type, HeadOf(above.type, above.value))[above.next + 1]
    /\ type \in WireTypes /\ Good(type, v)
    /\ f.bytes = e.bytes \o Front(type, v) /\ Front(type, v) \in Seq(Byte)
    /\ Len(f.calls) = Len(e.calls) + 1
    /\ \A k \in 1..Len(e.calls) : f.calls[k] = e.calls[k]
    /\ CallOk(f.calls[Len(e.calls) + 1]) /\ f.calls[Len(e.calls) + 1].type = type
    /\ f.calls[Len(e.calls) + 1].value = v /\ f.calls[Len(e.calls) + 1].next = 0

WritesAll(e, f, n, call, above) ==
    /\ n \in Nat /\ n >= 1 /\ Len(e.calls) = n + 1
    /\ call = e.calls[n] /\ above = e.calls[n + 1] /\ above.next = Len(above.parts)
    /\ CallOk(call) /\ CallOk(above) /\ call.next \in Nat
    /\ call.parts[call.next + 1] = <<above.type, above.value>>
    /\ f.bytes = e.bytes /\ Len(f.calls) = n
    /\ \A k \in 1..(n - 1) : f.calls[k] = e.calls[k]
    /\ f.calls[n] = [type |-> call.type, value |-> call.value, parts |-> call.parts,
                     next |-> call.next + 1]

\* AfterPart, and
LEMMA PartWritten ==
    ASSUME NEW e, NEW f, NEW program, ConfigOk(e, program), WrotePart(e, f)
    PROVE  \E above, type, v : WritesPart(e, f, above, type, v)
  <1> DEFINE n == Len(e.calls)
             top == e.calls[n]
             type == top.parts[top.next + 1][1]
             v == top.parts[top.next + 1][2]
  <1>1. /\ CallOk(top) /\ top.next \in Nat /\ type \in WireTypes /\ Good(type, v)
        /\ f.bytes = e.bytes \o Front(type, v) /\ Front(type, v) \in Seq(Byte)
        /\ Len(f.calls) = n + 1 /\ \A k \in 1..n : f.calls[k] = e.calls[k]
        /\ top.next < Len(top.parts)
        /\ type = PartTypes(top.type, HeadOf(top.type, top.value))[top.next + 1]
    BY AfterPart
  <1>2. \E parts \in Parts(type, v) :
           f.calls[n + 1] = WriteCall(type, v, parts) /\ CallOk(WriteCall(type, v, parts))
    BY AfterPart
  <1>3. /\ f.calls[n + 1].type = type /\ f.calls[n + 1].value = v /\ f.calls[n + 1].next = 0
        /\ CallOk(f.calls[n + 1])
    <2>1. PICK parts \in Parts(type, v) :
             f.calls[n + 1] = WriteCall(type, v, parts) /\ CallOk(WriteCall(type, v, parts))
      BY <1>2
    <2> HIDE DEF type, v, n
    <2>2. CallOk(f.calls[n + 1])
      BY <2>1
    <2>3. f.calls[n + 1] = [type |-> type, value |-> v, parts |-> parts, next |-> 0]
      BY <2>1 DEF WriteCall
    <2> QED
      BY <2>2, <2>3
  <1>4. top = e.calls[Len(e.calls)] /\ type = top.parts[top.next + 1][1] /\ n = Len(e.calls)
    OBVIOUS
  <1> HIDE DEF n, top, type, v
  <1> QED
    BY <1>1, <1>3, <1>4 DEF WritesPart

\* AfterAll.
LEMMA AllWritten ==
    ASSUME NEW e, NEW f, NEW program, ConfigOk(e, program), WroteAll(e, f)
    PROVE  \E n, call, above : WritesAll(e, f, n, call, above)
  <1> DEFINE n == Len(e.calls) - 1
             call == e.calls[n]
             above == e.calls[n + 1]
  <1>1. /\ n \in Nat /\ n >= 1 /\ Len(e.calls) = n + 1
        /\ above.next = Len(above.parts)
        /\ CallOk(call) /\ CallOk(above) /\ call.next \in Nat
        /\ call.parts[call.next + 1] = <<above.type, above.value>>
        /\ f.bytes = e.bytes /\ Len(f.calls) = n
        /\ \A k \in 1..(n - 1) : f.calls[k] = e.calls[k]
        /\ f.calls[n] = [type |-> call.type, value |-> call.value, parts |-> call.parts,
                         next |-> call.next + 1]
    BY AfterAll
  <1>2. call = e.calls[n] /\ above = e.calls[n + 1]
    OBVIOUS
  <1> HIDE DEF n, call, above
  <1>3. WritesAll(e, f, n, call, above)
    BY <1>1, <1>2 DEF WritesAll
  <1> QED
    BY <1>3

\* Every step of encode keeps the lists before it paid for: a call that returns to a list has
\* written a byte, since an element is a struct that begins with its name, or begins with a byte.
LEMMA PaysStep ==
    ASSUME NEW c, NEW e, NEW f, NEW program, ConfigOk(c, program), ConfigOk(e, program),
           Wrote(e, f), Pays(c, e)
    PROVE  Pays(c, f)
  <1> DEFINE d == Len(c.calls)
             top == c.calls[d]
             size == Len(c.bytes)
             count == Len(top.parts)
             depth == Len(e.calls)
             deep == Len(f.calls)
             before == Len(e.bytes)
             after == Len(f.bytes)
  <1>1. /\ ConfigOk(f, program) /\ before \in Nat /\ after \in Nat /\ after >= before
        /\ size \in Nat
    <2>1. ConfigOk(f, program) /\ IsStart(e.bytes, f.bytes)
      BY ConfigKept
    <2>2. e.bytes \in Seq(Byte) /\ f.bytes \in Seq(Byte) /\ c.bytes \in Seq(Byte)
      BY <2>1 DEF ConfigOk
    <2> QED
      BY <2>1, <2>2, Grows
  <1>2. /\ d \in Nat /\ d >= 1 /\ depth \in Nat /\ depth >= 1 /\ deep \in Nat /\ deep >= 1
        /\ CallOk(top)
    <2>1. d \in Nat /\ d >= 1 /\ depth \in Nat /\ depth >= 1 /\ deep \in Nat /\ deep >= 1
      BY <1>1, LengthsAreNat DEF ConfigOk, CallsOk
    <2>2. d \in 1..d
      <3> HIDE DEF d
      <3> QED
        BY <2>1
    <2> QED
      BY <2>1, <2>2 DEF ConfigOk, CallsOk
  <1>3. count \in Nat
    BY <1>2 DEF CallOk
  <1> DEFINE Enough == after >= size + count
             Going == /\ deep >= d /\ f.calls[d].type = top.type /\ f.calls[d].parts = top.parts
                      /\ after >= size + f.calls[d].next + Started(f.calls, d)
  <1> SUFFICES ASSUME top.type[1] \in {"list", "table"}, top.next = 0
               PROVE  Enough \/ Going
    BY DEF Pays
  <1>4. \/ before >= size + count
        \/ /\ depth >= d /\ e.calls[d].type = top.type /\ e.calls[d].parts = top.parts
           /\ before >= size + e.calls[d].next + Started(e.calls, d)
    BY DEF Pays
  <1>5. CASE before >= size + count
    <2> HIDE DEF before, after, size, count
    <2> QED
      BY <1>1, <1>3, <1>5
  <1>6. CASE /\ depth >= d /\ e.calls[d].type = top.type /\ e.calls[d].parts = top.parts
             /\ before >= size + e.calls[d].next + Started(e.calls, d)
    <2> DEFINE list == e.calls[d]
               next == list.next
               begun == Started(e.calls, d)
    <2>1. /\ depth >= d /\ list.type = top.type /\ list.parts = top.parts
          /\ before >= size + next + begun
      BY <1>6
    <2>2. CallOk(list) /\ next \in Nat /\ next <= count
      <3>1. d \in 1..depth
        <4> HIDE DEF d, depth
        <4> QED
          BY <1>2, <2>1
      <3>2. CallOk(list)
        BY <3>1 DEF ConfigOk, CallsOk
      <3>3. next \in 0..count
        BY <2>1, <3>2 DEF CallOk
      <3> HIDE DEF next, count
      <3> QED
        BY <1>3, <3>2, <3>3
    <2>3. begun \in {0, 1}
      BY DEF Started
    <2>4. ASSUME depth >= d + 1
          PROVE  /\ CallOk(e.calls[d + 1])
                 /\ e.calls[d + 1].type[1] = "struct" =>
                       \E s \in Elements : e.calls[d + 1].type = Struct(s)
      <3>1. d \in 1..(depth - 1) /\ d + 1 \in 1..depth
        <4> HIDE DEF d, depth
        <4> QED
          BY <1>2, <2>4
      <3>2. /\ CallOk(e.calls[d + 1]) /\ next < Len(list.parts)
            /\ list.parts[next + 1] = <<e.calls[d + 1].type, e.calls[d + 1].value>>
        BY <3>1 DEF ConfigOk, CallsOk
      <3>3. next + 1 \in 1..Len(list.parts)
        <4> DEFINE n == Len(list.parts)
        <4>1. n \in Nat /\ next < n
          BY <2>2, <3>2 DEF CallOk
        <4> HIDE DEF n, next
        <4>2. next + 1 \in 1..n
          BY <2>2, <4>1
        <4> QED
          BY <4>2 DEF n
      <3>4. list.parts[next + 1][1] = e.calls[d + 1].type
        <4> DEFINE part == list.parts[next + 1]
                   child == e.calls[d + 1]
        <4>1. part = <<child.type, child.value>>
          BY <3>2
        <4> HIDE DEF part, child
        <4>2. part[1] = child.type
          BY <4>1
        <4> QED
          BY <4>2 DEF part, child
      <3>5. list.type[1] \in {"list", "table"}
        BY <2>1
      <3> HIDE DEF list, next
      <3>6. list.parts[next + 1][1][1] = "struct" => \E s \in Elements : list.parts[next + 1][1] = Struct(s)
        BY <2>2, <3>3, <3>5, ElementParts
      <3> QED
        BY <3>2, <3>4, <3>6
    <2>5. CASE WrotePart(e, f)
      <3>0. PICK above, type, v : WritesPart(e, f, above, type, v)
        BY <2>5, PartWritten, Zenon
      <3> DEFINE front == Front(type, v)
                 new == f.calls[depth + 1]
                 starts == Started(f.calls, d)
      <3>1. /\ CallOk(above) /\ above.next \in Nat /\ type \in WireTypes /\ Good(type, v)
            /\ f.bytes = e.bytes \o front /\ front \in Seq(Byte)
            /\ deep = depth + 1 /\ \A k \in 1..depth : f.calls[k] = e.calls[k]
            /\ above = e.calls[depth] /\ type = above.parts[above.next + 1][1]
        BY <3>0 DEF WritesPart
      <3>2. new.type = type /\ new.next = 0
        BY <3>0 DEF WritesPart
      <3>3. after = before + Len(front) /\ Len(front) \in Nat
        <4>1. e.bytes \in Seq(Byte) /\ front \in Seq(Byte)
          BY <3>1 DEF ConfigOk
        <4>2. f.bytes = e.bytes \o front /\ before = Len(e.bytes) /\ after = Len(f.bytes)
          BY <3>1
        <4> HIDE DEF front, before, after
        <4> QED
          BY <4>1, <4>2, CountedBytes
      <3>4. f.calls[d] = list
        <4>1. d \in 1..depth
          <5> HIDE DEF d, depth
          <5> QED
            BY <1>2, <2>1
        <4> QED
          BY <3>1, <4>1
      <3>5. /\ type[1] # "struct" => Len(front) >= 1
            /\ type = Str => Len(front) >= 1
        <4> QED
          BY <3>1, GoodHolds, FrontStarts
      <3>6. starts \in {0, 1}
        BY DEF Started
      <3>7. begun = 0 => starts <= Len(front)
        <4> SUFFICES ASSUME begun = 0 PROVE starts <= Len(front)
          OBVIOUS
        <4>1. /\ ~ (depth > d + 1)
              /\ ~ (depth = d + 1 /\ (e.calls[d + 1].type[1] # "struct" \/ e.calls[d + 1].next > 0))
          BY DEF Started
        <4>2. CASE depth = d
          <5>1. starts = 1 => type[1] # "struct"
            <6>1. d + 1 = depth + 1 /\ ~ (deep > d + 1) /\ ~ (0 > 0)
              <7>1. deep = depth + 1
                BY <3>1
              <7> HIDE DEF d, depth, deep
              <7> QED
                BY <1>2, <4>2, <7>1
            <6>2. f.calls[d + 1] = new
              BY <6>1
            <6> HIDE DEF new, deep
            <6> QED
              BY <3>2, <6>1, <6>2 DEF Started, deep
          <5> HIDE DEF starts, front
          <5> QED
            BY <3>3, <3>5, <3>6, <5>1
        <4>3. CASE depth = d + 1
          <5>1. above = e.calls[d + 1]
            BY <3>1, <4>3
          <5>2. PICK s \in Elements : above.type = Struct(s)
            <6>1. depth >= d + 1
              <7> HIDE DEF d, depth
              <7> QED
                BY <1>2, <4>3
            <6> QED
              BY <2>4, <4>1, <4>3, <5>1, <6>1
          <5>3. above.next = 0
            <6>1. ~ (above.next > 0)
              BY <4>1, <4>3, <5>1
            <6>2. above.next \in Nat
              BY <3>1
            <6> QED
              BY <6>1, <6>2
          <5>4. type = Str
            <6>1. above.parts[1][1] = Str
              <7> QED
                BY <3>1, <5>2, ElementStarts
            <6>2. above.next + 1 = 1
              BY <5>3
            <6> QED
              BY <3>1, <6>1, <6>2
          <5> HIDE DEF starts, front
          <5> QED
            BY <3>3, <3>5, <3>6, <5>4
        <4>4. depth = d \/ depth = d + 1
          <5>1. ~ (depth > d + 1)
            BY <4>1
          <5> HIDE DEF d, depth
          <5> QED
            BY <1>2, <2>1, <5>1
        <4> QED
          BY <4>2, <4>3, <4>4
      <3>8. deep >= d /\ after >= size + next + starts
        <4> DEFINE length == Len(front)
        <4>1. /\ after = before + length /\ length \in Nat /\ deep = depth + 1
              /\ (begun = 0 => starts <= length)
          BY <3>1, <3>3, <3>7
        <4> HIDE DEF after, before, length, starts, begun, next, size, depth, deep, d
        <4> QED
          BY <1>1, <1>2, <2>1, <2>2, <2>3, <3>6, <4>1
      <3> QED
        BY <2>1, <3>4, <3>8
    <2>6. CASE WroteAll(e, f)
      <3>0. PICK n, call, above : WritesAll(e, f, n, call, above)
        BY <2>6, AllWritten, Zenon
      <3> DEFINE starts == Started(f.calls, d)
      <3>1. /\ n \in Nat /\ n >= 1 /\ depth = n + 1 /\ above.next = Len(above.parts)
            /\ f.bytes = e.bytes /\ deep = n /\ \A k \in 1..(n - 1) : f.calls[k] = e.calls[k]
            /\ f.calls[n] = [type |-> call.type, value |-> call.value, parts |-> call.parts,
                             next |-> call.next + 1]
            /\ call = e.calls[n] /\ above = e.calls[n + 1]
        BY <3>0 DEF WritesAll
      <3>2. after = before
        BY <3>1
      <3>3. starts \in {0, 1}
        BY DEF Started
      <3>4. CASE depth = d
        <4>1. n + 1 = d
          BY <3>1, <3>4
        <4>2. above = list
          BY <3>1, <4>1
        <4>3. next = count
          BY <2>1, <3>1, <4>2
        <4>4. Enough
          <5> HIDE DEF after, before, size, next, count, begun
          <5> QED
            BY <1>1, <2>1, <2>2, <2>3, <3>2, <4>3
        <4> QED
          BY <4>4
      <3>5. CASE depth = d + 1
        <4>1. n = d /\ n + 1 = d + 1
          <5> HIDE DEF d, depth
          <5> QED
            BY <1>2, <3>1, <3>5
        <4>2. /\ f.calls[d].type = list.type /\ f.calls[d].parts = list.parts
              /\ f.calls[d].next = next + 1
          <5>1. call = list /\ f.calls[d] = f.calls[n]
            BY <3>1, <4>1
          <5> HIDE DEF list, d
          <5> QED
            BY <3>1, <5>1
        <4>3. starts = 0
          <5>1. ~ (deep > d + 1) /\ ~ (deep = d + 1)
            <6> HIDE DEF d, deep
            <6> QED
              BY <1>2, <3>1, <4>1
          <5> QED
            BY <5>1 DEF Started
        <4>4. begun = 1
          <5>1. above = e.calls[d + 1]
            BY <3>1, <4>1
          <5>2. depth >= d + 1
            <6> HIDE DEF d, depth
            <6> QED
              BY <1>2, <3>5
          <5>3. ASSUME above.type[1] = "struct" PROVE above.next > 0
            <6>1. PICK s \in Elements : above.type = Struct(s)
              BY <2>4, <5>1, <5>2, <5>3
            <6>2. CallOk(above)
              BY <2>4, <5>1, <5>2
            <6> DEFINE m == Len(above.parts)
            <6>3. m >= 2 /\ m \in Nat
              <7> QED
                BY <6>1, <6>2, ElementStarts
            <6>4. above.next = m
              BY <3>1
            <6> HIDE DEF m
            <6> QED
              BY <6>3, <6>4
          <5> QED
            BY <3>5, <5>1, <5>3 DEF Started
        <4>5. deep >= d /\ after >= size + (next + 1) + starts
          <5> HIDE DEF after, before, size, next, begun, starts, deep, d
          <5> QED
            BY <1>1, <1>2, <2>1, <2>2, <3>1, <3>2, <4>1, <4>3, <4>4
        <4>6. Going
          BY <2>1, <4>2, <4>5
        <4> QED
          BY <4>6
      <3>6. CASE depth > d + 1
        <4>1. d \in 1..(n - 1) /\ deep >= d
          <5> HIDE DEF d, depth, deep
          <5> QED
            BY <1>2, <3>1, <3>6
        <4>2. f.calls[d] = list
          BY <3>1, <4>1
        <4>3. begun = 1
          BY <3>6 DEF Started
        <4>4. after >= size + next + starts
          <5> HIDE DEF after, before, size, next, begun, starts
          <5> QED
            BY <1>1, <2>1, <2>2, <3>2, <3>3, <4>3
        <4>5. Going
          BY <2>1, <4>1, <4>2, <4>4
        <4> QED
          BY <4>5
      <3>7. depth = d \/ depth = d + 1 \/ depth > d + 1
        <4> HIDE DEF d, depth
        <4> QED
          BY <1>2, <2>1
      <3> QED
        BY <3>4, <3>5, <3>6, <3>7
    <2> QED
      BY <2>5, <2>6 DEF Wrote
  <1> QED
    BY <1>4, <1>5, <1>6

-----------------------------------------------------------------------------
(* What encode has gone through.                                           *)

\* What encode has gone through on its way to e.
History(H, e, program) ==
    /\ e \in H /\ \E b \in H : b.calls = Begun(program) /\ b.bytes = << >>
    /\ \A c \in H : /\ ConfigOk(c, program) /\ IsStart(c.bytes, e.bytes) /\ Pays(c, e)
                    /\ c = e \/ \E d \in H : Wrote(c, d)

\* A start of a start is a start.
LEMMA StartOfStart ==
    ASSUME NEW a \in Seq(Byte), NEW b \in Seq(Byte), NEW c \in Seq(Byte),
           IsStart(a, b), IsStart(b, c)
    PROVE  IsStart(a, c)
  <1>1. Len(a) \in Nat /\ Len(b) \in Nat /\ Len(c) \in Nat
    OBVIOUS
  <1> DEFINE l == Len(a) m == Len(b) n == Len(c)
  <1>2. l \in Nat /\ m \in Nat /\ n \in Nat /\ l <= m /\ m <= n
    BY <1>1 DEF IsStart
  <1>3. (\A k \in 1..l : a[k] = b[k]) /\ \A k \in 1..m : b[k] = c[k]
    BY DEF IsStart
  <1> HIDE DEF l, m, n
  <1>4. l <= n /\ \A k \in 1..l : a[k] = c[k]
    BY <1>2, <1>3
  <1> QED
    BY <1>4 DEF IsStart, l, n

\* encode begins well formed.
LEMMA BegunIsOk ==
    ASSUME NEW program, Good(File, program), NEW b, b.calls = Begun(program), b.bytes = << >>
    PROVE  ConfigOk(b, program)
  <1> DEFINE parts == FileParts(program)
             call == WriteCall(File, program, parts)
  <1>1. parts \in Parts(File, program) /\ File \in CallTypes
    BY DEF Parts, File, CallTypes
  <1>2. Len(parts) \in Nat /\ DOMAIN parts = 1..Len(parts)
    BY <1>1, PartsOk
  <1>3. CallOk(call)
    <2> HIDE DEF parts
    <2>1. 0 \in 0..Len(parts)
      <3> DEFINE n == Len(parts)
      <3>1. n \in Nat
        BY <1>2
      <3> HIDE DEF n
      <3>2. 0 \in 0..n
        BY <3>1
      <3> QED
        BY <3>2 DEF n
    <2> QED
      BY <1>1, <1>2, <2>1 DEF CallOk, WriteCall
  <1>4. call.type = File /\ call.value = program
    BY DEF WriteCall
  <1> HIDE DEF call, parts
  <1>5. b.calls = <<call>>
    BY DEF Begun, call, parts
  <1>6. IsSeq(b.calls) /\ Len(b.calls) = 1 /\ b.calls[1] = call
    BY <1>5 DEF IsSeq
  <1>7. CallsOk(b.calls, program)
    BY <1>3, <1>4, <1>6 DEF CallsOk
  <1> QED
    BY <1>7 DEF ConfigOk

\* encode has been nowhere but at its begin,
LEMMA HistoryBegins ==
    ASSUME NEW program, Good(File, program), NEW b, b.calls = Begun(program), b.bytes = << >>
    PROVE  History({b}, b, program)
  <1>1. ConfigOk(b, program)
    BY BegunIsOk
  <1>2. Pays(b, b)
    BY <1>1, PaysStart
  <1>3. IsStart(b.bytes, b.bytes)
    BY DEF IsStart
  <1> QED
    BY <1>1, <1>2, <1>3 DEF History

\* and every step of it adds where it is.
LEMMA HistoryGoesOn ==
    ASSUME NEW H, NEW e, NEW program, History(H, e, program), NEW f, Wrote(e, f)
    PROVE  History(H \cup {f}, f, program)
  <1>1. ConfigOk(e, program)
    BY DEF History
  <1>2. ConfigOk(f, program) /\ IsStart(e.bytes, f.bytes)
    BY <1>1, ConfigKept
  <1>3. \A c \in H : ConfigOk(c, program) /\ IsStart(c.bytes, e.bytes) /\ Pays(c, e)
    BY DEF History
  <1>4. ASSUME NEW c \in H PROVE IsStart(c.bytes, f.bytes) /\ Pays(c, f)
    <2>1. c.bytes \in Seq(Byte) /\ e.bytes \in Seq(Byte) /\ f.bytes \in Seq(Byte)
      BY <1>1, <1>2, <1>3 DEF ConfigOk
    <2>2. IsStart(c.bytes, f.bytes)
      BY <1>2, <1>3, <2>1, StartOfStart
    <2>3. Pays(c, f)
      BY <1>1, <1>3, PaysStep
    <2> QED
      BY <2>2, <2>3
  <1>5. Pays(f, f) /\ IsStart(f.bytes, f.bytes)
    <2>1. Pays(f, f)
      BY <1>2, PaysStart
    <2>2. f.bytes \in Seq(Byte)
      BY <1>2 DEF ConfigOk
    <2> QED
      BY <2>1, <2>2 DEF IsStart
  <1>6. \A c \in H \cup {f} : c = f \/ \E d \in H \cup {f} : Wrote(c, d)
    BY DEF History
  <1>7. \E b \in H \cup {f} : b.calls = Begun(program) /\ b.bytes = << >>
    BY DEF History
  <1> QED
    BY <1>2, <1>3, <1>4, <1>5, <1>6, <1>7 DEF History

-----------------------------------------------------------------------------
\* encode has returned.
Finished(e) == Len(e.calls) = 1 /\ e.calls[1].next = Len(e.calls[1].parts)

\* When encode has returned, a list that it wrote was followed by a byte for each element.
LEMMA ListIsPaid ==
    ASSUME NEW H, NEW e, NEW program, History(H, e, program), Finished(e),
           NEW c \in H, Len(c.calls) > 1, NEW top, top = c.calls[Len(c.calls)],
           top.type[1] \in {"list", "table"}, top.next = 0
    PROVE  Len(e.bytes) >= Len(c.bytes) + Len(top.parts)
  <1>1. Pays(c, e)
    BY DEF History
  <1>2. ~ (Len(e.calls) >= Len(c.calls))
    <2> DEFINE n == Len(c.calls)
               m == Len(e.calls)
    <2>1. n > 1 /\ m = 1 /\ n \in Nat
      BY LengthsAreNat DEF Finished, History, ConfigOk, CallsOk
    <2> HIDE DEF n, m
    <2>2. ~ (m >= n)
      BY <2>1
    <2> QED
      BY <2>2 DEF n, m
  <1> QED
    BY <1>1, <1>2 DEF Pays

-----------------------------------------------------------------------------
(* decode follows encode.                                                  *)

\* A call of decode has read what a call of encode has written.
SameCall(f, call) ==
    /\ f.type = call.type /\ f.head = HeadOf(call.type, call.value)
    /\ Len(f.read) = call.next
    /\ \A k \in 1..call.next : f.read[k] = call.parts[k][2]
SameCalls(s, calls) == Len(s) = Len(calls) /\ \A d \in 1..Len(calls) : SameCall(s[d], calls[d])

\* decode has read all that encode had written at c.
InStep(c) == SameCalls(reads, c.calls) /\ pos = Len(c.bytes)

\* As far as the input goes, it is what encode wrote.
Agree(whole) == \A k \in 1..Len(whole) : k <= Len(bytes) => bytes[k] = whole[k]

\* A call of decode asks for as many parts as encode writes.
LEMMA PartsOfSame ==
    ASSUME NEW f, NEW limit, FrameOk(f, limit), NEW call, CallOk(call), SameCall(f, call)
    PROVE  /\ f.parts = PartTypes(call.type, HeadOf(call.type, call.value))
           /\ Len(f.parts) = Len(call.parts) /\ Len(f.parts) \in Nat /\ call.next \in Nat
  <1>1. f.parts = PartTypes(call.type, HeadOf(call.type, call.value))
    BY DEF FrameOk, SameCall
  <1>2. Len(PartTypes(call.type, HeadOf(call.type, call.value))) = Len(call.parts)
        /\ Len(call.parts) \in Nat
    BY PartsOk DEF CallOk
  <1>3. call.next \in Nat
    BY LengthsAreNat DEF FrameOk, SameCall
  <1> QED
    BY <1>1, <1>2, <1>3

\* The calls on top are at the same part.
LEMMA SameTop ==
    ASSUME ReaderOK, NEW c, NEW program, ConfigOk(c, program), InStep(c),
           NEW call, call = c.calls[Len(c.calls)]
    PROVE  /\ Len(reads) = Len(c.calls) /\ Len(reads) \in Nat /\ Len(reads) >= 1 /\ CallOk(call)
           /\ SameCall(Reading, call) /\ FrameOk(Reading, Len(bytes))
           /\ Len(Reading.parts) = Len(call.parts) /\ Len(Reading.read) = call.next
           /\ Reading.parts = PartTypes(call.type, HeadOf(call.type, call.value))
           /\ call.next \in Nat /\ Len(call.parts) \in Nat
  <1> DEFINE n == Len(c.calls)
  <1>1. n \in Nat /\ n >= 1 /\ n = Len(reads)
    BY LengthsAreNat DEF ConfigOk, CallsOk, InStep, SameCalls
  <1>2. n \in 1..n
    <2> HIDE DEF n
    <2> QED
      BY <1>1
  <1>3. CallOk(call) /\ SameCall(reads[n], call)
    BY <1>2 DEF ConfigOk, CallsOk, InStep, SameCalls
  <1>4. Reading = reads[n]
    BY <1>1 DEF Reading
  <1>5. FrameOk(Reading, Len(bytes))
    BY TopFacts
  <1>6. SameCall(Reading, call)
    BY <1>3, <1>4
  <1>7. /\ Reading.parts = PartTypes(call.type, HeadOf(call.type, call.value))
        /\ Len(Reading.parts) = Len(call.parts) /\ Len(Reading.parts) \in Nat /\ call.next \in Nat
    BY <1>3, <1>5, <1>6, PartsOfSame
  <1>8. Len(Reading.read) = call.next
    BY <1>6 DEF SameCall
  <1> QED
    BY <1>1, <1>3, <1>5, <1>6, <1>7, <1>8

\* The next part that decode reads is the one that encode writes.
LEMMA SamePart ==
    ASSUME ReaderOK, outcome = "none", NEW c, NEW d, NEW program, ConfigOk(c, program), InStep(c),
           NEW call, NEW type, NEW v, WritesPart(c, d, call, type, v)
    PROVE  InParts /\ Type = type
  <1>1. /\ call = c.calls[Len(c.calls)] /\ call.next < Len(call.parts)
        /\ type = PartTypes(call.type, HeadOf(call.type, call.value))[call.next + 1]
    BY DEF WritesPart
  <1>2. /\ Len(reads) \in Nat /\ Len(reads) >= 1
        /\ Len(Reading.parts) = Len(call.parts) /\ Len(Reading.read) = call.next
        /\ Reading.parts = PartTypes(call.type, HeadOf(call.type, call.value))
    BY <1>1, SameTop
  <1>3. reads # << >>
    BY <1>2
  <1>4. Len(Reading.read) < Len(Reading.parts)
    BY <1>1, <1>2
  <1>5. Type = type
    BY <1>1, <1>2 DEF Type
  <1> QED
    BY <1>3, <1>4, <1>5 DEF InParts

\* What encode writes first for it stands where decode is.
LEMMA FrontStands ==
    ASSUME InputOK, NEW c, NEW d, pos = Len(c.bytes), c.bytes \in Seq(Byte),
           NEW v, Front(Type, v) \in Seq(Byte), d.bytes = c.bytes \o Front(Type, v),
           NEW whole \in Seq(Byte), IsStart(d.bytes, whole), Agree(whole)
    PROVE  Stands(v) /\ Len(d.bytes) = pos + Len(Front(Type, v))
           /\ Len(Front(Type, v)) \in Nat /\ pos \in Nat
  <1> DEFINE front == Front(Type, v)
             n == Len(front)
             all == Len(whole)
             length == Len(d.bytes)
  <1>1. /\ length = pos + n /\ n \in Nat /\ pos \in Nat /\ all \in Nat
        /\ \A k \in 1..n : d.bytes[pos + k] = front[k]
    <2>1. front \in Seq(Byte) /\ d.bytes = c.bytes \o front
      OBVIOUS
    <2> HIDE DEF front
    <2>2. /\ Len(d.bytes) = Len(c.bytes) + Len(front) /\ Len(front) \in Nat /\ Len(c.bytes) \in Nat
          /\ \A k \in 1..Len(front) : d.bytes[Len(c.bytes) + k] = front[k]
      BY <2>1, CountedBytes
    <2>3. Len(whole) \in Nat
      OBVIOUS
    <2> QED
      BY <2>2, <2>3
  <1>2. length <= all /\ \A k \in 1..length : d.bytes[k] = whole[k]
    BY DEF IsStart
  <1>3. \A k \in 1..all : k <= Len(bytes) => bytes[k] = whole[k]
    BY DEF Agree
  <1> HIDE DEF front, n, all, length
  <1>4. ASSUME NEW k \in 1..n, pos + k <= Len(bytes) PROVE bytes[pos + k] = front[k]
    <2>1. pos + k \in 1..length /\ pos + k \in 1..all
      BY <1>1, <1>2
    <2> QED
      BY <1>1, <1>2, <1>3, <1>4, <2>1
  <1>5. Stands(v)
    BY <1>4 DEF Stands, front, n
  <1> QED
    BY <1>1, <1>5 DEF n, front, length

\* The elements of a list are as many as its count.
LEMMA CountOfParts ==
    ASSUME NEW call, CallOk(call), call.type[1] \in {"list", "table"}
    PROVE  Len(call.parts) = HeadOf(call.type, call.value) /\ Len(call.parts) \in Nat
  <1> DEFINE head == HeadOf(call.type, call.value)
             types == PartTypes(call.type, head)
  <1>1. Len(types) = Len(call.parts) /\ Len(call.parts) \in Nat
    BY PartsOk DEF CallOk
  <1>2. head \in 0..(Four - 1)
    BY GoodHolds, ListFront DEF CallOk
  <1>3. types = [j \in 1..head |-> call.type[2]]
    BY DEF PartTypes
  <1> HIDE DEF head
  <1>4. Len(types) = head
    BY <1>2, <1>3, TwoAndFour
  <1> HIDE DEF types
  <1> QED
    BY <1>1, <1>4 DEF head

\* The bytes that a list at d was followed by are not all there.
Short(d) ==
    \/ Len(d.bytes) > Len(bytes)
    \/ /\ Len(d.calls) > 1 /\ d.calls[Len(d.calls)].type[1] \in {"list", "table"}
       /\ d.calls[Len(d.calls)].next = 0
       /\ Len(d.calls[Len(d.calls)].parts) > Len(bytes) - Len(d.bytes)

\* How deep a stack of calls is nested.
LEMMA NestedIsNat ==
    ASSUME NEW s, IsSeq(s)
    PROVE  Nested(s) \in Nat /\ IsFiniteSet({k \in 1..Len(s) : s[k].type = Union("body_value")})
           /\ Nested(s) = Cardinality({k \in 1..Len(s) : s[k].type = Union("body_value")})
  <1> DEFINE n == Len(s)
             nested == {k \in 1..n : s[k].type = Union("body_value")}
  <1>1. n \in Nat /\ DOMAIN s = 1..n
    BY SeqOfElements, LengthsAreNat
  <1>2. Nested(s) = Cardinality(nested)
    BY <1>1 DEF Nested
  <1> HIDE DEF n
  <1>3. IsFiniteSet(1..n)
    BY <1>1, FS_Interval
  <1>4. IsFiniteSet(nested)
    <2>1. nested \in SUBSET (1..n)
      OBVIOUS
    <2> HIDE DEF nested
    <2> QED
      BY <1>3, <2>1, FS_Subset
  <1>5. Cardinality(nested) \in Nat
    BY <1>4, FS_CardinalityType
  <1> QED
    BY <1>2, <1>4, <1>5 DEF n

\* One more call of write_body_value is one level more.
LEMMA NestedPushed ==
    ASSUME NEW s, IsSeq(s), NEW t, IsSeq(t), Len(t) = Len(s) + 1,
           \A k \in 1..Len(s) : t[k] = s[k], t[Len(s) + 1].type = Union("body_value")
    PROVE  Nested(t) = Nested(s) + 1
  <1> DEFINE n == Len(s)
             m == Len(t)
             before == {k \in 1..n : s[k].type = Union("body_value")}
             after == {k \in 1..m : t[k].type = Union("body_value")}
  <1>1. IsFiniteSet(before) /\ Nested(s) = Cardinality(before) /\ Nested(t) = Cardinality(after)
    BY NestedIsNat
  <1>2. n \in Nat /\ m = n + 1 /\ (\A k \in 1..n : t[k] = s[k]) /\ t[n + 1].type = Union("body_value")
    BY LengthsAreNat
  <1> HIDE DEF n, m
  <1>3. after = before \cup {n + 1} /\ n + 1 \notin before
    BY <1>2
  <1> HIDE DEF before, after
  <1>4. Cardinality(after) = Cardinality(before) + 1
    BY <1>1, <1>3, FS_AddElement
  <1> QED
    BY <1>1, <1>4

\* Calls that agree are nested to the same depth.
LEMMA NestedSame ==
    ASSUME NEW s, IsSeq(s), NEW calls, IsSeq(calls), SameCalls(s, calls)
    PROVE  Nested(s) = Nested(calls)
  <1> DEFINE n == Len(calls)
             read == {k \in 1..n : s[k].type = Union("body_value")}
             written == {k \in 1..n : calls[k].type = Union("body_value")}
  <1>1. Len(s) = n /\ \A k \in 1..n : s[k].type = calls[k].type
    BY DEF SameCalls, SameCall
  <1>2. Nested(s) = Cardinality(read) /\ Nested(calls) = Cardinality(written)
    BY <1>1, NestedIsNat
  <1>3. read = written
    BY <1>1
  <1> QED
    BY <1>2, <1>3

\* decode reads the part that encode writes, or misses what encode wrote for it, or
\* has no room to read it.
LEMMA PartRead ==
    ASSUME ReaderOK, Step, NEW c, NEW d, NEW program, ConfigOk(c, program), InStep(c),
           WrotePart(c, d), NEW whole \in Seq(Byte), IsStart(d.bytes, whole), Agree(whole)
    PROVE  \/ InStep(d)' /\ outcome' = "none" /\ bytes' = bytes
           \/ Error("corrupt") /\ Short(d)
           \/ Error("overflow") /\ Nested(d.calls) > MaxNested
  <1>1. PICK call, type, v : WritesPart(c, d, call, type, v)
    BY PartWritten, Zenon
  <1>2. outcome = "none" /\ InputOK
    BY StepsOfReader DEF ReaderOK
  <1>3. InParts /\ Type = type
    BY <1>1, <1>2, SamePart
  <1> DEFINE m == Len(c.calls)
             new == d.calls[m + 1]
             front == Front(Type, v)
             n == Len(front)
             head == HeadOf(Type, v)
  <1>4. /\ Type \in WireTypes /\ Good(Type, v) /\ d.bytes = c.bytes \o front /\ front \in Seq(Byte)
        /\ Len(d.calls) = m + 1 /\ \A k \in 1..m : d.calls[k] = c.calls[k]
        /\ CallOk(new) /\ new.type = Type /\ new.value = v /\ new.next = 0
    BY <1>1, <1>3 DEF WritesPart
  <1>5. Holds(Type, v)
    BY <1>4, GoodHolds
  <1>6. Stands(v) /\ Len(d.bytes) = pos + n /\ n \in Nat /\ pos \in Nat
    <2>1. pos = Len(c.bytes) /\ c.bytes \in Seq(Byte)
      BY DEF InStep, ConfigOk
    <2>2. Front(Type, v) \in Seq(Byte) /\ d.bytes = c.bytes \o Front(Type, v)
      BY <1>4
    <2>3. /\ Stands(v) /\ Len(d.bytes) = pos + Len(Front(Type, v))
          /\ Len(Front(Type, v)) \in Nat /\ pos \in Nat
      <3> HIDE DEF front, n, head, m, new
      <3> QED
        BY <1>2, <2>1, <2>2, FrontStands
    <2> QED
      BY <2>3
  <1>7. \/ Fits(n) /\ Enter(head, n)
        \/ /\ Error("corrupt")
           /\ ~ Fits(n) \/ (Type[1] \in {"list", "table"} /\ head > Len(bytes) - pos - n)
        \/ Error("overflow") /\ StackFull
    <2>1. InputOK /\ InParts /\ Type \in WireTypes /\ Step /\ Holds(Type, v) /\ Stands(v)
      BY <1>2, <1>3, <1>4, <1>5, <1>6
    <2>2. LET k == Len(Front(Type, v)) IN
          \/ Fits(k) /\ Enter(HeadOf(Type, v), k)
          \/ /\ Error("corrupt")
             /\ ~ Fits(k) \/ (Type[1] \in {"list", "table"} /\ HeadOf(Type, v) > Len(bytes) - pos - k)
          \/ Error("overflow") /\ StackFull
      <3> HIDE DEF front, n, head, m, new
      <3> QED
        BY <2>1, ReadsFront
    <2> QED
      BY <2>2
  <1>8. m \in Nat /\ m >= 1 /\ Len(reads) = m /\ \A k \in 1..m : SameCall(reads[k], c.calls[k])
    BY LengthsAreNat DEF ConfigOk, CallsOk, InStep, SameCalls
  <1>9. CASE Enter(head, n)
    <2> HIDE DEF head, n, m, new
    <2>1. /\ IsSeq(reads') /\ Len(reads') = m + 1 /\ \A k \in 1..m : reads'[k] = reads[k]
          /\ reads'[m + 1] = ReadCall(Type, head)
          /\ pos' = pos + n /\ bytes' = bytes /\ outcome' = outcome
      BY <1>3, <1>6, <1>8, <1>9, Pushed
    <2>2. SameCall(reads'[m + 1], new)
      <3>1. reads'[m + 1] = [type |-> Type, head |-> head, parts |-> PartTypes(Type, head),
                             read |-> << >>]
        BY <2>1 DEF ReadCall
      <3>2. Len(<< >>) = 0 /\ 1..0 = {}
        OBVIOUS
      <3>3. head = HeadOf(new.type, new.value)
        BY <1>4 DEF head
      <3> QED
        BY <1>4, <3>1, <3>2, <3>3 DEF SameCall
    <2>3. Len(reads') = Len(d.calls) /\ \A k \in 1..Len(d.calls) : SameCall(reads'[k], d.calls[k])
      <3> SUFFICES ASSUME NEW k \in 1..(m + 1) PROVE SameCall(reads'[k], d.calls[k])
        BY <1>4, <2>1
      <3>1. CASE k = m + 1
        BY <2>2, <3>1 DEF new
      <3>2. CASE k \in 1..m
        BY <1>4, <1>8, <2>1, <3>2
      <3> QED
        BY <1>8, <3>1, <3>2
    <2>4. pos' = Len(d.bytes)
      BY <1>6, <2>1
    <2> QED
      BY <1>2, <2>1, <2>3, <2>4 DEF InStep, SameCalls
  <1>10. CASE /\ Error("corrupt")
              /\ ~ Fits(n) \/ (Type[1] \in {"list", "table"} /\ head > Len(bytes) - pos - n)
    <2> DEFINE size == Len(bytes)
               length == Len(d.bytes)
    <2>1. size \in Nat /\ length = pos + n
      BY <1>2, <1>6 DEF InputOK
    <2>2. CASE ~ Fits(n)
      <3>1. ~ (pos + n <= size)
        BY <2>2 DEF Fits
      <3> HIDE DEF size, length, n
      <3>2. length > size
        BY <1>6, <2>1, <3>1
      <3> QED
        BY <1>10, <3>2 DEF Short, size, length
    <2>3. CASE Type[1] \in {"list", "table"} /\ head > Len(bytes) - pos - n
      <3>1. Len(new.parts) = head /\ head \in Nat
        <4> HIDE DEF new
        <4> QED
          BY <1>4, <2>3, CountOfParts
      <3>2. d.calls[Len(d.calls)] = new /\ Len(d.calls) > 1
        <4>1. Len(d.calls) = m + 1
          BY <1>4
        <4> HIDE DEF m
        <4>2. Len(d.calls) > 1
          BY <1>8, <4>1
        <4> QED
          BY <4>1, <4>2 DEF m
      <3>3. head > size - length
        <4> HIDE DEF head, size, length, n
        <4>1. head > size - pos - n
          BY <2>3 DEF size
        <4> QED
          BY <1>6, <2>1, <3>1, <4>1
      <3>4. new.next = 0 /\ new.type[1] \in {"list", "table"}
        BY <1>4, <2>3
      <3> HIDE DEF new, head
      <3> QED
        BY <1>10, <3>1, <3>2, <3>3, <3>4 DEF Short
    <2> QED
      BY <1>10, <2>2, <2>3
  <1>11. CASE Error("overflow") /\ StackFull
    <2> HIDE DEF m, new
    <2>1. Type = Union("body_value") /\ Nested(reads) >= MaxNested
      BY <1>11 DEF StackFull
    <2>2. IsSeq(c.calls) /\ IsSeq(reads) /\ SameCalls(reads, c.calls)
      BY DEF ConfigOk, CallsOk, ReaderOK, StackOk, InStep
    <2>3. Nested(reads) = Nested(c.calls)
      BY <2>2, NestedSame
    <2>4. IsSeq(d.calls)
      BY ConfigKept DEF Wrote, ConfigOk, CallsOk
    <2>5. /\ Len(d.calls) = Len(c.calls) + 1
          /\ \A k \in 1..Len(c.calls) : d.calls[k] = c.calls[k]
          /\ d.calls[Len(c.calls) + 1].type = Union("body_value")
      BY <1>4, <2>1 DEF m, new
    <2>6. Nested(d.calls) = Nested(c.calls) + 1
      BY <2>2, <2>4, <2>5, NestedPushed
    <2>7. Nested(c.calls) \in Nat /\ MaxNested \in Nat
      BY <2>2, NestedIsNat, StackAssumption
    <2>8. Nested(d.calls) > MaxNested
      BY <2>1, <2>3, <2>6, <2>7
    <2> QED
      BY <1>11, <2>8
  <1> QED
    BY <1>7, <1>9, <1>10, <1>11

\* A call that has read all its parts makes the value that was written.
LEMMA MadeIsWritten ==
    ASSUME NEW f, NEW limit, FrameOk(f, limit), NEW call, CallOk(call), SameCall(f, call),
           call.next = Len(call.parts)
    PROVE  Made(f.type, f.head, f.read) = call.value
  <1>1. /\ call.type \in CallTypes /\ Good(call.type, call.value)
        /\ call.parts \in Parts(call.type, call.value)
    BY DEF CallOk
  <1>2. /\ IsSeq(f.read) /\ Len(f.read) = Len(call.parts)
        /\ \A k \in 1..Len(call.parts) : f.read[k] = call.parts[k][2]
        /\ f.type = call.type /\ f.head = HeadOf(call.type, call.value)
    BY DEF FrameOk, SameCall
  <1>3. Made(call.type, HeadOf(call.type, call.value), f.read) = call.value
    BY <1>1, <1>2, PartsOk
  <1> QED
    BY <1>2, <1>3

\* Where encode has written all parts, decode has read them and made the value of them.
LEMMA AllPartsRead ==
    ASSUME ReaderOK, Step, NEW c, NEW program, ConfigOk(c, program), InStep(c),
           NEW call, call = c.calls[Len(c.calls)], call.next = Len(call.parts)
    PROVE  /\ Return \/ Conclude
           /\ Made(Reading.type, Reading.head, Reading.read) = call.value
  <1>1. /\ Len(reads) = Len(c.calls) /\ CallOk(call)
        /\ SameCall(Reading, call) /\ FrameOk(Reading, Len(bytes))
        /\ Len(Reading.parts) = Len(call.parts) /\ Len(Reading.read) = call.next
        /\ call.next \in Nat
    BY SameTop
  <1>2. ~ InParts
    <2> DEFINE n == Len(Reading.read)
               m == Len(Reading.parts)
    <2>1. n = m /\ n \in Nat
      BY <1>1
    <2> HIDE DEF n, m
    <2>2. ~ (n < m)
      BY <2>1
    <2> QED
      BY <2>2 DEF InParts, n, m
  <1>3. Return \/ Conclude
    BY <1>2, StepsOfReader
  <1>4. Made(Reading.type, Reading.head, Reading.read) = call.value
    BY <1>1, MadeIsWritten
  <1> QED
    BY <1>3, <1>4

\* decode returns where encode does.
LEMMA ReturnRead ==
    ASSUME ReaderOK, Step, NEW c, NEW d, NEW program, ConfigOk(c, program), InStep(c),
           WroteAll(c, d)
    PROVE  InStep(d)' /\ outcome' = "none" /\ bytes' = bytes
  <1>1. PICK n, call, above : WritesAll(c, d, n, call, above)
    BY AllWritten, Zenon
  <1>2. /\ n \in Nat /\ n >= 1 /\ Len(c.calls) = n + 1
        /\ call = c.calls[n] /\ above = c.calls[n + 1] /\ above.next = Len(above.parts)
        /\ CallOk(call) /\ CallOk(above) /\ call.next \in Nat
        /\ call.parts[call.next + 1] = <<above.type, above.value>>
        /\ d.bytes = c.bytes /\ Len(d.calls) = n
        /\ \A k \in 1..(n - 1) : d.calls[k] = c.calls[k]
        /\ d.calls[n] = [type |-> call.type, value |-> call.value, parts |-> call.parts,
                         next |-> call.next + 1]
    BY <1>1 DEF WritesAll
  <1>3. above = c.calls[Len(c.calls)]
    BY <1>2
  <1>4. /\ Return \/ Conclude
        /\ Made(Reading.type, Reading.head, Reading.read) = above.value
    BY <1>2, <1>3, AllPartsRead
  <1>5. Len(reads) = n + 1 /\ \A k \in 1..(n + 1) : SameCall(reads[k], c.calls[k])
    BY <1>2 DEF InStep, SameCalls
  <1>6. Return
    BY <1>2, <1>4, <1>5 DEF Conclude
  <1>7. Made(reads[n + 1].type, reads[n + 1].head, reads[n + 1].read) = above.value
    BY <1>4, <1>5 DEF Reading
  <1> DEFINE below == reads[n]
             after == reads'[n]
  <1>8. /\ Len(reads') = n /\ \A k \in 1..(n - 1) : reads'[k] = reads[k]
        /\ after = [type |-> below.type, head |-> below.head, parts |-> below.parts,
                    read |-> Append(below.read, above.value)]
        /\ bytes' = bytes /\ pos' = pos /\ outcome' = outcome
    <2>1. Len(reads) - 1 = n
      BY <1>2, <1>5
    <2>2. LET m == Len(reads) - 1
              under == reads[m]
              top == reads[m + 1]
              v == Made(top.type, top.head, top.read) IN
          /\ Len(reads') = m /\ \A k \in 1..(m - 1) : reads'[k] = reads[k]
          /\ reads'[m] = [type |-> under.type, head |-> under.head, parts |-> under.parts,
                          read |-> Append(under.read, v)]
          /\ bytes' = bytes /\ pos' = pos /\ outcome' = outcome
      BY <1>6, PoppedReads
    <2> QED
      BY <1>7, <2>1, <2>2
  <1>9. SameCall(below, call) /\ FrameOk(below, Len(bytes))
    <2>1. n \in 1..(n + 1) /\ n \in 1..Len(reads)
      BY <1>2, <1>5
    <2> QED
      BY <1>2, <1>5, <2>1 DEF ReaderOK, StackOk
  <1>10. SameCall(after, d.calls[n])
    <2> DEFINE u == below.read
               t == Append(u, above.value)
               m == call.next
    <2>1. /\ IsSeq(u) /\ Len(u) = m /\ \A k \in 1..m : u[k] = call.parts[k][2]
          /\ below.type = call.type /\ below.head = HeadOf(call.type, call.value)
      BY <1>9 DEF SameCall, FrameOk
    <2>2. /\ Len(t) = m + 1 /\ t[m + 1] = above.value /\ \A k \in 1..m : t[k] = u[k]
      <3> HIDE DEF u, m
      <3> QED
        BY <2>1, AppendIsSeq
    <2>3. call.parts[m + 1][2] = above.value
      BY <1>2
    <2>4. after.read = t /\ after.type = below.type /\ after.head = below.head
      BY <1>8
    <2>5. /\ d.calls[n].next = m + 1 /\ d.calls[n].parts = call.parts
          /\ d.calls[n].type = call.type /\ d.calls[n].value = call.value
      BY <1>2
    <2>6. \A k \in 1..(m + 1) : t[k] = call.parts[k][2]
      <3> SUFFICES ASSUME NEW k \in 1..(m + 1) PROVE t[k] = call.parts[k][2]
        OBVIOUS
      <3>1. m \in Nat
        BY <1>2
      <3> HIDE DEF t, m, u
      <3>2. CASE k = m + 1
        BY <2>2, <2>3, <3>2
      <3>3. CASE k \in 1..m
        BY <2>1, <2>2, <3>3
      <3> QED
        BY <3>1, <3>2, <3>3
    <2> HIDE DEF t, m, u, after, below
    <2> QED
      BY <2>1, <2>2, <2>4, <2>5, <2>6 DEF SameCall
  <1>11. \A k \in 1..n : SameCall(reads'[k], d.calls[k])
    <2> SUFFICES ASSUME NEW k \in 1..n PROVE SameCall(reads'[k], d.calls[k])
      OBVIOUS
    <2>1. CASE k = n
      BY <1>10, <2>1
    <2>2. CASE k \in 1..(n - 1)
      BY <1>2, <1>5, <1>8, <2>2
    <2> QED
      BY <1>2, <2>1, <2>2
  <1>12. pos' = Len(d.bytes) /\ outcome = "none"
    BY <1>2, <1>8, StepsOfReader DEF InStep
  <1> QED
    BY <1>2, <1>8, <1>11, <1>12 DEF InStep, SameCalls

\* decode has read its program where encode has returned.
LEMMA ProgramRead ==
    ASSUME ReaderOK, Step, NEW c, NEW program, ConfigOk(c, program), InStep(c), Finished(c)
    PROVE  Conclude /\ Program = program
  <1> DEFINE call == c.calls[1]
  <1>1. Len(c.calls) = 1 /\ call = c.calls[Len(c.calls)] /\ call.next = Len(call.parts)
        /\ call.value = program
    BY DEF Finished, ConfigOk, CallsOk
  <1>2. /\ Return \/ Conclude
        /\ Made(Reading.type, Reading.head, Reading.read) = call.value
    <2> HIDE DEF call
    <2> QED
      BY <1>1, AllPartsRead
  <1>3. Len(reads) = 1
    BY <1>1 DEF InStep, SameCalls
  <1>4. Conclude
    BY <1>2, <1>3 DEF Return
  <1>5. Reading.type = File /\ Reading.head = 0 /\ Reading.read = reads[1].read
    BY <1>3, FilePart DEF Reading
  <1> QED
    BY <1>1, <1>2, <1>4, <1>5 DEF Program

-----------------------------------------------------------------------------
(* What is decoded: the bytes of encode, or damaged ones.                  *)

\* What became of the bytes of encode.
Kept(kind, data, whole) ==
    /\ kind \in {"none", "cut", "longer"}
    /\ \A k \in 1..Len(whole) : k <= Len(data) => data[k] = whole[k]
    /\ kind = "none" => Len(data) = Len(whole)
    /\ kind = "cut" => Len(data) < Len(whole)
    /\ kind = "longer" => Len(data) > Len(whole)

\* `deepest` has seen how deep encode went.
Fathomed(H) == deepest \in Nat /\ \A c \in H : Nested(c.calls) <= deepest

\* decode is where encode was at some moment.
Following ==
    \E H, e : /\ History(H, e, source) /\ Finished(e) /\ Kept(change, bytes, e.bytes)
              /\ Fathomed(H)
              /\ \E c \in H : InStep(c)

\* Where encode goes on, decode follows, unless the end of its input is missing or
\* its stack is full.
LEMMA FollowsStep ==
    ASSUME ReaderOK, Step, NEW H, NEW e, History(H, e, source), Finished(e),
           Kept(change, bytes, e.bytes), NEW c \in H, InStep(c), NEW d \in H, Wrote(c, d)
    PROVE  \/ InStep(d)' /\ outcome' = "none" /\ bytes' = bytes
           \/ outcome' = "corrupt" /\ change # "none"
           \/ outcome' = "overflow" /\ Nested(d.calls) > MaxNested
  <1>1. /\ ConfigOk(c, source) /\ ConfigOk(d, source) /\ ConfigOk(e, source)
        /\ IsStart(d.bytes, e.bytes)
    BY DEF History
  <1>2. e.bytes \in Seq(Byte) /\ d.bytes \in Seq(Byte)
    BY <1>1 DEF ConfigOk
  <1>3. Agree(e.bytes)
    BY DEF Kept, Agree
  <1>4. CASE WroteAll(c, d)
    BY <1>1, <1>4, ReturnRead
  <1>5. CASE WrotePart(c, d)
    <2>1. \/ InStep(d)' /\ outcome' = "none" /\ bytes' = bytes
          \/ Error("corrupt") /\ Short(d)
          \/ Error("overflow") /\ Nested(d.calls) > MaxNested
      BY <1>1, <1>2, <1>3, <1>5, PartRead
    <2>2. ASSUME Short(d), change = "none" PROVE FALSE
      <3> DEFINE size == Len(bytes)
                 all == Len(e.bytes)
                 length == Len(d.bytes)
                 n == Len(d.calls)
                 top == d.calls[n]
                 count == Len(top.parts)
      <3>1. all \in Nat /\ length \in Nat /\ size = all /\ length <= all
        BY <1>1, <1>2, <2>2 DEF Kept, IsStart
      <3>2. ~ (length > size)
        <4> HIDE DEF length, size, all
        <4> QED
          BY <3>1
      <3>3. n > 1 /\ top.type[1] \in {"list", "table"} /\ top.next = 0 /\ count > size - length
        BY <2>2, <3>2 DEF Short
      <3>4. all >= length + count
        <4> HIDE DEF top
        <4> QED
          BY <3>3, ListIsPaid DEF top
      <3>5. count \in Nat
        <4>1. n \in 1..n
          <5>1. n \in Nat
            BY <1>1, LengthsAreNat DEF ConfigOk, CallsOk
          <5> HIDE DEF n
          <5> QED
            BY <3>3, <5>1
        <4>2. CallOk(top)
          BY <1>1, <4>1 DEF ConfigOk, CallsOk
        <4> QED
          BY <4>2 DEF CallOk
      <3> HIDE DEF length, size, all, count
      <3> QED
        BY <3>1, <3>3, <3>4, <3>5
    <2> QED
      BY <2>1, <2>2 DEF Error
  <1> QED
    BY <1>4, <1>5 DEF Wrote

\* Where encode ends, decode answers.
LEMMA FollowsEnd ==
    ASSUME ReaderOK, Step, NEW H, NEW e, History(H, e, source), Finished(e),
           Kept(change, bytes, e.bytes), InStep(e)
    PROVE  /\ outcome' = IF change = "none" /\ Valid(source) THEN "ok" ELSE "corrupt"
           /\ Program' = source
  <1>1. ConfigOk(e, source)
    BY DEF History
  <1>2. Conclude /\ Program = source
    BY <1>1, ProgramRead
  <1>3. reads' = reads /\ outcome' = IF Acceptable THEN "ok" ELSE "corrupt"
    BY <1>2 DEF Conclude, Error
  <1>4. Program' = source
    BY <1>2, <1>3 DEF Program
  <1>5. Acceptable <=> (change = "none" /\ Valid(source))
    <2> DEFINE size == Len(bytes)
               all == Len(e.bytes)
    <2>1. size \in Nat /\ all \in Nat /\ pos = all /\ pos \in 0..size
      BY <1>1 DEF ReaderOK, InputOK, InStep, ConfigOk
    <2>2. /\ change = "none" => size = all
          /\ change \in {"cut", "longer"} => size < all \/ size > all
          /\ change \in {"none", "cut", "longer"}
      BY DEF Kept
    <2> HIDE DEF size, all
    <2>3. size - pos = 0 <=> change = "none"
      BY <2>1, <2>2
    <2> QED
      BY <1>2, <2>3 DEF Acceptable, Remaining, size
  <1> QED
    BY <1>3, <1>4, <1>5

\* With bytes that no one changed or whose end was, decode keeps up with encode
\* until it answers as it should.
LEMMA StepFollows ==
    ASSUME ReaderOK, Step, Following, UNCHANGED <<change, source, deepest>>
    PROVE  /\ outcome' = "none" => Following'
           /\ RoundTrip'
           /\ change # "none" => outcome' # "ok"
  <1>1. PICK H, e : /\ History(H, e, source) /\ Finished(e) /\ Kept(change, bytes, e.bytes)
                    /\ Fathomed(H)
                    /\ \E c \in H : InStep(c)
    BY DEF Following
  <1>2. PICK c \in H : InStep(c)
    BY <1>1
  <1>3. c = e \/ \E d \in H : Wrote(c, d)
    BY <1>1 DEF History
  <1>4. CASE c = e
    <2>1. /\ outcome' = IF change = "none" /\ Valid(source) THEN "ok" ELSE "corrupt"
          /\ Program' = source
      BY <1>1, <1>2, <1>4, FollowsEnd
    <2>2. RoundTrip'
      BY <2>1 DEF RoundTrip
    <2> QED
      BY <2>1, <2>2
  <1>5. ASSUME NEW d \in H, Wrote(c, d)
        PROVE  /\ outcome' = "none" => Following'
               /\ RoundTrip'
               /\ change # "none" => outcome' # "ok"
    <2>1. \/ InStep(d)' /\ outcome' = "none" /\ bytes' = bytes
          \/ outcome' = "corrupt" /\ change # "none"
          \/ outcome' = "overflow" /\ Nested(d.calls) > MaxNested
      BY <1>1, <1>2, <1>5, FollowsStep
    <2>2. CASE InStep(d)' /\ outcome' = "none" /\ bytes' = bytes
      <3>1. /\ Kept(change', bytes', e.bytes) /\ History(H, e, source')
            /\ deepest' \in Nat /\ \A b \in H : Nested(b.calls) <= deepest'
        BY <1>1, <2>2 DEF Fathomed
      <3>2. Following'
        BY <1>1, <1>5, <2>2, <3>1 DEF Following, Fathomed
      <3> QED
        BY <2>2, <3>2 DEF RoundTrip
    <2>3. CASE outcome' = "corrupt" /\ change # "none"
      BY <2>3 DEF RoundTrip
    <2>4. CASE outcome' = "overflow" /\ Nested(d.calls) > MaxNested
      <3>1. Nested(d.calls) <= deepest /\ deepest \in Nat /\ deepest' = deepest
        BY <1>1, <1>5 DEF Fathomed
      <3>2. Nested(d.calls) \in Nat /\ MaxNested \in Nat
        BY <1>1, <1>5, NestedIsNat, StackAssumption DEF History, ConfigOk, CallsOk
      <3>3. deepest' > MaxNested
        BY <2>4, <3>1, <3>2
      <3> QED
        BY <2>4, <3>3 DEF RoundTrip
    <2> QED
      BY <2>1, <2>2, <2>3, <2>4
  <1> QED
    BY <1>3, <1>4, <1>5

\* A program that decode accepts can be encoded.
LEMMA AcceptedIsGood ==
    ASSUME ReaderOK, Step, outcome' = "ok"
    PROVE  Good(File, Program)'
  <1>1. outcome = "none"
    BY StepsOfReader
  <1>2. Conclude
    <2>1. ASSUME NEW head, NEW n \in Nat, Entered(head, n) PROVE FALSE
      BY <1>1, <2>1 DEF Entered, Enter
    <2>2. ASSUME NEW why, Refused(why) PROVE FALSE
      BY <2>2 DEF Refused, Error
    <2>3. ~ Return
      BY <1>1 DEF Return
    <2> QED
      BY <2>1, <2>2, <2>3, StepsOfReader
  <1>3. Len(reads) = 1 /\ Len(Reading.read) = Len(Reading.parts) /\ reads' = reads
    BY <1>2 DEF Conclude, AllRead, Error
  <1> DEFINE f == reads[1]
  <1>4. FrameOk(f, Len(bytes)) /\ f.type = File /\ f.head = 0 /\ Len(f.read) = Len(f.parts)
    BY <1>3, FilePart DEF Reading
  <1>5. GoodRead(File, 0, f.read)
    <2> HIDE DEF f
    <2>1. f.parts = PartTypes(File, 0) /\ IsSeq(f.read)
      BY <1>4 DEF FrameOk
    <2>2. \A k \in 1..Len(f.parts) : f.parts[k] \in WireTypes /\ Good(f.parts[k], f.read[k])
      BY <1>4, FrameFacts DEF FrameOk
    <2> QED
      BY <1>4, <2>1, <2>2 DEF GoodRead
  <1>6. Good(File, Made(File, 0, f.read))
    BY <1>5, FileMade
  <1>7. Program' = Made(File, 0, f.read)
    BY <1>3 DEF Program
  <1> QED
    BY <1>6, <1>7

-----------------------------------------------------------------------------
(* The invariant of Codec.                                                 *)

\* What damage leaves of the bytes.
LEMMA CutOrLonger ==
    ASSUME NEW data \in Seq(Byte), NEW x \in Damage(data)
    PROVE  /\ x[2] \in Seq(Byte) /\ x[1] \in {"none", "cut", "longer", "flip"}
           /\ x[1] # "flip" => Kept(x[1], x[2], data)
  <1> DEFINE n == Len(data)
  <1>1. n \in Nat /\ DOMAIN data = 1..n /\ \A k \in 1..n : data[k] \in Byte
    OBVIOUS
  <1>2. CASE x = <<"none", data>>
    BY <1>2 DEF Kept
  <1>3. CASE \E m \in 0..(n - 1) : x = <<"cut", SubSeq(data, 1, m)>>
    <2>1. PICK m \in 0..(n - 1) : x = <<"cut", SubSeq(data, 1, m)>>
      BY <1>3
    <2> DEFINE short == SubSeq(data, 1, m)
    <2>2. short \in Seq(Byte) /\ Len(short) = m /\ \A k \in 1..m : short[k] = data[k]
      OBVIOUS
    <2>3. x[1] = "cut" /\ x[2] = short
      BY <2>1
    <2>4. m < n /\ m \in Nat
      BY <1>1
    <2> HIDE DEF short, n
    <2>5. \A k \in 1..n : k <= m => short[k] = data[k]
      BY <1>1, <2>2, <2>4
    <2>6. Len(short) < Len(data) /\ \A k \in 1..Len(data) : k <= Len(short) => short[k] = data[k]
      BY <2>2, <2>4, <2>5 DEF n
    <2> QED
      BY <2>2, <2>3, <2>6 DEF Kept
  <1>4. CASE \E b \in Damages : x = <<"longer", Append(data, b)>>
    <2>1. PICK b \in Damages : x = <<"longer", Append(data, b)>>
      BY <1>4
    <2> DEFINE long == Append(data, b)
    <2>2. b \in Byte
      BY CodecAssumption DEF Byte
    <2>3. long \in Seq(Byte) /\ Len(long) = n + 1 /\ \A k \in 1..n : long[k] = data[k]
      BY <2>2
    <2>4. x[1] = "longer" /\ x[2] = long
      BY <2>1
    <2> HIDE DEF long
    <2>5. Len(long) > Len(data) /\ \A k \in 1..Len(data) : k <= Len(long) => long[k] = data[k]
      BY <1>1, <2>3
    <2> QED
      BY <2>3, <2>4, <2>5 DEF Kept
  <1>5. CASE \E k \in DOMAIN data, b \in Damages : x = <<"flip", [data EXCEPT ![k] = b]>>
    <2>1. PICK k \in DOMAIN data, b \in Damages : x = <<"flip", [data EXCEPT ![k] = b]>>
      BY <1>5
    <2>2. b \in Byte
      BY CodecAssumption DEF Byte
    <2>3. [data EXCEPT ![k] = b] \in Seq(Byte)
      BY <2>1, <2>2
    <2> QED
      BY <2>1, <2>3
  <1> QED
    BY <1>2, <1>3, <1>4, <1>5 DEF Damage

\* decode begins where encode does.
LEMMA StartInStep ==
    ASSUME NEW program
    PROVE  SameCalls(Start, Begun(program))
  <1> DEFINE f == ReadCall(File, 0)
             call == WriteCall(File, program, FileParts(program))
  <1>1. f.type = File /\ f.head = 0 /\ f.read = << >>
    BY DEF ReadCall
  <1>2. call.type = File /\ call.value = program /\ call.next = 0
    BY DEF WriteCall
  <1>3. HeadOf(File, program) = 0
    BY DEF HeadOf, File
  <1>4. Len(<< >>) = 0 /\ 1..0 = {}
    OBVIOUS
  <1> HIDE DEF f, call
  <1>5. SameCall(f, call)
    BY <1>1, <1>2, <1>3, <1>4 DEF SameCall
  <1>6. Start = <<f>> /\ Begun(program) = <<call>>
    BY DEF Start, Begun, f, call
  <1> QED
    BY <1>5, <1>6 DEF SameCalls

-----------------------------------------------------------------------------
\* While encode runs, nothing is decoded; then encode has gone through a history
\* that decode follows, until its answer is the one that RoundTrip promises.
EncodeInv ==
    /\ writes # << >> /\ reads = << >> /\ pos = 0 /\ outcome = "none"
    /\ \E H, e : /\ e.calls = writes /\ e.bytes = out /\ History(H, e, source)
                 /\ Fathomed(H)

DecodeInv ==
    /\ writes = << >> /\ ReaderOK
    /\ outcome = "ok" => Good(File, Program)
    /\ (change # "flip" /\ outcome = "none") => Following

CodecInv ==
    /\ change \in {"first", "again", "none", "cut", "longer", "flip"}
    /\ Good(File, source)
    /\ change \in {"first", "again"} => EncodeInv
    /\ change \notin {"first", "again"} => DecodeInv
    /\ RoundTrip /\ NoTruncation

\* Each time encode begins, it begins a history.
LEMMA EncodeBegins ==
    ASSUME NEW program, Good(File, program)
    PROVE  /\ \E H, e : /\ e.calls = Begun(program) /\ e.bytes = << >> /\ History(H, e, program)
                        /\ \A c \in H : Nested(c.calls) <= 0
           /\ Begun(program) # << >>
  <1> DEFINE b == [calls |-> Begun(program), bytes |-> << >>]
  <1>1. b.calls = Begun(program) /\ b.bytes = << >>
    OBVIOUS
  <1> HIDE DEF b
  <1>2. History({b}, b, program)
    BY <1>1, HistoryBegins
  <1>3. Begun(program) # << >>
    BY DEF Begun
  <1>4. Nested(Begun(program)) = 0
    <2> DEFINE call == WriteCall(File, program, FileParts(program))
    <2>1. call.type # Union("body_value")
      BY DEF WriteCall, File, Union
    <2> HIDE DEF call
    <2>2. Begun(program) = <<call>>
      BY DEF Begun, call
    <2>3. {k \in DOMAIN Begun(program) : Begun(program)[k].type = Union("body_value")} = {}
      BY <2>1, <2>2
    <2> QED
      BY <2>3, FS_EmptySet DEF Nested
  <1>5. \A c \in {b} : Nested(c.calls) <= 0
    BY <1>1, <1>4
  <1> QED
    BY <1>1, <1>2, <1>3, <1>5

\* Initially,
LEMMA InitHolds == CodecInit => CodecInv
  <1> SUFFICES ASSUME CodecInit PROVE CodecInv
    OBVIOUS
  <1>1. Good(File, source)
    BY CodecAssumption DEF CodecInit, Good
  <1>2. writes = Begun(source) /\ out = << >> /\ change = "first" /\ pos = 0 /\ reads = << >>
        /\ outcome = "none" /\ deepest = 0
    BY DEF CodecInit
  <1>3. EncodeInv
    BY <1>1, <1>2, EncodeBegins DEF EncodeInv, Fathomed
  <1> QED
    BY <1>1, <1>2, <1>3 DEF CodecInv, RoundTrip, NoTruncation

\* through every step of encode,
LEMMA EncodeKeeps ==
    ASSUME CodecInv, Encode
    PROVE  CodecInv'
  <1>1. UNCHANGED <<bytes, pos, reads, outcome, source, change>>
    BY DEF Encode, vars
  <1>2. writes # << >>
    <2>1. ~ (Len(<< >>) > 1)
      OBVIOUS
    <2> QED
      BY <2>1 DEF Encode, WritePart, WriteReturns
  <1>3. EncodeInv /\ change \in {"first", "again"}
    BY <1>2 DEF CodecInv, DecodeInv
  <1>4. PICK H, e : e.calls = writes /\ e.bytes = out /\ History(H, e, source) /\ Fathomed(H)
    BY <1>3 DEF EncodeInv
  <1>5. PICK f : f.calls = writes' /\ f.bytes = out'
    <2>1. /\ [calls |-> writes', bytes |-> out'].calls = writes'
          /\ [calls |-> writes', bytes |-> out'].bytes = out'
      OBVIOUS
    <2> QED
      BY <2>1
  <1>6. Wrote(e, f)
    <2>1. CASE WritePart
      <3>1. WrotePart(e, f)
        BY <1>4, <1>5, <2>1 DEF WritePart, WrotePart, Writing
      <3> QED
        BY <3>1 DEF Wrote
    <2>2. CASE WriteReturns
      <3>1. WroteAll(e, f)
        BY <1>4, <1>5, <2>2 DEF WriteReturns, WroteAll, Writing
      <3> QED
        BY <3>1 DEF Wrote
    <2> QED
      BY <2>1, <2>2 DEF Encode
  <1>7. History(H \cup {f}, f, source)
    BY <1>4, <1>6, HistoryGoesOn
  <1>8. writes' # << >>
    <2>1. Len(f.calls) >= 1
      BY <1>7 DEF History, ConfigOk, CallsOk
    <2>2. ~ (Len(<< >>) >= 1)
      OBVIOUS
    <2> QED
      BY <1>5, <2>1, <2>2
  <1>9. Fathomed(H \cup {f})'
    <2>1. /\ deepest \in Nat /\ \A c \in H : Nested(c.calls) <= deepest
          /\ \A c \in H \cup {f} : Nested(c.calls) \in Nat
      BY <1>4, <1>7, NestedIsNat DEF Fathomed, History, ConfigOk, CallsOk
    <2>2. deepest' = IF Nested(f.calls) > deepest THEN Nested(f.calls) ELSE deepest
      BY <1>5 DEF Encode
    <2>3. deepest' \in Nat /\ \A c \in H \cup {f} : Nested(c.calls) <= deepest'
      BY <2>1, <2>2
    <2> QED
      BY <2>3 DEF Fathomed
  <1>10. EncodeInv'
    <2>1. History(H \cup {f}, f, source')
      BY <1>1, <1>7
    <2> QED
      BY <1>1, <1>3, <1>5, <1>8, <1>9, <2>1 DEF EncodeInv
  <1> QED
    BY <1>1, <1>3, <1>10 DEF CodecInv, RoundTrip, NoTruncation, Program

\* when its bytes are kept or damaged,
LEMMA KeepKeeps ==
    ASSUME CodecInv, Keep
    PROVE  CodecInv'
  <1>1. /\ Len(writes) = 1 /\ Writing.next = Len(Writing.parts)
        /\ writes' = << >> /\ reads' = Start /\ UNCHANGED <<pos, outcome, source, deepest>>
    BY DEF Keep, Encoded
  <1>2. EncodeInv /\ change \in {"first", "again"}
    <2>1. writes # << >>
      BY <1>1, SMTT(30)
    <2> QED
      BY <2>1 DEF CodecInv, DecodeInv
  <1>3. PICK H, e : e.calls = writes /\ e.bytes = out /\ History(H, e, source) /\ Fathomed(H)
    BY <1>2 DEF EncodeInv
  <1>4. Finished(e)
    BY <1>1, <1>3 DEF Finished, Writing
  <1>5. out \in Seq(Byte)
    BY <1>3 DEF History, ConfigOk
  <1>6. PICK x \in Damage(out) : change' = x[1] /\ bytes' = x[2]
    BY DEF Keep, Damage
  <1>7. /\ bytes' \in Seq(Byte) /\ change' \in {"none", "cut", "longer", "flip"}
        /\ change' # "flip" => Kept(change', bytes', out)
    BY <1>5, <1>6, CutOrLonger
  <1>8. ReaderOK'
    <2>1. pos' = 0
      BY <1>1, <1>2 DEF EncodeInv
    <2>2. StackOk(reads', Len(bytes'))
      BY <1>1, StartStack
    <2>3. pos' \in 0..Len(bytes')
      BY <1>7, <2>1
    <2> QED
      BY <1>7, <2>2, <2>3 DEF ReaderOK, InputOK
  <1>9. outcome' = "none"
    BY <1>1, <1>2 DEF EncodeInv
  <1>10. ASSUME change' # "flip" PROVE Following'
    <2>1. PICK b \in H : b.calls = Begun(source) /\ b.bytes = << >>
      BY <1>3 DEF History
    <2>2. pos' = Len(b.bytes)
      BY <1>1, <1>2, <2>1 DEF EncodeInv
    <2>3. SameCalls(reads', b.calls)
      BY <1>1, <2>1, StartInStep
    <2>4. InStep(b)'
      BY <2>2, <2>3 DEF InStep
    <2>5. /\ History(H, e, source') /\ Kept(change', bytes', e.bytes)
          /\ deepest' \in Nat /\ \A c \in H : Nested(c.calls) <= deepest'
      BY <1>1, <1>3, <1>7, <1>10 DEF Fathomed
    <2> QED
      BY <1>4, <2>1, <2>4, <2>5 DEF Following, Fathomed
  <1>11. DecodeInv'
    BY <1>1, <1>8, <1>9, <1>10 DEF DecodeInv
  <1>12. RoundTrip' /\ NoTruncation'
    BY <1>9 DEF RoundTrip, NoTruncation
  <1>13. Good(File, source')
    BY <1>1 DEF CodecInv
  <1> QED
    BY <1>7, <1>11, <1>12, <1>13 DEF CodecInv

\* through every step of decode,
LEMMA DecodeKeeps ==
    ASSUME CodecInv, Decode
    PROVE  CodecInv'
  <1>1. Step /\ UNCHANGED <<out, writes, source, change, deepest>>
    BY DEF Decode
  <1>2. reads # << >>
    BY <1>1 DEF Step, UnexpectedEnd, ReadMagic, ReadVersion, ReadNumber, ReadU64, ReadBool,
       ReadText, ReadOption, ReadEnum, ReadUnion, ReadList, ReadStruct, Overflow, Return,
       Conclude, Reads, InParts, AllRead
  <1>3. DecodeInv /\ change \in {"none", "cut", "longer", "flip"}
    BY <1>2 DEF CodecInv, EncodeInv
  <1>4. ReaderOK /\ ReaderOK' /\ outcome = "none"
    BY <1>1, <1>3, StepKeepsReader, StepsOfReader DEF DecodeInv
  <1>5. outcome' = "ok" => Good(File, Program)'
    BY <1>1, <1>4, AcceptedIsGood
  <1>6. change # "flip" => /\ outcome' = "none" => Following'
                           /\ RoundTrip'
                           /\ change # "none" => outcome' # "ok"
    BY <1>1, <1>3, <1>4, StepFollows DEF DecodeInv
  <1>7. DecodeInv'
    BY <1>1, <1>3, <1>4, <1>5, <1>6 DEF DecodeInv
  <1>8. RoundTrip' /\ NoTruncation'
    BY <1>1, <1>6 DEF RoundTrip, NoTruncation
  <1>9. Good(File, source')
    BY <1>1 DEF CodecInv
  <1> QED
    BY <1>1, <1>3, <1>7, <1>8, <1>9 DEF CodecInv

\* and when an accepted program is encoded again, the invariant holds.
LEMMA EncodeAgainKeeps ==
    ASSUME CodecInv, EncodeAgain
    PROVE  CodecInv'
  <1>1. /\ outcome = "ok" /\ change = "flip" /\ source' = Program /\ change' = "again"
        /\ out' = << >> /\ writes' = Begun(Program)
        /\ pos' = 0 /\ reads' = << >> /\ outcome' = "none" /\ deepest' = 0
    BY DEF EncodeAgain
  <1>2. Good(File, Program)
    BY <1>1 DEF CodecInv, DecodeInv
  <1>3. Good(File, source') /\ writes' = Begun(source')
    BY <1>1, <1>2
  <1>4. EncodeInv'
    BY <1>1, <1>3, EncodeBegins DEF EncodeInv, Fathomed
  <1> QED
    BY <1>1, <1>3, <1>4 DEF CodecInv, RoundTrip, NoTruncation

\* encode goes through a history of well-formed calls, and decode of its bytes goes through
\* the same history.
THEOREM CodecKeepsInv == Spec => []CodecInv
  <1>1. CodecInv /\ [CodecNext]_codecVars => CodecInv'
    <2> SUFFICES ASSUME CodecInv, [CodecNext]_codecVars PROVE CodecInv'
      OBVIOUS
    <2>1. CASE Encode
      BY <2>1, EncodeKeeps
    <2>2. CASE Keep
      BY <2>2, KeepKeeps
    <2>3. CASE Decode
      BY <2>3, DecodeKeeps
    <2>4. CASE EncodeAgain
      BY <2>4, EncodeAgainKeeps
    <2>5. CASE UNCHANGED codecVars
      BY <2>5 DEF codecVars, vars, CodecInv, EncodeInv, DecodeInv, Following, InStep, ReaderOK,
         InputOK, Fathomed, RoundTrip, NoTruncation, Program
    <2> QED
      BY <2>1, <2>2, <2>3, <2>4, <2>5 DEF CodecNext, Ended
  <1> QED
    BY <1>1, InitHolds, PTL DEF Spec

\* RoundTrip for any programs and any damage: what encode writes, decode reads back as the
\* same program, also when that program was itself read from damaged bytes, unless encode
\* called write_body_value deeper than decode's stack has room for; only validation makes
\* decode refuse it.
THEOREM EncodedIsDecoded == Spec => []RoundTrip
  <1>1. CodecInv => RoundTrip
    BY DEF CodecInv
  <1> QED
    BY <1>1, CodecKeepsInv, PTL

\* NoTruncation for any programs: decode accepts neither a proper beginning of an encoded
\* program nor anything that goes on behind it.
THEOREM EndsMatter == Spec => []NoTruncation
  <1>1. CodecInv => NoTruncation
    BY DEF CodecInv
  <1> QED
    BY <1>1, CodecKeepsInv, PTL
=============================================================================
