---------------------------- MODULE FramingProofs ----------------------------
(***************************************************************************)
(* What the text of the messages comes to for all delimiters, packets and  *)
(* values: the types of Framing, and that messages, values and responses   *)
(* arrive as they were written.                                            *)
(***************************************************************************)
EXTENDS Framing, TextProofs

\* While the process runs, the constructor has accepted the delimiters.
Accepted == fault = "none" => field # <<>> /\ delimiter # <<>>

Typed == TypeOK /\ Accepted

LEMMA EmptyText == <<>> \in Texts /\ <<>> \in Seq(Texts)
  BY DEF Texts

\* What a server may write is a text.
LEMMA PacketTexts ==
  ASSUME field \in Texts, delimiter \in Texts, NEW packet \in Packets
  PROVE  /\ packet \in Seq(Texts) /\ packet # <<>>
         /\ Join(packet, field) \in Texts
         /\ TextOf(packet) \in Texts
<1>1. packet \in Seq(Texts) /\ packet # <<>>
  BY PacketsAssumption
<1>2. Join(packet, field) \in Texts
  BY <1>1, JoinType DEF Texts
<1>3. Join(packet, field) \o delimiter \in Texts
  BY <1>2, ConcatProperties DEF Texts
<1> QED
  BY <1>1, <1>2, <1>3 DEF TextOf

\* A part of a text is a text.
LEMMA SubText ==
  ASSUME NEW text \in Texts, NEW m \in 1..Len(text) + 1, NEW n \in 0..Len(text)
  PROVE  /\ SubSeq(text, m, n) \in Texts
         /\ Len(SubSeq(text, m, n)) = IF m <= n THEN n - m + 1 ELSE 0
         /\ \A i \in 1..n - m + 1 : SubSeq(text, m, n)[i] = text[m + i - 1]
<1>1. Len(text) \in Nat /\ \A i \in m..n : text[i] \in STRING
  BY LenProperties, ElementOfSeq DEF Texts
<1>2. m \in Int /\ n \in Int
  BY <1>1
<1> QED
  BY <1>1, <1>2, SubSeqProperties DEF Texts

\* The data for the server is a sequence of values.
LEMMA DataIsSeq ==
  ASSUME NEW values \in [1..DataSize -> Texts]
  PROVE  values \in Seq(Texts) /\ Len(values) = DataSize
<1>1. DataSize \in Nat
  BY NumbersAssumption
<1>2. [1..DataSize -> Texts] \subseteq Seq(Texts)
  <2> HIDE DEF Texts
  <2>1. Seq(Texts) = UNION {[1..n -> Texts] : n \in Nat}
    BY SeqDef
  <2> QED
    BY <1>1, <2>1, Zenon
<1>3. values \in Seq(Texts)
  BY <1>2
<1> QED
  BY <1>1, <1>3, LenProperties

LEMMA TypedInit == Init => Typed
<1> SUFFICES ASSUME Init PROVE Typed
  OBVIOUS
<1>1. field \in Texts /\ delimiter \in Texts
  BY DelimitersAssumption DEF Init
<1>2. fault \in Faults /\ (fault = "none" => field # <<>> /\ delimiter # <<>>)
  <2>1. fault = ConstructorFault(field, delimiter)
    BY DEF Init
  <2>2. \/ ConstructorFault(field, delimiter) = "empty field delimiter"
        \/ ConstructorFault(field, delimiter) = "empty message delimiter"
        \/ ConstructorFault(field, delimiter) = "message delimiter in field delimiter"
        \/ /\ ConstructorFault(field, delimiter) = "none"
           /\ field # <<>> /\ delimiter # <<>>
    BY Zenon DEF ConstructorFault
  <2> QED
    BY <2>1, <2>2 DEF Faults
<1>3. got \in 0..Len(written) /\ sets \in 0..MaxSets /\ Len(updates) <= Len(messages)
  BY NumbersAssumption DEF Init
<1>4. data \in [1..DataSize -> Texts]
  BY EmptyText DEF Init
<1>5. /\ packets \in Seq(Packets) /\ written \in Texts /\ buffer \in Texts
      /\ messages \in Seq(Texts)
      /\ updates \in Seq([stamp : Int, values : Seq(Texts)])
      /\ responses \in Seq([values : [1..DataSize -> Texts], text : Texts])
  BY DEF Init, Texts
<1>6. closed \in BOOLEAN /\ thread = "runs" /\ main = "events"
  BY DEF Init
<1> QED
  BY <1>1, <1>2, <1>3, <1>4, <1>5, <1>6 DEF Typed, TypeOK, Accepted

LEMMA TypedStep == Typed /\ [Next]_vars => Typed'
<1> SUFFICES ASSUME Typed, [Next]_vars PROVE Typed'
  OBVIOUS
<1>0. /\ written \in Texts /\ buffer \in Texts /\ delimiter \in Texts
      /\ Len(written) \in Nat /\ Len(buffer) \in Nat /\ Len(delimiter) \in Nat
      /\ got \in 0..Len(written)
  BY LenProperties DEF Typed, TypeOK, Texts
<1> USE DEF Typed, TypeOK, Accepted, connection, received, user
<1>1. ASSUME NEW packet \in Documented, Send(packet) PROVE Typed'
  <2>1. packet \in Packets
    BY DEF Documented
  <2>2. TextOf(packet) \in Texts
    BY <2>1, PacketTexts
  <2>3. written' \in Texts /\ Len(written') = Len(written) + Len(TextOf(packet))
    <3>1. written' = written \o TextOf(packet)
      BY <1>1 DEF Send
    <3> HIDE DEF Typed, TypeOK, Accepted
    <3> QED
      BY <1>0, <2>2, <3>1, ConcatProperties DEF Texts
  <2>4. Len(written) \in Nat /\ Len(TextOf(packet)) \in Nat
    <3> HIDE DEF Typed, TypeOK, Accepted
    <3> QED
      BY <1>0, <2>2, LenProperties DEF Texts
  <2>5. packets' \in Seq(Packets)
    BY <1>1, <2>1 DEF Send
  <2> QED
    BY <1>1, <2>3, <2>4, <2>5 DEF Send
<1>2. CASE Close
  BY <1>2 DEF Close
<1>3. ASSUME NEW packet \in Documented, Break(packet) PROVE Typed'
  <2>1. TextOf(packet) \in Texts
    BY PacketTexts DEF Documented
  <2>2. PICK k \in 1..(Len(TextOf(packet)) - 1) :
          written' = written \o SubSeq(TextOf(packet), 1, k)
    BY <1>3 DEF Break
  <2>3. Len(TextOf(packet)) \in Nat
    <3> HIDE DEF Typed, TypeOK, Accepted
    <3> QED
      BY <2>1, LenProperties DEF Texts
  <2>4. SubSeq(TextOf(packet), 1, k) \in Texts /\ Len(SubSeq(TextOf(packet), 1, k)) = k
    <3> HIDE DEF Typed, TypeOK, Accepted
    <3>1. 1 \in 1..Len(TextOf(packet)) + 1 /\ k \in 0..Len(TextOf(packet)) /\ 1 <= k
      BY <2>2, <2>3
    <3>2. k - 1 + 1 = k
      BY <2>2, <2>3
    <3> QED
      BY <2>1, <3>1, <3>2, SubText
  <2>5. written' \in Texts /\ Len(written') = Len(written) + k
    <3> HIDE DEF Typed, TypeOK, Accepted
    <3> QED
      BY <1>0, <2>2, <2>4, ConcatProperties DEF Texts
  <2> QED
    <3>1. got \in 0..Len(written')
      BY <1>0, <2>5
    <3> QED
      BY <1>3, <2>5, <3>1 DEF Break
<1>4. CASE ThreadRecv
  <2>1. PICK k \in 1..BufferSize :
          /\ got + k <= Len(written)
          /\ got' = got + k
          /\ buffer' = buffer \o SubSeq(written, got + 1, got + k)
    BY <1>4 DEF ThreadRecv
  <2>2. Len(written) \in Nat /\ k \in Nat
    BY <1>0, NumbersAssumption
  <2>3. SubSeq(written, got + 1, got + k) \in Texts
    <3> HIDE DEF Typed, TypeOK, Accepted
    <3>1. got + 1 \in 1..Len(written) + 1 /\ got + k \in 0..Len(written)
      BY <1>0, <2>1, <2>2
    <3> QED
      BY <1>0, <3>1, SubText
  <2>4. buffer' \in Texts
    <3> HIDE DEF Typed, TypeOK, Accepted
    <3> QED
      BY <1>0, <2>1, <2>3, ConcatProperties DEF Texts
  <2> QED
    BY <1>4, <2>1, <2>2, <2>4 DEF ThreadRecv
<1>5. CASE ThreadPush
  <2>1. Found \in 1..Len(buffer) /\ delimiter # <<>> /\ Found + Len(delimiter) - 1 <= Len(buffer)
    <3>1. Found \in Nat /\ Contains(buffer, delimiter)
      BY <1>5, FindIsFirst DEF ThreadPush, Found, Texts
    <3>2. Found \in 1..Len(buffer) /\ OccursAt(delimiter, buffer, Found)
      BY <3>1, FindIsFirst DEF Found, Texts
    <3> QED
      BY <1>5, <3>2 DEF OccursAt, ThreadPush, Runs
  <2>2. Len(buffer) \in Nat /\ Len(delimiter) \in Nat \ {0}
    <3> HIDE DEF Typed, TypeOK, Accepted
    <3> QED
      BY <1>0, <2>1, EmptySeq DEF Texts
  <2>3. Between(buffer, 1, Found) \in Texts
    <3> HIDE DEF Typed, TypeOK, Accepted
    <3>1. 1 \in 1..Len(buffer) + 1 /\ Found - 1 \in 0..Len(buffer)
      BY <2>1, <2>2
    <3> QED
      BY <1>0, <3>1, SubText DEF Between
  <2>4. Remainder(Found) \in Texts
    <3> HIDE DEF Typed, TypeOK, Accepted
    <3>1. Found + Len(delimiter) \in 1..Len(buffer) + 1 /\ Len(buffer) \in 0..Len(buffer)
      BY <2>1, <2>2
    <3> QED
      BY <1>0, <3>1, SubText DEF Remainder, From
  <2>5. messages' \in Seq(Texts) /\ Len(messages') = Len(messages) + 1
    BY <1>5, <2>3, AppendProperties DEF ThreadPush
  <2>6. Len(updates) <= Len(messages')
    BY <2>5
  <2> QED
    BY <1>5, <2>4, <2>5, <2>6 DEF ThreadPush
<1>6. CASE ThreadHangup
  BY <1>6 DEF ThreadHangup
<1>7. CASE ThreadRecvFails
  BY <1>7 DEF ThreadRecvFails
<1>8. CASE ForwardUp
  <2> DEFINE message == messages[Len(updates) + 1]
             parts == Parts(message)
             update == [stamp |-> Stamp(parts), values |-> SubSeq(parts, 3, Len(parts))]
  <2>1. Len(updates) \in Nat /\ Len(messages) \in Nat /\ Len(updates) < Len(messages)
    <3>1. \A S, q : q \in Seq(S) => Len(q) \in Nat
      BY LenProperties
    <3>2. Len(updates) \in Nat /\ Len(messages) \in Nat
      BY <3>1
    <3> QED
      BY <1>8, <3>2 DEF ForwardUp
  <2>2. message \in Texts
    BY <2>1, ElementOfSeq
  <2>3. field # <<>> /\ fault = "none"
    BY <1>8 DEF ForwardUp
  <2>4. parts \in Seq(Texts)
    BY <2>2, <2>3, SplitType DEF Parts, Texts
  <2> HIDE DEF message
  <2>5. CASE HeaderOK(parts)
    <3>1. updates' = Append(updates, update)
          /\ main' = (IF Terminates(Stamp(parts)) THEN "stopped" ELSE "callback")
          /\ fault' = fault
      BY <1>8, <2>5 DEF ForwardUp, message
    <3>2. Stamp(parts) \in Int
      <4> HIDE DEF Typed, TypeOK, Accepted
      <4>1. ToInteger(parts[1]) \in Int /\ ToInteger(parts[2]) \in Int
        BY <2>5, NumbersAssumption DEF HeaderOK, IsInteger
      <4>2. ToInteger(parts[1]) * Second \in Int
        BY <4>1, NumbersAssumption
      <4> QED
        BY <4>1, <4>2 DEF Stamp
    <3>3. SubSeq(parts, 3, Len(parts)) \in Seq(Texts)
      <4>1. Len(parts) \in Nat /\ \A i \in 3..Len(parts) : parts[i] \in Texts
        BY <2>4, ElementOfSeq
      <4> QED
        BY <4>1, SubSeqProperties
    <3>4. update \in [stamp : Int, values : Seq(Texts)] /\ update.stamp = Stamp(parts)
      BY <3>2, <3>3
    <3> HIDE DEF update
    <3>5. /\ updates' \in Seq([stamp : Int, values : Seq(Texts)])
          /\ Len(updates') = Len(updates) + 1
          /\ updates'[Len(updates) + 1] = update
      BY <3>1, <3>4, AppendProperties
    <3>6. main' = "callback" => updates' # <<>> /\ updates'[Len(updates')].stamp >= 0
      <4>1. updates'[Len(updates')].stamp = Stamp(parts)
        BY <3>4, <3>5
      <4>2. Len(updates') # 0
        BY <2>1, <3>5
      <4>3. updates' # <<>>
        BY <4>2
      <4>4. main' = "callback" => ~(Stamp(parts) < 0)
        BY <3>1 DEF Terminates
      <4> HIDE DEF parts
      <4> QED
        BY <3>2, <4>1, <4>3, <4>4
    <3>7. /\ UNCHANGED <<field, delimiter, packets, written, closed, got, buffer, thread,
                         messages, data, sets, responses>>
          /\ main' \in {"stopped", "callback"}
      BY <1>8, <3>1 DEF ForwardUp
    <3>8. Len(updates') <= Len(messages')
      BY <2>1, <3>5, <3>7
    <3> HIDE DEF parts
    <3> QED
      BY <3>1, <3>5, <3>6, <3>7, <3>8
  <2>6. CASE ~HeaderOK(parts)
    <3>1. /\ UNCHANGED <<updates, main>> /\ fault' = "invalid header"
          /\ UNCHANGED <<field, delimiter, packets, written, closed, got, buffer, thread,
                         messages, data, sets, responses>>
      BY <1>8, <2>6 DEF ForwardUp, message
    <3> HIDE DEF parts
    <3> QED
      BY <3>1 DEF Faults
  <2> QED
    BY <2>5, <2>6
<1>9. CASE SendResponse
  <2>1. Response \in Texts
    <3>1. data \in Seq(Texts)
      BY DataIsSeq
    <3>2. Join(data, field) \in Texts
      BY <3>1, JoinType DEF Texts
    <3> QED
      BY <3>2, ConcatProperties DEF Response, Texts
  <2>2. responses' \in Seq([values : [1..DataSize -> Texts], text : Texts])
    BY <1>9, <2>1 DEF SendResponse
  <2> QED
    BY <1>9, <2>2 DEF SendResponse
<1>10. ASSUME NEW i \in 1..(DataSize + 1), NEW value \in Values, SetValue(i, value)
       PROVE  Typed'
  <2>1. value \in Texts
    BY ValuesAssumption
  <2>2. data' \in [1..DataSize -> Texts]
    BY <1>10, <2>1 DEF SetValue
  <2>3. fault' \in Faults /\ (fault' = "none" => field # <<>> /\ delimiter # <<>>)
    <3>1. \/ SetFault(i, value) = "no such element"
          \/ SetFault(i, value) = "value contains a delimiter"
          \/ SetFault(i, value) = "none"
      BY Zenon DEF SetFault
    <3> QED
      BY <1>10, <3>1 DEF SetValue, Faults
  <2>4. sets' \in 0..MaxSets
    BY <1>10, NumbersAssumption DEF SetValue
  <2> QED
    BY <1>10, <2>2, <2>3, <2>4 DEF SetValue
<1>11. CASE UNCHANGED vars
  BY <1>11 DEF vars
<1> QED
  BY <1>1, <1>2, <1>3, <1>4, <1>5, <1>6, <1>7, <1>8, <1>9, <1>10, <1>11
     DEF Next, Server, Thread, Main

\* The types of the variables hold for all delimiters, packets and values.
THEOREM TextTypes == Spec => []TypeOK
<1>1. Typed => TypeOK
  BY DEF Typed
<1> QED
  BY <1>1, TypedInit, TypedStep, PTL DEF Spec

-----------------------------------------------------------------------------
(* Nothing is dropped.                                                     *)

\* Lines as they are written, each with the delimiter behind it.
Ended(lines, d) == IF lines = <<>> THEN <<>> ELSE Cat(Join(lines, d), d)

LEMMA EndedText ==
  ASSUME NEW lines \in Seq(Texts), NEW d \in Texts
  PROVE  Ended(lines, d) \in Texts
<1>1. Join(lines, d) \in Texts
  BY JoinType DEF Texts
<1>2. Cat(Join(lines, d), d) \in Texts
  BY <1>1, CatType DEF Texts
<1> QED
  BY <1>2, EmptyText DEF Ended

LEMMA CatEmpty ==
  ASSUME NEW text \in Texts
  PROVE  Cat(<<>>, text) = text /\ Cat(text, <<>>) = text
  BY ConcatEmptySeq DEF Cat, Texts

LEMMA EndedAppend ==
  ASSUME NEW lines \in Seq(Texts), NEW d \in Texts, NEW line \in Texts
  PROVE  Ended(Append(lines, line), d) = Cat(Ended(lines, d), Cat(line, d))
<1> DEFINE J == Join(lines, d)
           K == Join(Append(lines, line), d)
<1>1. K = IF lines = <<>> THEN line ELSE Cat(Cat(J, d), line)
  BY JoinAppend DEF Texts
<1>2. J \in Texts /\ Cat(J, d) \in Texts /\ Cat(line, d) \in Texts
  <2>1. J \in Texts
    BY JoinType DEF Texts
  <2> QED
    BY <2>1, CatType DEF Texts
<1>3. Append(lines, line) # <<>>
  BY AppendProperties
<1>4. Ended(Append(lines, line), d) = Cat(K, d)
  BY <1>3 DEF Ended
<1> HIDE DEF J, K
<1>5. CASE lines = <<>>
  BY <1>1, <1>2, <1>4, <1>5, CatEmpty DEF Ended
<1>6. CASE lines # <<>>
  <2>1. Ended(lines, d) = Cat(J, d) /\ K = Cat(Cat(J, d), line)
    BY <1>1, <1>6 DEF Ended, J
  <2>2. Cat(Cat(Cat(J, d), line), d) = Cat(Cat(J, d), Cat(line, d))
    BY <1>2, CatAssociative DEF Texts
  <2> QED
    BY <1>4, <2>1, <2>2
<1> QED
  BY <1>5, <1>6

\* What was written stays when more is written behind it.
LEMMA PastStays ==
  ASSUME NEW text \in Texts, NEW more \in Texts, NEW n \in 0..Len(text)
  PROVE  SubSeq(text \o more, 1, n) = SubSeq(text, 1, n)
<1>1. Len(text) \in Nat
  BY DEF Texts
<1>2. CASE n = 0
  <2>1. SubSeq(text \o more, 1, 0) = <<>> /\ SubSeq(text, 1, 0) = <<>>
    BY SubSeqEmpty
  <2> QED
    BY <1>2, <2>1
<1>3. CASE n # 0
  <2>1. 1 \in 1..Len(text) /\ n \in 1..Len(text)
    BY <1>1, <1>3
  <2> QED
    BY <2>1, SubSeqOfConcat1 DEF Texts
<1> QED
  BY <1>2, <1>3

\* What Send and Break write is added behind the rest.
LEMMA ServerWrites ==
  ASSUME Typed, NEW packet \in Documented, Send(packet) \/ Break(packet)
  PROVE  \E more \in Texts :
           /\ written' = written \o more
           /\ UNCHANGED <<field, delimiter, received, updates, main, user>>
<1>1. TextOf(packet) \in Texts /\ Len(TextOf(packet)) \in Nat
  BY PacketTexts, LenProperties DEF Documented, Typed, TypeOK, Texts
<1>2. CASE Send(packet)
  BY <1>1, <1>2 DEF Send
<1>3. CASE Break(packet)
  <2>1. PICK k \in 1..(Len(TextOf(packet)) - 1) :
          written' = written \o SubSeq(TextOf(packet), 1, k)
    BY <1>3 DEF Break
  <2>2. SubSeq(TextOf(packet), 1, k) \in Texts
    <3>1. 1 \in 1..Len(TextOf(packet)) + 1 /\ k \in 0..Len(TextOf(packet))
      BY <1>1
    <3> QED
      BY <1>1, <3>1, SubText
  <2> QED
    BY <1>3, <2>1, <2>2 DEF Break
<1> QED
  BY <1>2, <1>3

LEMMA NothingDroppedStep == Typed /\ NothingDropped /\ [Next]_vars => NothingDropped'
<1> SUFFICES ASSUME Typed, NothingDropped, [Next]_vars PROVE NothingDropped'
  OBVIOUS
<1> DEFINE W == Ended(messages, delimiter)
<1>1. /\ delimiter \in Texts /\ written \in Texts /\ buffer \in Texts
      /\ messages \in Seq(Texts) /\ got \in 0..Len(written) /\ Len(written) \in Nat
      /\ fault = "none" => delimiter # <<>>
  BY LenProperties DEF Typed, TypeOK, Accepted, Texts
<1>2. W \in Texts
  BY <1>1, EndedText
<1>3. Cat(W, buffer) = SubSeq(written, 1, got)
  BY DEF NothingDropped, Ended, Cat
<1>4. \A i \in DOMAIN messages : ~Contains(messages[i], delimiter)
  BY DEF NothingDropped
<1>5. SUFFICES /\ Cat(Ended(messages', delimiter'), buffer') = SubSeq(written', 1, got')
               /\ \A i \in DOMAIN messages' : ~Contains(messages'[i], delimiter')
  BY DEF NothingDropped, Ended, Cat
<1>6. ASSUME UNCHANGED <<delimiter, written, got, buffer, messages>>
      PROVE  /\ Cat(Ended(messages', delimiter'), buffer') = SubSeq(written', 1, got')
             /\ \A i \in DOMAIN messages' : ~Contains(messages'[i], delimiter')
  BY <1>3, <1>4, <1>6
<1>7. ASSUME NEW packet \in Documented, Send(packet) \/ Break(packet)
      PROVE  /\ Cat(Ended(messages', delimiter'), buffer') = SubSeq(written', 1, got')
             /\ \A i \in DOMAIN messages' : ~Contains(messages'[i], delimiter')
  <2>1. PICK more \in Texts :
          /\ written' = written \o more
          /\ UNCHANGED <<delimiter, got, buffer, messages>>
    BY <1>7, ServerWrites DEF received
  <2>2. SubSeq(written \o more, 1, got) = SubSeq(written, 1, got)
    BY <1>1, PastStays
  <2> QED
    BY <1>3, <1>4, <2>1, <2>2
<1>8. CASE ThreadRecv
  <2>1. PICK k \in 1..BufferSize :
          /\ got + k <= Len(written)
          /\ got' = got + k
          /\ buffer' = buffer \o SubSeq(written, got + 1, got + k)
    BY <1>8 DEF ThreadRecv
  <2>2. k \in Nat
    BY NumbersAssumption
  <2> DEFINE new == SubSeq(written, got + 1, got + k)
  <2>3. got + 1 \in 1..Len(written) + 1 /\ got + k \in 0..Len(written)
    BY <1>1, <2>1, <2>2
  <2>4. new \in Texts
    BY <1>1, <2>3, SubText
  <2>5. Cat(SubSeq(written, 1, got), new) = SubSeq(written, 1, got + k)
    <3>1. /\ 1 \in 1..Len(written) + 1 /\ got \in 1 - 1..Len(written)
          /\ got + k \in got..Len(written)
      BY <1>1, <2>1, <2>2
    <3> QED
      BY <1>1, <3>1, ConcatAdjacentSubSeq DEF Texts, Cat
  <2>6. buffer' = Cat(buffer, new)
    BY <2>1 DEF Cat
  <2> HIDE DEF new, W
  <2>7. Cat(W, buffer') = SubSeq(written, 1, got')
    <3>1. Cat(W, Cat(buffer, new)) = Cat(Cat(W, buffer), new)
      BY <1>1, <1>2, <2>4, CatAssociative DEF Texts
    <3> QED
      BY <1>3, <2>1, <2>5, <2>6, <3>1
  <2>8. UNCHANGED <<delimiter, written, messages>>
    BY <1>8 DEF ThreadRecv, connection
  <2> QED
    BY <1>4, <2>7, <2>8 DEF W
<1>9. CASE ThreadPush
  <2> DEFINE line == Between(buffer, 1, Found)
             rest == Remainder(Found)
  <2>1. /\ messages' = Append(messages, line) /\ buffer' = rest
        /\ UNCHANGED <<delimiter, written, got>> /\ Found # NoPosition
        /\ delimiter # <<>>
    BY <1>1, <1>9 DEF ThreadPush, Runs, connection
  <2>3. /\ line \in Texts /\ rest \in Texts
        /\ buffer = Cat(line, Cat(delimiter, rest))
        /\ ~Contains(line, delimiter)
    <3>1. IsCut(STRING, buffer, delimiter, Found)
      BY <1>1, <2>1, FirstCut DEF Texts, Found
    <3> QED
      BY <3>1 DEF IsCut, Remainder, Texts
  <2> HIDE DEF line, rest, W
  <2>4. Ended(messages', delimiter) = Cat(W, Cat(line, delimiter))
    BY <1>1, <2>1, <2>3, EndedAppend DEF W
  <2>5. Cat(Cat(W, Cat(line, delimiter)), rest) = Cat(W, buffer)
    <3>1. Cat(line, delimiter) \in Texts
      BY <1>1, <2>3, CatType DEF Texts
    <3>2. Cat(Cat(W, Cat(line, delimiter)), rest) = Cat(W, Cat(Cat(line, delimiter), rest))
      BY <1>2, <2>3, <3>1, CatAssociative DEF Texts
    <3>3. Cat(Cat(line, delimiter), rest) = Cat(line, Cat(delimiter, rest))
      BY <1>1, <2>3, CatAssociative DEF Texts
    <3> QED
      BY <2>3, <3>2, <3>3
  <2>6. \A i \in DOMAIN messages' : ~Contains(messages'[i], delimiter)
    BY <1>1, <1>4, <2>1, <2>3, AppendProperties
  <2> QED
    BY <1>3, <2>1, <2>4, <2>5, <2>6
<1>10. CASE Close \/ ThreadHangup \/ ThreadRecvFails \/ UNCHANGED vars
  BY <1>6, <1>10 DEF Close, ThreadHangup, ThreadRecvFails, vars, connection, received
<1>11. CASE Main
  BY <1>6, <1>11 DEF Main, ForwardUp, SendResponse, SetValue, connection, received
<1> QED
  BY <1>7, <1>8, <1>9, <1>10, <1>11 DEF Next, Server, Thread

\* No character is dropped or doubled between recv and the queue, for all delimiters
\* and pieces.
THEOREM KeepsEveryCharacter == Spec => []NothingDropped
<1>1. Init => NothingDropped
  <2> SUFFICES ASSUME Init PROVE NothingDropped
    OBVIOUS
  <2>1. messages = <<>> /\ buffer = <<>> /\ written = <<>> /\ got = 0
    BY DEF Init
  <2>2. <<>> \o <<>> = <<>> /\ SubSeq(<<>>, 1, 0) = <<>>
    BY EmptyText, ConcatEmptySeq, SubSeqEmpty
  <2> QED
    BY <2>1, <2>2 DEF NothingDropped
<1> QED
  BY <1>1, TypedInit, TypedStep, NothingDroppedStep, PTL DEF Spec

-----------------------------------------------------------------------------
(* The messages are those that were sent.                                  *)

\* What the delimiters must be for that.
LEMMA WellChosenIs ==
  ASSUME WellChosen
  PROVE  /\ Apart(field, delimiter)
         /\ field # <<>> /\ delimiter # <<>>
         /\ \A k \in 2..Len(field) : field[k] # field[1]
         /\ \A k \in 2..Len(delimiter) : delimiter[k] # delimiter[1]
  BY DEF WellChosen, Apart

\* The packets without their delimiters.
LinesOf(some, f) == [i \in 1..Len(some) |-> Join(some[i], f)]

LEMMA LinesType ==
  ASSUME NEW some \in Seq(Packets), NEW f \in Texts
  PROVE  /\ LinesOf(some, f) \in Seq(Texts)
         /\ Len(LinesOf(some, f)) = Len(some) /\ Len(some) \in Nat
         /\ \A i \in 1..Len(some) : LinesOf(some, f)[i] = Join(some[i], f)
<1>1. Len(some) \in Nat /\ \A i \in 1..Len(some) : some[i] \in Seq(Texts)
  BY PacketsAssumption, LenProperties, ElementOfSeq
<1>2. \A i \in 1..Len(some) : Join(some[i], f) \in Texts
  BY <1>1, JoinType DEF Texts
<1> DEFINE line(i) == Join(some[i], f)
<1>3. \A i \in 1..Len(some) : line(i) \in Texts
  BY <1>2
<1> HIDE DEF line
<1>4. [i \in 1..Len(some) |-> line(i)] \in Seq(Texts)
  BY <1>1, <1>3, SMT
<1>5. Len([i \in 1..Len(some) |-> line(i)]) = Len(some)
  BY <1>1, SMT
<1> QED
  BY <1>1, <1>4, <1>5 DEF LinesOf, line

LEMMA LinesAppend ==
  ASSUME NEW some \in Seq(Packets), NEW f \in Texts, NEW packet \in Packets
  PROVE  LinesOf(Append(some, packet), f) = Append(LinesOf(some, f), Join(packet, f))
<1> DEFINE more == Append(some, packet)
           L == LinesOf(some, f)
           M == LinesOf(more, f)
           line == Join(packet, f)
<1>1. /\ more \in Seq(Packets) /\ Len(more) = Len(some) + 1
      /\ \A i \in 1..Len(some) : more[i] = some[i]
      /\ more[Len(some) + 1] = packet
  BY AppendProperties
<1>2. /\ L \in Seq(Texts) /\ Len(L) = Len(some) /\ Len(some) \in Nat
      /\ \A i \in 1..Len(some) : L[i] = Join(some[i], f)
  BY LinesType
<1>3. /\ M \in Seq(Texts) /\ Len(M) = Len(more)
      /\ \A i \in 1..Len(more) : M[i] = Join(more[i], f)
  <2> HIDE DEF more
  <2> QED
    BY <1>1, LinesType
<1>4. line \in Texts
  BY PacketsAssumption, JoinType DEF Texts
<1> HIDE DEF more, L, M, line
<1>5. Append(L, line) \in Seq(Texts) /\ Len(Append(L, line)) = Len(L) + 1
      /\ Append(L, line)[Len(L) + 1] = line
      /\ \A i \in 1..Len(L) : Append(L, line)[i] = L[i]
  BY <1>2, <1>4, AppendProperties
<1>6. M[Len(some) + 1] = line
  BY <1>1, <1>2, <1>3 DEF line
<1>7. \A i \in 1..Len(M) : M[i] = Append(L, line)[i]
  BY <1>1, <1>2, <1>3, <1>5, <1>6
<1>8. M = Append(L, line)
  BY <1>1, <1>2, <1>3, <1>5, <1>7, SeqEqual
<1> QED
  BY <1>8 DEF M, L, more, line

\* A documented packet has no message delimiter, and its values have none.
LEMMA DocumentedClean ==
  ASSUME Typed, WellChosen, NEW packet \in Documented
  PROVE  /\ ~Contains(Join(packet, field), delimiter)
         /\ \A i \in 1..Len(packet) : ~Contains(packet[i], field)
<1>1. packet \in Packets /\ \A i \in DOMAIN packet : Legal(packet[i])
  BY DEF Documented
<1>2. packet \in Seq(Texts) /\ DOMAIN packet = 1..Len(packet)
  BY <1>1, PacketsAssumption, LenProperties
<1>3. \A i \in 1..Len(packet) :
        ~Contains(packet[i], field) /\ ~Contains(packet[i], delimiter)
  BY <1>1, <1>2 DEF Legal
<1>4. ~Contains(Join(packet, field), delimiter)
  BY <1>2, <1>3, WellChosenIs, JoinClean DEF Typed, TypeOK, Texts
<1> QED
  BY <1>3, <1>4

\* The beginning of a sequence stays when an element is appended.
LEMMA FirstOfAppend ==
  ASSUME NEW S, NEW s \in Seq(S), NEW e \in S, NEW n \in 0..Len(s)
  PROVE  SubSeq(Append(s, e), 1, n) = SubSeq(s, 1, n)
<1>1. Len(s) \in Nat /\ Append(s, e) = s \o <<e>> /\ <<e>> \in Seq(S)
  BY LenProperties, AppendIsConcat
<1>2. CASE n = 0
  BY <1>2, SubSeqEmpty
<1>3. CASE n # 0
  <2>1. 1 \in 1..Len(s) /\ n \in 1..Len(s)
    BY <1>1, <1>3
  <2>2. SubSeq(s \o <<e>>, 1, n) = SubSeq(s, 1, n)
    BY <1>1, <2>1, SubSeqOfConcat1
  <2> QED
    BY <1>1, <2>2
<1> QED
  BY <1>2, <1>3

\* The beginning of a text is one of a longer text.
LEMMA BeginsLonger ==
  ASSUME NEW first \in Texts, NEW text \in Texts, NEW more \in Texts,
         Begins(first, text)
  PROVE  Begins(first, Cat(text, more))
  BY ConcatProperties, LenProperties DEF Begins, Cat, Texts

\* What has been written: the packets sent, one after the other, and at the end
\* perhaps a part of one.
Lines == LinesOf(packets, field)

WrittenIsSent ==
  /\ \A i \in 1..Len(packets) : packets[i] \in Documented
  /\ \A k \in 0..Len(packets) : Begins(Ended(SubSeq(Lines, 1, k), delimiter), written)
  /\ \/ written = Ended(Lines, delimiter)
     \/ /\ closed
        /\ \E packet \in Documented : \E k \in 1..(Len(TextOf(packet)) - 1) :
             written = Cat(Ended(Lines, delimiter), SubSeq(TextOf(packet), 1, k))

LEMMA WrittenStep == Typed /\ WrittenIsSent /\ [Next]_vars => WrittenIsSent'
<1> SUFFICES ASSUME Typed, WrittenIsSent, [Next]_vars PROVE WrittenIsSent'
  OBVIOUS
<1> DEFINE N == Len(packets)
<1>1. /\ field \in Texts /\ delimiter \in Texts /\ written \in Texts
      /\ packets \in Seq(Packets)
  BY DEF Typed, TypeOK
<1>2. Lines \in Seq(Texts) /\ Len(Lines) = N /\ N \in Nat
  BY <1>1, LinesType DEF Lines
<1>3. Ended(Lines, delimiter) \in Texts
  BY <1>1, <1>2, EndedText
<1>4. CASE UNCHANGED <<field, delimiter, packets, written>> /\ (closed => closed')
  <2>1. Lines' = Lines /\ Documented' = Documented /\ \A p : TextOf(p)' = TextOf(p)
    BY <1>4 DEF Lines, Documented, Legal, TextOf
  <2> QED
    BY <1>4, <2>1 DEF WrittenIsSent
<1>5. ASSUME NEW packet \in Documented, Send(packet)
      PROVE  WrittenIsSent'
  <2> DEFINE line == Join(packet, field)
  <2>1. packet \in Packets /\ line \in Texts /\ TextOf(packet) = Cat(line, delimiter)
    BY <1>1, PacketTexts DEF Documented, TextOf, Cat
  <2>2. /\ packets' = Append(packets, packet) /\ ~closed
        /\ written' = Cat(written, TextOf(packet))
        /\ UNCHANGED <<field, delimiter>>
    BY <1>5 DEF Send, Cat
  <2>3. Documented' = Documented
    BY <2>2 DEF Documented, Legal
  <2>4. Lines' = Append(Lines, line)
    BY <1>1, <2>1, <2>2, LinesAppend DEF Lines
  <2>5. Len(packets') = N + 1 /\ packets'[N + 1] = packet
        /\ \A i \in 1..N : packets'[i] = packets[i]
    BY <1>1, <2>1, <2>2, AppendProperties
  <2> HIDE DEF line
  <2>6. written = Ended(Lines, delimiter)
    BY <2>2 DEF WrittenIsSent
  <2>7. written' = Ended(Lines', delimiter)
    BY <1>1, <1>2, <2>1, <2>2, <2>4, <2>6, EndedAppend
  <2>8. \A i \in 1..Len(packets') : packets'[i] \in Documented'
    BY <1>2, <2>3, <2>5 DEF WrittenIsSent
  <2>9. ASSUME NEW k \in 0..Len(packets')
        PROVE  Begins(Ended(SubSeq(Lines', 1, k), delimiter), written')
    <3>1. CASE k \in 0..N
      <4>1. SubSeq(Lines', 1, k) = SubSeq(Lines, 1, k)
        BY <1>2, <2>1, <2>4, <3>1, FirstOfAppend
      <4>2. SubSeq(Lines, 1, k) \in Seq(Texts)
        BY <1>2, <3>1, ElementOfSeq, SubSeqProperties
      <4>3. Ended(SubSeq(Lines, 1, k), delimiter) \in Texts
        BY <1>1, <4>2, EndedText
      <4>4. Begins(Ended(SubSeq(Lines, 1, k), delimiter), written)
        BY <3>1 DEF WrittenIsSent
      <4>5. TextOf(packet) \in Texts
        BY <1>1, <2>1, PacketTexts
      <4> QED
        BY <1>1, <2>2, <4>1, <4>3, <4>4, <4>5, BeginsLonger
    <3>2. CASE k = N + 1
      <4>1. Lines' \in Seq(Texts) /\ Len(Lines') = N + 1
        BY <1>2, <2>1, <2>4, AppendProperties
      <4>2. SubSeq(Lines', 1, k) = Lines'
        BY <3>2, <4>1, SubSeqFull
      <4>3. Len(written') <= Len(written')
        <5>1. written' \in Texts
          BY <1>1, <2>1, <2>7, <4>1, EndedText
        <5> QED
          BY <5>1, LenProperties DEF Texts
      <4> QED
        BY <2>7, <4>2, <4>3 DEF Begins
    <3> QED
      BY <1>2, <2>5, <3>1, <3>2
  <2> QED
    BY <2>2, <2>7, <2>8, <2>9 DEF WrittenIsSent
<1>6. ASSUME NEW packet \in Documented, Break(packet)
      PROVE  WrittenIsSent'
  <2>1. PICK k \in 1..(Len(TextOf(packet)) - 1) :
          written' = Cat(written, SubSeq(TextOf(packet), 1, k))
    BY <1>6 DEF Break, Cat
  <2>2. /\ UNCHANGED <<field, delimiter, packets>> /\ ~closed /\ closed'
    BY <1>6 DEF Break
  <2>3. /\ Lines' = Lines /\ Documented' = Documented
        /\ \A p : TextOf(p)' = TextOf(p)
    BY <2>2 DEF Lines, Documented, Legal, TextOf
  <2>4. SubSeq(TextOf(packet), 1, k) \in Texts
    <3>1. TextOf(packet) \in Texts
      BY <1>1, PacketTexts DEF Documented
    <3>2. 1 \in 1..Len(TextOf(packet)) + 1 /\ k \in 0..Len(TextOf(packet))
      BY <3>1, LenProperties DEF Texts
    <3> QED
      BY <3>1, <3>2, SubText
  <2>5. ASSUME NEW n \in 0..N
        PROVE  Begins(Ended(SubSeq(Lines, 1, n), delimiter), written')
    <3>1. SubSeq(Lines, 1, n) \in Seq(Texts)
      BY <1>2, ElementOfSeq, SubSeqProperties
    <3>2. Ended(SubSeq(Lines, 1, n), delimiter) \in Texts
      BY <1>1, <3>1, EndedText
    <3>3. Begins(Ended(SubSeq(Lines, 1, n), delimiter), written)
      BY DEF WrittenIsSent
    <3> QED
      BY <1>1, <2>1, <2>4, <3>2, <3>3, BeginsLonger
  <2>6. written = Ended(Lines, delimiter)
    BY <2>2 DEF WrittenIsSent
  <2>7. \E q \in Documented' : \E n \in 1..(Len(TextOf(q)') - 1) :
          written' = Cat(Ended(Lines', delimiter'), SubSeq(TextOf(q)', 1, n))
    BY <2>1, <2>2, <2>3, <2>6
  <2>8. \A i \in 1..Len(packets') : packets'[i] \in Documented'
    BY <2>2, <2>3 DEF WrittenIsSent
  <2> QED
    BY <2>2, <2>3, <2>5, <2>7, <2>8 DEF WrittenIsSent
<1>7. CASE Close \/ ThreadRecv \/ ThreadPush \/ ThreadHangup \/ ThreadRecvFails
           \/ UNCHANGED vars
  BY <1>4, <1>7 DEF Close, ThreadRecv, ThreadPush, ThreadHangup, ThreadRecvFails, vars,
                    connection
<1>8. CASE Main
  BY <1>4, <1>8 DEF Main, ForwardUp, SendResponse, SetValue, connection
<1> QED
  BY <1>5, <1>6, <1>7, <1>8 DEF Next, Server, Thread

\* What comes out of the text is what went in.
MessagesAreSent ==
  /\ Len(messages) <= Len(packets)
  /\ messages = SubSeq(Lines, 1, Len(messages))

\* Where a text continues that is known in two ways.
LEMMA ContinuesAs ==
  ASSUME NEW before \in Texts, NEW rest \in Texts, NEW text \in Texts, NEW other \in Texts,
         NEW n \in 0..Len(text),
         Cat(before, rest) = SubSeq(text, 1, n), Begins(Cat(before, other), text)
  PROVE  Agrees(rest, other)
<1>1. /\ Len(before) \in Nat /\ Len(rest) \in Nat /\ Len(other) \in Nat
      /\ Len(text) \in Nat
  BY LenProperties DEF Texts
<1>2. /\ Len(Cat(before, rest)) = Len(before) + Len(rest)
      /\ \A i \in 1..Len(rest) : Cat(before, rest)[Len(before) + i] = rest[i]
  <2>1. /\ Len(before \o rest) = Len(before) + Len(rest)
        /\ \A i \in 1..(Len(before) + Len(rest)) :
             (before \o rest)[i] = IF i <= Len(before) THEN before[i]
                                   ELSE rest[i - Len(before)]
    BY ConcatProperties DEF Texts
  <2> QED
    BY <1>1, <2>1 DEF Cat
<1>3. /\ Len(Cat(before, other)) = Len(before) + Len(other)
      /\ \A i \in 1..Len(other) : Cat(before, other)[Len(before) + i] = other[i]
  <2>1. /\ Len(before \o other) = Len(before) + Len(other)
        /\ \A i \in 1..(Len(before) + Len(other)) :
             (before \o other)[i] = IF i <= Len(before) THEN before[i]
                                    ELSE other[i - Len(before)]
    BY ConcatProperties DEF Texts
  <2> QED
    BY <1>1, <2>1 DEF Cat
<1>4. /\ Len(SubSeq(text, 1, n)) = n
      /\ \A i \in 1..n : SubSeq(text, 1, n)[i] = text[i]
  <2>1. 1 \in 1..Len(text) + 1 /\ n \in Nat
    BY <1>1
  <2>2. /\ Len(SubSeq(text, 1, n)) = IF 1 <= n THEN n - 1 + 1 ELSE 0
        /\ \A i \in 1..n - 1 + 1 : SubSeq(text, 1, n)[i] = text[1 + i - 1]
    BY <2>1, SubText
  <2> QED
    BY <2>1, <2>2
<1>5. SUFFICES ASSUME NEW i \in 1..Len(rest), i <= Len(other) PROVE rest[i] = other[i]
  BY DEF Agrees
<1>6. n = Len(before) + Len(rest) /\ Len(before) + i \in 1..n
  BY <1>1, <1>2, <1>4
<1>7. rest[i] = text[Len(before) + i]
  BY <1>2, <1>4, <1>6
<1>8. Len(before) + i \in 1..Len(Cat(before, other)) /\ i \in 1..Len(other)
  BY <1>1, <1>3, <1>5
<1>9. text[Len(before) + i] = Cat(before, other)[Len(before) + i]
  BY <1>8 DEF Begins
<1> QED
  BY <1>3, <1>7, <1>8, <1>9

\* The message found in the buffer is the next packet.
LEMMA NextPacket ==
  ASSUME Typed, WellChosen, NothingDropped, WrittenIsSent, MessagesAreSent,
         Found # NoPosition
  PROVE  /\ Len(messages) < Len(packets)
         /\ Between(buffer, 1, Found) = Lines[Len(messages) + 1]
<1> DEFINE N == Len(packets)
           n == Len(messages)
           W == Ended(messages, delimiter)
<1>1. /\ field \in Texts /\ delimiter \in Texts /\ written \in Texts
      /\ buffer \in Texts /\ messages \in Seq(Texts) /\ packets \in Seq(Packets)
      /\ got \in 0..Len(written) /\ delimiter # <<>>
      /\ \A k \in 2..Len(delimiter) : delimiter[k] # delimiter[1]
  BY WellChosenIs DEF Typed, TypeOK
<1>2. /\ Lines \in Seq(Texts) /\ Len(Lines) = N /\ N \in Nat /\ n \in Nat
      /\ \A i \in 1..N : Lines[i] = Join(packets[i], field)
  BY <1>1, LinesType, LenProperties DEF Lines
<1>3. W \in Texts /\ Cat(W, buffer) = SubSeq(written, 1, got)
  BY <1>1, EndedText DEF NothingDropped, Ended, Cat
<1>4. \A line \in Texts : ~Contains(line, delimiter)
        /\ Agrees(buffer, Cat(line, delimiter)) =>
          /\ Len(buffer) >= Len(line) + Len(delimiter)
          /\ Found = Len(line) + 1
  <2>1. TAKE line \in Texts
  <2>2. ASSUME ~Contains(line, delimiter), Agrees(buffer, Cat(line, delimiter))
        PROVE  Found = IF Len(buffer) >= Len(line) + Len(delimiter)
                       THEN Len(line) + 1 ELSE NoPosition
    BY <1>1, <2>2, FirstDelimiter DEF Found, Texts
  <2> QED
    BY <2>2
<1>5. CASE n < N
  <2> DEFINE line == Lines[n + 1]
  <2>1. n + 1 \in 1..N /\ line \in Texts /\ line = Join(packets[n + 1], field)
    BY <1>2, <1>5, ElementOfSeq
  <2>2. ~Contains(line, delimiter)
    <3>1. packets[n + 1] \in Documented
      BY <2>1 DEF WrittenIsSent
    <3> QED
      BY <2>1, <3>1, DocumentedClean
  <2>3. SubSeq(Lines, 1, n + 1) = Append(messages, line)
    <3>1. 1 \in 1..Len(Lines) /\ n + 1 \in 1..Len(Lines) /\ (n + 1) - 1 = n
      BY <1>2, <2>1
    <3>2. SubSeq(Lines, 1, n + 1) = SubSeq(Lines, 1, (n + 1) - 1) \o <<Lines[n + 1]>>
      BY <1>2, <3>1, SubSeqRecursiveSecond
    <3>3. Append(messages, line) = messages \o <<line>>
      BY <1>1, <2>1, AppendIsConcat
    <3> QED
      BY <3>1, <3>2, <3>3 DEF MessagesAreSent
  <2> HIDE DEF line
  <2>4. Begins(Cat(W, Cat(line, delimiter)), written)
    <3>1. n + 1 \in 0..Len(packets)
      BY <1>2, <2>1
    <3>2. Begins(Ended(SubSeq(Lines, 1, n + 1), delimiter), written)
      BY <3>1 DEF WrittenIsSent
    <3> QED
      BY <1>1, <2>1, <2>3, <3>2, EndedAppend
  <2>5. Cat(line, delimiter) \in Texts
    BY <1>1, <2>1, CatType DEF Texts
  <2>6. Agrees(buffer, Cat(line, delimiter))
    <3> HIDE DEF W
    <3> QED
      BY <1>1, <1>3, <2>4, <2>5, ContinuesAs
  <2>7. Found = Len(line) + 1 /\ Len(buffer) >= Len(line) + Len(delimiter)
    BY <1>4, <2>1, <2>2, <2>6
  <2>8. /\ Len(line) \in Nat /\ Len(buffer) \in Nat /\ Len(delimiter) \in Nat
        /\ Len(Cat(line, delimiter)) = Len(line) + Len(delimiter)
        /\ \A i \in 1..Len(line) : Cat(line, delimiter)[i] = line[i]
    <3>1. /\ Len(line \o delimiter) = Len(line) + Len(delimiter)
          /\ \A i \in 1..(Len(line) + Len(delimiter)) :
               (line \o delimiter)[i] = IF i <= Len(line) THEN line[i]
                                        ELSE delimiter[i - Len(line)]
      BY <1>1, <2>1, ConcatProperties DEF Texts
    <3>2. Len(line) \in Nat /\ Len(buffer) \in Nat /\ Len(delimiter) \in Nat
      BY <1>1, <2>1, LenProperties DEF Texts
    <3> QED
      BY <3>1, <3>2 DEF Cat
  <2>9. \A i \in 1..Len(line) : buffer[i] = line[i]
    BY <2>6, <2>7, <2>8 DEF Agrees
  <2>10. SubSeq(buffer, 1, Len(line)) = line
    <3>1. 1 \in 1..Len(buffer) + 1 /\ Len(line) \in 0..Len(buffer)
      BY <2>7, <2>8
    <3>2. /\ SubSeq(buffer, 1, Len(line)) \in Texts
          /\ Len(SubSeq(buffer, 1, Len(line)))
               = IF 1 <= Len(line) THEN Len(line) - 1 + 1 ELSE 0
          /\ \A i \in 1..Len(line) - 1 + 1 :
               SubSeq(buffer, 1, Len(line))[i] = buffer[1 + i - 1]
      BY <1>1, <3>1, SubText
    <3>3. /\ Len(SubSeq(buffer, 1, Len(line))) = Len(line)
          /\ \A i \in 1..Len(line) : SubSeq(buffer, 1, Len(line))[i] = line[i]
      BY <2>8, <2>9, <3>2
    <3> QED
      BY <2>1, <3>2, <3>3, SeqEqual DEF Texts
  <2>11. Found - 1 = Len(line)
    BY <2>7, <2>8
  <2> QED
    BY <1>5, <2>10, <2>11 DEF Between, line
<1>6. CASE ~(n < N)
  <2>1. n = N
    BY <1>2, <1>6 DEF MessagesAreSent
  <2>2. messages = Lines
    BY <1>2, <2>1, SubSeqFull DEF MessagesAreSent
  <2>3. \E line \in Texts :
          /\ ~Contains(line, delimiter)
          /\ Agrees(buffer, Cat(line, delimiter))
          /\ Len(buffer) < Len(line) + Len(delimiter)
    <3>1. /\ Len(W) \in Nat /\ Len(buffer) \in Nat /\ Len(delimiter) \in Nat \ {0}
          /\ Len(Cat(W, buffer)) = Len(W) + Len(buffer)
      BY <1>1, <1>3, CatType, LenProperties, EmptySeq DEF Texts
    <3>2. Len(SubSeq(written, 1, got)) = got /\ got \in Nat
      <4>1. 1 \in 1..Len(written) + 1 /\ got \in Nat
        BY <1>1, LenProperties DEF Texts
      <4>2. Len(SubSeq(written, 1, got)) = IF 1 <= got THEN got - 1 + 1 ELSE 0
        BY <1>1, <4>1, SubText
      <4> QED
        BY <4>1, <4>2
    <3>3. Len(W) + Len(buffer) = got
      BY <1>3, <3>1, <3>2
    <3>4. CASE written = Ended(Lines, delimiter)
      <4>1. Len(buffer) = 0
        BY <1>1, <2>2, <3>1, <3>3, <3>4
      <4>2. ~Contains(<<>>, delimiter)
        BY DEF Contains, Occurrences
      <4>3. Agrees(buffer, Cat(<<>>, delimiter))
        BY <4>1 DEF Agrees
      <4>4. <<>> \in Texts /\ Len(buffer) < Len(<<>>) + Len(delimiter)
        BY <3>1, <4>1, EmptyText
      <4> QED
        BY <4>2, <4>3, <4>4, Zenon
    <3>5. CASE written # Ended(Lines, delimiter)
      <4>0. PICK packet \in Documented : \E k \in 1..(Len(TextOf(packet)) - 1) :
              written = Cat(W, SubSeq(TextOf(packet), 1, k))
        BY <2>2, <3>5 DEF WrittenIsSent
      <4>1. PICK k \in 1..(Len(TextOf(packet)) - 1) :
              written = Cat(W, SubSeq(TextOf(packet), 1, k))
        BY <4>0
      <4> DEFINE line == Join(packet, field)
                 part == SubSeq(TextOf(packet), 1, k)
      <4>2. /\ line \in Texts /\ TextOf(packet) = Cat(line, delimiter)
            /\ TextOf(packet) \in Texts /\ ~Contains(line, delimiter)
        BY <1>1, PacketTexts, DocumentedClean DEF Documented, TextOf, Cat
      <4>3. /\ Len(line) \in Nat
            /\ Len(TextOf(packet)) = Len(line) + Len(delimiter)
        BY <1>1, <4>2, CatType, LenProperties DEF Texts
      <4>4. /\ part \in Texts /\ Len(part) = k
            /\ \A i \in 1..k : part[i] = TextOf(packet)[i]
        <5>1. /\ 1 \in 1..Len(TextOf(packet)) + 1 /\ k \in 0..Len(TextOf(packet))
              /\ 1 <= k /\ k - 1 + 1 = k
          BY <3>1, <4>3
        <5>2. /\ SubSeq(TextOf(packet), 1, k) \in Texts
              /\ Len(SubSeq(TextOf(packet), 1, k)) = IF 1 <= k THEN k - 1 + 1 ELSE 0
              /\ \A i \in 1..k - 1 + 1 :
                   SubSeq(TextOf(packet), 1, k)[i] = TextOf(packet)[1 + i - 1]
          BY <4>2, <5>1, SubText
        <5> QED
          BY <5>1, <5>2
      <4> HIDE DEF part, line, W
      <4>5. Len(written) = Len(W) + k
        BY <1>3, <4>1, <4>4, CatType DEF Texts, part
      <4>6. Len(buffer) <= k
        BY <1>1, <3>1, <3>3, <4>5
      <4>7. Agrees(buffer, part)
        <5>1. Begins(Cat(W, part), written)
          BY <1>1, <4>1, <4>5 DEF Begins, part
        <5> QED
          BY <1>1, <1>3, <4>4, <5>1, ContinuesAs
      <4>8. Agrees(buffer, Cat(line, delimiter))
        BY <3>1, <4>2, <4>3, <4>4, <4>6, <4>7 DEF Agrees
      <4> QED
        BY <3>1, <4>2, <4>3, <4>6, <4>8
    <3> QED
      BY <3>4, <3>5
  <2>4. PICK line \in Texts :
          /\ ~Contains(line, delimiter)
          /\ Agrees(buffer, Cat(line, delimiter))
          /\ Len(buffer) < Len(line) + Len(delimiter)
    BY <2>3
  <2>5. Len(buffer) >= Len(line) + Len(delimiter)
    BY <1>4, <2>4
  <2>6. Len(buffer) \in Nat /\ Len(line) \in Nat /\ Len(delimiter) \in Nat
    BY <1>1, LenProperties DEF Texts
  <2> QED
    BY <2>4, <2>5, <2>6
<1> QED
  BY <1>5, <1>6

LEMMA MessagesStep ==
  /\ Typed /\ NothingDropped /\ WrittenIsSent /\ (WellChosen => MessagesAreSent)
  /\ [Next]_vars
  => (WellChosen => MessagesAreSent)'
<1> SUFFICES ASSUME Typed, NothingDropped, WrittenIsSent, WellChosen => MessagesAreSent,
                    [Next]_vars, WellChosen'
             PROVE  MessagesAreSent'
  OBVIOUS
<1> DEFINE n == Len(messages)
<1>1. field' = field /\ delimiter' = delimiter
  BY DEF Next, Server, Close, Send, Break, Thread, ThreadRecv, ThreadPush, ThreadHangup,
         ThreadRecvFails, Main, ForwardUp, SendResponse, SetValue, vars
<1>2. WellChosen
  BY <1>1 DEF WellChosen
<1>3. /\ packets \in Seq(Packets) /\ field \in Texts /\ messages \in Seq(Texts)
      /\ n \in Nat
  BY LenProperties DEF Typed, TypeOK
<1>4. Lines \in Seq(Texts) /\ Len(Lines) = Len(packets) /\ Len(packets) \in Nat
  BY <1>3, LinesType DEF Lines
<1>5. n <= Len(packets) /\ messages = SubSeq(Lines, 1, n)
  BY <1>2 DEF MessagesAreSent
<1>6. CASE UNCHANGED <<packets, messages>>
  BY <1>1, <1>5, <1>6 DEF MessagesAreSent, Lines
<1>7. ASSUME NEW packet \in Documented, Send(packet)
      PROVE  MessagesAreSent'
  <2>1. packets' = Append(packets, packet) /\ messages' = messages /\ packet \in Packets
    BY <1>7 DEF Send, received, Documented
  <2>2. Lines' = Append(Lines, Join(packet, field)) /\ Join(packet, field) \in Texts
    BY <1>1, <1>3, <2>1, LinesAppend, PacketTexts DEF Lines, Typed, TypeOK
  <2>3. Len(packets') = Len(packets) + 1
    BY <1>3, <2>1
  <2>4. SubSeq(Lines', 1, n) = SubSeq(Lines, 1, n)
    BY <1>3, <1>4, <1>5, <2>2, FirstOfAppend
  <2> QED
    BY <1>3, <1>4, <1>5, <2>1, <2>3, <2>4 DEF MessagesAreSent
<1>8. CASE ThreadPush
  <2> DEFINE line == Lines[n + 1]
  <2>1. /\ messages' = Append(messages, Between(buffer, 1, Found))
        /\ packets' = packets /\ Found # NoPosition
    BY <1>8 DEF ThreadPush, connection
  <2>2. n < Len(packets) /\ messages' = Append(messages, line)
    BY <1>2, <2>1, NextPacket
  <2>3. n + 1 \in 1..Len(Lines) /\ 1 \in 1..Len(Lines) /\ (n + 1) - 1 = n
        /\ line \in Texts
    BY <1>3, <1>4, <2>2, ElementOfSeq
  <2>4. SubSeq(Lines, 1, n + 1) = SubSeq(Lines, 1, (n + 1) - 1) \o <<Lines[n + 1]>>
    BY <1>4, <2>3, SubSeqRecursiveSecond
  <2>5. Append(messages, line) = messages \o <<line>> /\ Len(messages') = n + 1
    BY <1>3, <2>2, <2>3, AppendIsConcat, AppendProperties
  <2>6. messages' = SubSeq(Lines, 1, n + 1)
    BY <1>5, <2>2, <2>3, <2>4, <2>5
  <2>7. Lines' = Lines
    BY <1>1, <2>1 DEF Lines
  <2> QED
    BY <1>3, <1>4, <2>1, <2>2, <2>5, <2>6, <2>7 DEF MessagesAreSent
<1>9. CASE Close \/ (\E packet \in Documented : Break(packet)) \/ ThreadRecv
           \/ ThreadHangup \/ ThreadRecvFails \/ Main \/ UNCHANGED vars
  BY <1>6, <1>9 DEF Close, Break, ThreadRecv, ThreadHangup, ThreadRecvFails, Main,
     ForwardUp, SendResponse, SetValue, vars, connection, received
<1> QED
  BY <1>7, <1>8, <1>9 DEF Next, Server, Thread

\* What the messages are made of.
Correct ==
  /\ Typed /\ NothingDropped /\ WrittenIsSent
  /\ WellChosen => MessagesAreSent

LEMMA CorrectInit == Init => Correct
<1> SUFFICES ASSUME Init PROVE Correct
  OBVIOUS
<1>1. Typed
  BY TypedInit
<1>2. /\ packets = <<>> /\ messages = <<>> /\ buffer = <<>> /\ written = <<>> /\ got = 0
      /\ Len(packets) = 0 /\ Len(messages) = 0
  BY DEF Init
<1>3. SubSeq(Lines, 1, 0) = <<>> /\ SubSeq(<<>>, 1, 0) = <<>> /\ <<>> \o <<>> = <<>>
  BY EmptyText, ConcatEmptySeq, SubSeqEmpty
<1>4. NothingDropped
  BY <1>2, <1>3 DEF NothingDropped
<1>5. MessagesAreSent
  BY <1>2, <1>3 DEF MessagesAreSent
<1>6. Lines = <<>>
  <2>1. Lines \in Seq(Texts) /\ Len(Lines) = 0
    BY <1>1, <1>2, LinesType DEF Lines, Typed, TypeOK
  <2> QED
    BY <2>1, EmptySeq
<1>7. WrittenIsSent
  <2>1. Ended(<<>>, delimiter) = <<>>
    BY DEF Ended
  <2>2. \A k \in 0..Len(packets) : k = 0
    BY <1>2
  <2>3. Begins(<<>>, <<>>)
    BY DEF Begins
  <2>4. \A k \in 0..Len(packets) :
          Begins(Ended(SubSeq(Lines, 1, k), delimiter), written)
    BY <1>2, <1>3, <2>1, <2>2, <2>3
  <2>5. written = Ended(Lines, delimiter)
    BY <1>2, <1>6, <2>1
  <2>6. \A i \in 1..Len(packets) : packets[i] \in Documented
    BY <1>2
  <2> QED
    BY <2>4, <2>5, <2>6 DEF WrittenIsSent
<1> QED
  BY <1>1, <1>4, <1>5, <1>7 DEF Correct

LEMMA CorrectStep == Correct /\ [Next]_vars => Correct'
  BY TypedStep, NothingDroppedStep, WrittenStep, MessagesStep DEF Correct

LEMMA CorrectAlways == Spec => []Correct
  BY CorrectInit, CorrectStep, PTL DEF Spec

LEMMA SentMessages ==
  ASSUME Correct, WellChosen
  PROVE  /\ Len(messages) <= Len(packets)
         /\ \A i \in 1..Len(messages) :
              messages[i] = Join(packets[i], field) /\ packets[i] \in Documented
<1>1. /\ packets \in Seq(Packets) /\ field \in Texts /\ messages \in Seq(Texts)
      /\ Len(messages) \in Nat
  BY LenProperties DEF Correct, Typed, TypeOK
<1>2. /\ Lines \in Seq(Texts) /\ Len(Lines) = Len(packets) /\ Len(packets) \in Nat
      /\ \A i \in 1..Len(packets) : Lines[i] = Join(packets[i], field)
  BY <1>1, LinesType DEF Lines
<1>3. Len(messages) <= Len(packets) /\ messages = SubSeq(Lines, 1, Len(messages))
  BY DEF Correct, MessagesAreSent
<1>4. \A i \in 1..Len(messages) : SubSeq(Lines, 1, Len(messages))[i] = Lines[i]
  <2> DEFINE n == Len(messages)
  <2>1. 1 \in Int /\ n \in Int /\ \A i \in 1..n : Lines[i] \in Texts
    BY <1>1, <1>2, <1>3, ElementOfSeq
  <2> HIDE DEF n
  <2>2. \A i \in 1..n - 1 + 1 : SubSeq(Lines, 1, n)[i] = Lines[1 + i - 1]
    BY <2>1, SubSeqProperties
  <2>3. \A i \in 1..n : SubSeq(Lines, 1, n)[i] = Lines[i]
    BY <2>1, <2>2
  <2> QED
    BY <2>3 DEF n
<1>5. \A i \in 1..Len(messages) : messages[i] = Join(packets[i], field)
  BY <1>1, <1>2, <1>3, <1>4
<1> QED
  BY <1>1, <1>2, <1>3, <1>5 DEF Correct, WrittenIsSent

\* The messages are those that were sent, for all delimiters that can be told apart
\* and all documented packets.
THEOREM ReceivesWhatWasSent == Spec => []MessagesAsSent
<1>1. Correct => MessagesAsSent
  <2> SUFFICES ASSUME Correct, WellChosen
               PROVE  /\ Len(messages) <= Len(packets)
                      /\ \A i \in DOMAIN messages : messages[i] = Join(packets[i], field)
    BY DEF MessagesAsSent
  <2>1. DOMAIN messages = 1..Len(messages)
    BY LenProperties DEF Correct, Typed, TypeOK
  <2> QED
    BY <2>1, SentMessages
<1> QED
  BY <1>1, CorrectAlways, PTL

-----------------------------------------------------------------------------
(* The values are those that were sent.                                    *)

\* What ForwardUp has made of the messages.
UpdateOf(parts) == [stamp |-> Stamp(parts), values |-> SubSeq(parts, 3, Len(parts))]
UpdatesAreParts ==
  \A i \in 1..Len(updates) : updates[i] = UpdateOf(Parts(messages[i]))

LEMMA DelimitersStay ==
  ASSUME [Next]_vars
  PROVE  field' = field /\ delimiter' = delimiter
  BY DEF Next, Server, Close, Send, Break, Thread, ThreadRecv, ThreadPush, ThreadHangup,
         ThreadRecvFails, Main, ForwardUp, SendResponse, SetValue, vars

LEMMA UpdatesStep == Typed /\ UpdatesAreParts /\ [Next]_vars => UpdatesAreParts'
<1> SUFFICES ASSUME Typed, UpdatesAreParts, [Next]_vars PROVE UpdatesAreParts'
  OBVIOUS
<1> DEFINE Made(message) == UpdateOf(Parts(message))
<1>1. /\ messages \in Seq(Texts) /\ updates \in Seq([stamp : Int, values : Seq(Texts)])
      /\ Len(updates) <= Len(messages)
  BY DEF Typed, TypeOK
<1>2. Len(messages) \in Nat /\ Len(updates) \in Nat
  <2>1. \A S, q : q \in Seq(S) => Len(q) \in Nat
    BY LenProperties
  <2> QED
    BY <1>1, <2>1
<1>3. \A m : Made(m)' = Made(m)
  BY DelimitersStay DEF Parts
<1>4. \A i \in 1..Len(updates) : updates[i] = Made(messages[i])
  BY DEF UpdatesAreParts
<1> HIDE DEF Made
<1>5. SUFFICES \A i \in 1..Len(updates') : updates'[i] = Made(messages'[i])
  BY <1>3 DEF UpdatesAreParts, Made
<1>6. CASE UNCHANGED <<messages, updates>>
  BY <1>4, <1>6
<1>7. CASE ThreadPush
  <2>1. updates' = updates
    BY <1>7 DEF ThreadPush
  <2>2. \A i \in 1..Len(messages) : messages'[i] = messages[i]
    <3>1. messages' = Append(messages, Between(buffer, 1, Found))
      BY <1>7 DEF ThreadPush
    <3> QED
      BY <1>1, <3>1
  <2>3. ASSUME NEW i \in 1..Len(updates')
        PROVE  updates'[i] = Made(messages'[i])
    <3>1. i \in 1..Len(updates) /\ i \in 1..Len(messages)
      BY <1>1, <1>2, <2>1
    <3>2. messages'[i] = messages[i] /\ updates[i] = Made(messages[i])
      BY <1>4, <2>2, <3>1
    <3> QED
      BY <2>1, <3>2
  <2> QED
    BY <2>3
<1>8. CASE ForwardUp /\ updates' # updates
  <2> DEFINE message == messages[Len(updates) + 1]
             update == Made(message)
  <2>1. messages' = messages /\ updates' = Append(updates, update)
    BY <1>8 DEF ForwardUp, received, Made, UpdateOf
  <2> HIDE DEF update, message
  <2>2. /\ Len(updates') = Len(updates) + 1 /\ updates'[Len(updates) + 1] = update
        /\ \A i \in 1..Len(updates) : updates'[i] = updates[i]
    BY <1>1, <2>1, AppendProperties
  <2>3. ASSUME NEW i \in 1..Len(updates')
        PROVE  updates'[i] = Made(messages'[i])
    <3>1. CASE i \in 1..Len(updates)
      BY <1>4, <2>1, <2>2, <3>1
    <3>2. CASE i = Len(updates) + 1
      BY <2>1, <2>2, <3>2 DEF message, update
    <3> QED
      BY <1>2, <2>2, <3>1, <3>2
  <2> QED
    BY <2>3
<1>9. CASE ForwardUp /\ updates' = updates
  BY <1>6, <1>9 DEF ForwardUp, received
<1>10. CASE Server \/ ThreadRecv \/ ThreadHangup \/ ThreadRecvFails \/ UNCHANGED vars
  BY <1>6, <1>10 DEF Server, Close, Send, Break, ThreadRecv, ThreadHangup,
     ThreadRecvFails, vars, received
<1>11. CASE SendResponse \/ \E i \in 1..(DataSize + 1), value \in Values :
              SetValue(i, value)
  BY <1>6, <1>11 DEF SendResponse, SetValue, received
<1> QED
  BY <1>7, <1>8, <1>9, <1>10, <1>11 DEF Next, Thread, Main

\* The parts of a message are the values of its packet.
LEMMA UpdatesAreSent ==
  ASSUME Correct, UpdatesAreParts, WellChosen, NEW i \in DOMAIN updates
  PROVE  updates[i] = UpdateOf(packets[i])
<1>1. /\ updates \in Seq([stamp : Int, values : Seq(Texts)])
      /\ messages \in Seq(Texts) /\ Len(updates) <= Len(messages)
      /\ field \in Texts
  BY DEF Correct, Typed, TypeOK
<1>2. i \in 1..Len(updates) /\ i \in 1..Len(messages)
  <2>1. \A S, q : q \in Seq(S) => Len(q) \in Nat /\ DOMAIN q = 1..Len(q)
    BY LenProperties
  <2>2. /\ DOMAIN updates = 1..Len(updates) /\ Len(updates) \in Nat
        /\ Len(messages) \in Nat
    BY <1>1, <2>1
  <2> QED
    BY <1>1, <2>2
<1>3. messages[i] = Join(packets[i], field) /\ packets[i] \in Documented
  BY <1>2, SentMessages
<1>4. packets[i] \in Seq(Texts) /\ packets[i] # <<>>
  BY <1>3, PacketsAssumption DEF Documented
<1>5. \A k \in 1..Len(packets[i]) : ~Contains(packets[i][k], field)
  BY <1>3, DocumentedClean DEF Correct
<1>6. Parts(messages[i]) = packets[i]
  <2> DEFINE packet == packets[i]
  <2>1. /\ packet \in Seq(Seq(STRING)) /\ packet # <<>> /\ field \in Seq(STRING)
        /\ \A k \in 1..Len(packet) : ~Contains(packet[k], field)
    BY <1>1, <1>4, <1>5 DEF Texts
  <2> HIDE DEF packet
  <2>2. Split(Join(packet, field), field) = packet
    BY <2>1, WellChosenIs, SplitJoin
  <2> QED
    BY <1>3, <2>2 DEF Parts, packet
<1> QED
  BY <1>2, <1>6 DEF UpdatesAreParts

LEMMA UpdatesAlways == Spec => [](Correct /\ UpdatesAreParts)
<1>1. Init => UpdatesAreParts
  BY DEF Init, UpdatesAreParts
<1>2. Correct /\ UpdatesAreParts /\ [Next]_vars => UpdatesAreParts'
  BY UpdatesStep DEF Correct
<1> QED
  BY <1>1, <1>2, CorrectAlways, PTL DEF Spec

\* A callback gets the values that the server sent, for all delimiters that can be
\* told apart and all documented packets.
THEOREM ForwardsWhatWasSent == Spec => []ValuesAsSent
<1>1. Correct /\ UpdatesAreParts => ValuesAsSent
  BY UpdatesAreSent DEF ValuesAsSent, UpdateOf
<1> QED
  BY <1>1, UpdatesAlways, PTL

\* A header of two integers, written as std::to_string writes them, is read as the time
\* that it stands for, and terminates the simulation just when its seconds are
\* negative, for all delimiters that can be told apart and any ranges of the integers
\* (README.md:49-54, gateway.cc:317-336).
THEOREM StampsAsSent == Spec => []StampAsSent
<1>1. ASSUME Correct, UpdatesAreParts, WellChosen, NEW i \in DOMAIN updates,
             NEW seconds \in -1..MaxInt, NEW nanoseconds \in 0..(Second - 1),
             packets[i][1] = Decimal(seconds), packets[i][2] = Decimal(nanoseconds)
      PROVE  /\ updates[i].stamp = seconds * Second + nanoseconds
             /\ updates[i].stamp < 0 <=> seconds < 0
  <2>1. MaxInt \in Nat /\ Second \in Nat \ {0}
    BY NumbersAssumption
  <2>2. seconds \in Int /\ nanoseconds \in Int
    BY <2>1
  <2>3. updates[i] = UpdateOf(packets[i])
    BY <1>1, UpdatesAreSent
  <2>4. updates[i].stamp = Stamp(packets[i])
    BY <2>3 DEF UpdateOf
  <2>5. Stamp(packets[i]) = seconds * Second + nanoseconds
    BY <1>1, <2>2, DecimalRead DEF Stamp
  <2>6. CASE seconds = -1
    BY <2>1, <2>4, <2>5, <2>6
  <2>7. CASE seconds >= 0
    <3>1. seconds * Second \in Nat
      BY <2>1, <2>2, <2>7
    <3> QED
      BY <2>1, <2>2, <2>4, <2>5, <2>7, <3>1
  <2> QED
    BY <2>1, <2>6, <2>7
<1>2. Correct /\ UpdatesAreParts => StampAsSent
  BY <1>1 DEF StampAsSent
<1> QED
  BY <1>2, UpdatesAlways, PTL

-----------------------------------------------------------------------------
(* The responses are what was set.                                         *)

\* Values that contain no delimiter.
Clean(values) ==
  \A i \in 1..DataSize : ~Contains(values[i], field) /\ ~Contains(values[i], delimiter)

ResponsesAreData ==
  /\ Clean(data)
  /\ \A i \in 1..Len(responses) :
       /\ Clean(responses[i].values)
       /\ responses[i].text = Join(responses[i].values, field) \o delimiter

LEMMA ResponsesInit == Init => ResponsesAreData
<1> SUFFICES ASSUME Init PROVE ResponsesAreData
  OBVIOUS
<1>1. \A pattern : ~Contains(<<>>, pattern)
  BY DEF Contains, Occurrences
<1>2. Clean(data)
  BY <1>1 DEF Init, Clean
<1> QED
  BY <1>2 DEF Init, ResponsesAreData

LEMMA ResponsesStep == Typed /\ ResponsesAreData /\ [Next]_vars => ResponsesAreData'
<1> SUFFICES ASSUME Typed, ResponsesAreData, [Next]_vars PROVE ResponsesAreData'
  OBVIOUS
<1>1. field' = field /\ delimiter' = delimiter
  BY DelimitersStay
<1>2. \A v : Clean(v)' = Clean(v)
  BY <1>1 DEF Clean
<1>3. CASE UNCHANGED <<data, responses>>
  BY <1>1, <1>2, <1>3 DEF ResponsesAreData, Clean
<1>4. CASE SendResponse
  <2> DEFINE response == [values |-> data, text |-> Response]
  <2>1. responses' = Append(responses, response) /\ data' = data
    BY <1>4 DEF SendResponse
  <2>2. response.values = data /\ response.text = Join(data, field) \o delimiter
    BY DEF Response
  <2> HIDE DEF response
  <2>3. /\ Len(responses') = Len(responses) + 1 /\ Len(responses) \in Nat
        /\ responses'[Len(responses) + 1] = response
        /\ \A i \in 1..Len(responses) : responses'[i] = responses[i]
    <3>1. responses \in Seq([values : [1..DataSize -> Texts], text : Texts])
      BY DEF Typed, TypeOK
    <3>2. \A S, q : q \in Seq(S) => Len(q) \in Nat
      BY LenProperties
    <3>3. Len(responses) \in Nat
      BY <3>1, <3>2
    <3> QED
      BY <2>1, <3>1, <3>3, AppendProperties
  <2>4. ASSUME NEW i \in 1..Len(responses')
        PROVE  /\ Clean(responses'[i].values)
               /\ responses'[i].text = Join(responses'[i].values, field) \o delimiter
    <3>1. CASE i \in 1..Len(responses)
      BY <2>3, <3>1 DEF ResponsesAreData
    <3>2. CASE i = Len(responses) + 1
      BY <2>2, <2>3, <3>2 DEF ResponsesAreData
    <3> QED
      BY <2>3, <3>1, <3>2
  <2> QED
    BY <1>1, <2>1, <2>4 DEF ResponsesAreData, Clean
<1>5. ASSUME NEW i \in 1..(DataSize + 1), NEW value \in Values, SetValue(i, value)
      PROVE  ResponsesAreData'
  <2>1. responses' = responses
    BY <1>5 DEF SetValue
  <2>2. CASE SetFault(i, value) # "none"
    BY <1>3, <1>5, <2>2 DEF SetValue
  <2>3. CASE SetFault(i, value) = "none"
    <3>1. /\ data' = [data EXCEPT ![i] = value]
          /\ ~Contains(value, field) /\ ~Contains(value, delimiter)
      BY <1>5, <2>3 DEF SetValue, SetFault
    <3>2. data \in [1..DataSize -> Texts]
      BY DEF Typed, TypeOK
    <3>3. \A k \in 1..DataSize : data'[k] = value \/ data'[k] = data[k]
      BY <3>1, <3>2
    <3>4. \A k \in 1..DataSize :
            ~Contains(data'[k], field) /\ ~Contains(data'[k], delimiter)
      BY <3>1, <3>3 DEF ResponsesAreData, Clean
    <3> QED
      BY <1>1, <2>1, <3>4 DEF ResponsesAreData, Clean
  <2> QED
    BY <2>2, <2>3
<1>6. CASE Server \/ Thread \/ ThreadRecvFails \/ ForwardUp \/ UNCHANGED vars
  BY <1>3, <1>6 DEF Server, Close, Send, Break, Thread, ThreadRecv, ThreadPush,
     ThreadHangup, ThreadRecvFails, ForwardUp, vars, user
<1> QED
  BY <1>4, <1>5, <1>6 DEF Next, Main

\* A response of values without delimiters is read as it was made.
LEMMA ResponseReads ==
  ASSUME WellChosen, field \in Texts, delimiter \in Texts, DataSize # 0,
         NEW values \in [1..DataSize -> Texts], Clean(values),
         NEW text, text = Cat(Join(values, field), delimiter)
  PROVE  /\ From(text, Find(delimiter, text)) = delimiter
         /\ Split(Between(text, 1, Find(delimiter, text)), field) = values
<1> DEFINE J == Join(values, field)
<1>1. values \in Seq(Texts) /\ Len(values) = DataSize /\ DataSize \in Nat
  BY DataIsSeq, NumbersAssumption
<1>2. \A i \in 1..Len(values) :
        ~Contains(values[i], field) /\ ~Contains(values[i], delimiter)
  BY <1>1 DEF Clean
<1>3. J \in Texts /\ ~Contains(J, delimiter)
  <2>1. values \in Seq(Seq(STRING)) /\ field \in Seq(STRING) /\ delimiter \in Seq(STRING)
    BY <1>1 DEF Texts
  <2>2. Apart(field, delimiter)
    BY WellChosenIs
  <2>3. ~Contains(Join(values, field), delimiter)
    BY <1>2, <2>1, <2>2, JoinClean
  <2> QED
    BY <2>1, <2>3, JoinType DEF Texts
<1>4. Split(J, field) = values
  <2>1. values \in Seq(Seq(STRING)) /\ field \in Seq(STRING) /\ values # <<>>
    BY <1>1, EmptySeq DEF Texts
  <2>2. field # <<>> /\ \A k \in 2..Len(field) : field[k] # field[1]
    BY WellChosenIs
  <2> QED
    BY <1>2, <2>1, <2>2, SplitJoin
<1> HIDE DEF J
<1>5. text = Cat(J, delimiter) /\ text \in Texts
  BY <1>3, CatType DEF J, Texts
<1>6. /\ Len(J) \in Nat /\ Len(delimiter) \in Nat \ {0} /\ delimiter # <<>>
      /\ Len(text) = Len(J) + Len(delimiter)
      /\ \A i \in 1..Len(J) : text[i] = J[i]
      /\ \A i \in 1..Len(delimiter) : text[Len(J) + i] = delimiter[i]
  <2>1. /\ Len(J) \in Nat /\ Len(delimiter) \in Nat \ {0} /\ delimiter # <<>>
    BY <1>3, WellChosenIs, LenProperties, EmptySeq DEF Texts
  <2>2. /\ Len(J \o delimiter) = Len(J) + Len(delimiter)
        /\ \A i \in 1..(Len(J) + Len(delimiter)) :
             (J \o delimiter)[i] = IF i <= Len(J) THEN J[i] ELSE delimiter[i - Len(J)]
    BY <1>3, ConcatProperties DEF Texts
  <2> QED
    BY <1>5, <2>1, <2>2 DEF Cat
<1>7. Find(delimiter, text) = Len(J) + 1
  <2>1. Agrees(text, Cat(J, delimiter))
    BY <1>5 DEF Agrees
  <2>2. \A k \in 2..Len(delimiter) : delimiter[k] # delimiter[1]
    BY WellChosenIs
  <2>3. Find(delimiter, text) = IF Len(text) >= Len(J) + Len(delimiter)
                                THEN Len(J) + 1 ELSE NoPosition
    BY <1>3, <1>5, <1>6, <2>1, <2>2, FirstDelimiter DEF Texts
  <2> QED
    BY <1>6, <2>3
<1>8. SubSeq(text, 1, Len(J)) = J
  <2>1. 1 \in 1..Len(text) + 1 /\ Len(J) \in 0..Len(text)
    BY <1>6
  <2> DEFINE n == Len(J)
  <2>2. /\ SubSeq(text, 1, n) \in Texts
        /\ Len(SubSeq(text, 1, n)) = IF 1 <= n THEN n - 1 + 1 ELSE 0
        /\ \A i \in 1..n - 1 + 1 : SubSeq(text, 1, n)[i] = text[1 + i - 1]
    BY <1>5, <2>1, SubText
  <2>3. Len(SubSeq(text, 1, n)) = n /\ \A i \in 1..n : SubSeq(text, 1, n)[i] = J[i]
    BY <1>6, <2>2
  <2> QED
    BY <1>3, <2>2, <2>3, SeqEqual DEF Texts
<1>9. SubSeq(text, Len(J) + 1, Len(text)) = delimiter
  <2>1. Len(J) + 1 \in 1..Len(text) + 1 /\ Len(text) \in 0..Len(text)
    BY <1>6
  <2> DEFINE m == Len(J) + 1
             n == Len(text)
  <2>2. /\ SubSeq(text, m, n) \in Texts
        /\ Len(SubSeq(text, m, n)) = IF m <= n THEN n - m + 1 ELSE 0
        /\ \A i \in 1..n - m + 1 : SubSeq(text, m, n)[i] = text[m + i - 1]
    BY <1>5, <2>1, SubText
  <2>3. n - m + 1 = Len(delimiter) /\ m <= n
    BY <1>6
  <2>4. \A i \in 1..Len(delimiter) : m + i - 1 = Len(J) + i
    BY <1>6
  <2>5. \A i \in 1..Len(delimiter) : SubSeq(text, m, n)[i] = delimiter[i]
    BY <1>6, <2>2, <2>3, <2>4
  <2>6. Len(SubSeq(text, m, n)) = Len(delimiter)
    BY <2>2, <2>3
  <2> DEFINE last == SubSeq(text, m, n)
  <2>7. /\ last \in Seq(STRING) /\ delimiter \in Seq(STRING)
        /\ Len(last) = Len(delimiter) /\ \A i \in 1..Len(last) : last[i] = delimiter[i]
    BY <2>2, <2>5, <2>6 DEF Texts
  <2> HIDE DEF last
  <2>8. last = delimiter
    BY <2>7, SeqEqual
  <2> QED
    BY <2>8, Zenon DEF last
<1>10. From(text, Find(delimiter, text)) = delimiter
  BY <1>7, <1>9, Zenon DEF From
<1>11. Between(text, 1, Find(delimiter, text)) = J
  <2>1. (Len(J) + 1) - 1 = Len(J)
    BY <1>6
  <2> QED
    BY <1>7, <1>8, <2>1, Zenon DEF Between
<1> QED
  BY <1>4, <1>10, <1>11, Zenon

\* The server reads in a response what was set, for all delimiters that can be told
\* apart and all values given to SetValue.
THEOREM RespondsWhatWasSet == DataSize # 0 => (Spec => []ResponsesAsSet)
<1> SUFFICES ASSUME DataSize # 0 PROVE Spec => []ResponsesAsSet
  OBVIOUS
<1>1. Typed /\ ResponsesAreData => ResponsesAsSet
  <2> SUFFICES ASSUME Typed, ResponsesAreData, WellChosen, NEW i \in DOMAIN responses
               PROVE  LET response == responses[i]
                          end == Find(delimiter, response.text)
                      IN /\ From(response.text, end) = delimiter
                         /\ Split(Between(response.text, 1, end), field) = response.values
    BY DEF ResponsesAsSet
  <2> DEFINE response == responses[i]
             S == [values : [1..DataSize -> Texts], text : Texts]
  <2>1. field \in Texts /\ delimiter \in Texts /\ responses \in Seq(S)
    BY DEF Typed, TypeOK
  <2>2. response \in S /\ i \in 1..Len(responses)
    <3> HIDE DEF S
    <3>1. \A q : q \in Seq(S) => DOMAIN q = 1..Len(q) /\ \A k \in 1..Len(q) : q[k] \in S
      BY LenProperties, ElementOfSeq
    <3> QED
      BY <2>1, <3>1
  <2>3. /\ response.values \in [1..DataSize -> Texts] /\ Clean(response.values)
        /\ response.text = Cat(Join(response.values, field), delimiter)
    BY <2>2 DEF ResponsesAreData, Cat
  <2> DEFINE v == response.values
             t == response.text
  <2> HIDE DEF v, t
  <2>4. /\ v \in [1..DataSize -> Texts] /\ Clean(v)
        /\ t = Cat(Join(v, field), delimiter)
    BY <2>3 DEF v, t
  <2>5. /\ From(t, Find(delimiter, t)) = delimiter
        /\ Split(Between(t, 1, Find(delimiter, t)), field) = v
    BY <2>1, <2>4, ResponseReads
  <2> QED
    BY <2>5 DEF v, t
<1> QED
  BY <1>1, TypedInit, TypedStep, ResponsesInit, ResponsesStep, PTL DEF Spec
=============================================================================
