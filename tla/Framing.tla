------------------------------- MODULE Framing -------------------------------
(***************************************************************************)
(* The text that the gateway of model/gateway.cc receives and sends: how   *)
(* RunThread finds the messages in the pieces that recv returns, how       *)
(* ForwardUp takes a message apart, and how SendResponse puts one together. *)
(*                                                                         *)
(* Module Gateway says what happens with a message and when; here a        *)
(* callback sets some values and responds.                                 *)
(***************************************************************************)
EXTENDS Text

CONSTANTS
  DelimiterPairs,  \* the pairs <<delimiterField, delimiterMessage>> to try
  Packets,         \* what the server may send: sequences of values
  Values,          \* what the callbacks give to SetValue
  DataSize,        \* dataSize of the constructor
  BufferSize,      \* BUFFER_SIZE of recv
  Second,          \* nanoseconds in a second
  MaxInt,          \* bound: the largest int
  MaxLong,         \* bound: the largest long
  MaxPackets,      \* bound: the packets the server sends
  MaxSets          \* bound: the calls of SetValue

Texts == Seq(STRING)

ASSUME DelimitersAssumption == DelimiterPairs \subseteq Texts \X Texts
ASSUME PacketsAssumption == Packets \subseteq Seq(Texts) \ {<<>>}
ASSUME ValuesAssumption == Values \subseteq Texts
ASSUME NumbersAssumption ==
  /\ {DataSize, MaxPackets, MaxSets} \subseteq Nat
  /\ {BufferSize, Second, MaxInt, MaxLong} \subseteq Nat \ {0}

VARIABLES
  field,     \* m_delimiterField
  delimiter, \* m_delimiterMessage
  fault,     \* the NS_FATAL_ERROR that ended the process, or "none"
  \* the server and the connection
  packets,   \* the packets sent so far
  written,   \* their text
  closed,    \* whether the server has closed the connection
  \* the thread that runs RunThread
  got,       \* how many characters recv has returned
  buffer,    \* m_messageBuffer, and the receivedData taken from it
  thread,    \* "runs", "hungup" or "failed"
  messages,  \* the messages it has put into m_messageQueue
  \* the main thread
  updates,   \* the messages ForwardUp has processed: stamp and values
  main,      \* "events", "callback" or "stopped"
  data,      \* m_data
  sets,      \* the number of calls of SetValue
  responses  \* the responses: the values they were made of and their text

connection == <<packets, written, closed>>
received   == <<got, buffer, thread, messages>>
user       == <<data, sets, responses>>

vars == <<field, delimiter, fault, connection, received, updates, main, user>>

Faults ==
  {"none", "empty field delimiter", "empty message delimiter",
   "message delimiter in field delimiter", "invalid header", "no such element",
   "value contains a delimiter"}

-----------------------------------------------------------------------------
(* The constructor.                                                        *)

\* The constructor's checks of the delimiters.
ConstructorFault(f, d) ==
  IF f = <<>> THEN "empty field delimiter"
  ELSE IF d = <<>> THEN "empty message delimiter"
  ELSE IF Contains(f, d) THEN "message delimiter in field delimiter"
  ELSE "none"

Init ==
  /\ \E pair \in DelimiterPairs : field = pair[1] /\ delimiter = pair[2]
  /\ fault = ConstructorFault(field, delimiter)
  /\ packets = <<>> /\ written = <<>> /\ closed = FALSE
  /\ got = 0 /\ buffer = <<>> /\ thread = "runs" /\ messages = <<>>
  /\ updates = <<>> /\ main = "events"
  /\ data = [i \in 1..DataSize |-> <<>>]
  /\ sets = 0 /\ responses = <<>>

-----------------------------------------------------------------------------
(* The server.                                                             *)

\* The packets of the documented format: no value contains a delimiter.
Legal(value) == ~Contains(value, field) /\ ~Contains(value, delimiter)
Documented == {packet \in Packets : \A i \in DOMAIN packet : Legal(packet[i])}

\* A packet as the server writes it.
TextOf(packet) == Join(packet, field) \o delimiter

Send(packet) ==
  /\ fault = "none" /\ ~closed
  /\ Len(packets) < MaxPackets
  /\ packets' = Append(packets, packet)
  /\ written' = written \o TextOf(packet)
  /\ UNCHANGED <<field, delimiter, fault, closed, received, updates, main, user>>

Close ==
  /\ fault = "none" /\ ~closed
  /\ closed' = TRUE
  /\ UNCHANGED <<field, delimiter, fault, packets, written, received, updates, main,
                 user>>

\* The server or the connection breaks in the middle of a packet.
Break(packet) ==
  /\ fault = "none" /\ ~closed
  /\ closed' = TRUE
  /\ \E k \in 1..(Len(TextOf(packet)) - 1) :
       written' = written \o SubSeq(TextOf(packet), 1, k)
  /\ UNCHANGED <<field, delimiter, fault, packets, received, updates, main, user>>

Server == Close \/ \E packet \in Documented : Send(packet) \/ Break(packet)

-----------------------------------------------------------------------------
(* RunThread.                                                              *)

\* MUTATION: the delimiter is looked for at the end of the data only.
FoundAtEnd ==
  LET last == Len(buffer) - Len(delimiter) + 1 IN
  IF last > 0 /\ OccursAt(delimiter, buffer, last) THEN last ELSE NoPosition

\* MUTATION: any character of the delimiter ends a message.
FoundAnyOf ==
  LET ends == {i \in DOMAIN buffer : \E k \in DOMAIN delimiter : buffer[i] = delimiter[k]}
  IN IF ends = {} THEN NoPosition ELSE CHOOSE i \in ends : \A j \in ends : i <= j

\* Where the first message in the buffer ends.
Found == Find(delimiter, buffer)

\* The thread goes on with its loop.
Runs == thread = "runs" /\ fault = "none"

\* recv returns the next characters, however many; they are added to the buffer.
ThreadRecv ==
  /\ Runs
  /\ Found = NoPosition
  /\ \E k \in 1..BufferSize :
       /\ got + k <= Len(written)
       /\ got' = got + k
       /\ buffer' = buffer \o SubSeq(written, got + 1, got + k)
  /\ UNCHANGED <<field, delimiter, fault, connection, thread, messages, updates,
                 main, user>>

\* MUTATION: the delimiter is taken to be one character long.
AfterOne(i) == From(buffer, i + 1)

\* What remains in the buffer after the message that ends at i.
Remainder(i) == From(buffer, i + Len(delimiter))

\* The message is put into the queue, without its delimiter.
ThreadPush ==
  /\ Runs
  /\ Found # NoPosition
  /\ messages' = Append(messages, Between(buffer, 1, Found))
  /\ buffer' = Remainder(Found)
  /\ UNCHANGED <<field, delimiter, fault, connection, got, thread, updates, main, user>>

\* recv returns 0: a partial message is dropped.
ThreadHangup ==
  /\ Runs
  /\ Found = NoPosition
  /\ closed /\ got = Len(written)
  /\ thread' = "hungup"
  /\ UNCHANGED <<field, delimiter, fault, connection, got, buffer, messages, updates,
                 main, user>>

\* recv returns -1.
ThreadRecvFails ==
  /\ Runs
  /\ Found = NoPosition
  /\ thread' = "failed"
  /\ UNCHANGED <<field, delimiter, fault, connection, got, buffer, messages, updates,
                 main, user>>

Thread == ThreadRecv \/ ThreadPush \/ ThreadHangup

-----------------------------------------------------------------------------
(* ForwardUp.                                                              *)

\* MUTATION: two delimiters in a row count as one.
NoEmptyParts(message) ==
  LET IsPart(part) == part # <<>> IN SelectSeq(Split(message, field), IsPart)

\* The values of the message.
Parts(message) == Split(message, field)

\* The first two values are the integers of the time stamp.
HeaderOK(parts) ==
  Len(parts) >= 2 /\ IsInteger(parts[1], MaxInt) /\ IsInteger(parts[2], MaxLong)

\* MUTATION: the seconds are read with the nanoseconds' field.
FieldsSwapped(parts) == ToInteger(parts[2]) * Second + ToInteger(parts[1])

\* Seconds(stoi) + NanoSeconds(stol).
Stamp(parts) == ToInteger(parts[1]) * Second + ToInteger(parts[2])

\* MUTATION: the request to terminate is overlooked.
NeverTerminates(stamp) == FALSE

\* "signal to terminate".
Terminates(stamp) == stamp < 0

\* ForwardUp up to the choice of the callback.
ForwardUp ==
  /\ main = "events" /\ fault = "none"
  /\ Len(updates) < Len(messages)
  /\ LET parts == Parts(messages[Len(updates) + 1]) IN
       IF HeaderOK(parts)
       THEN /\ updates' = Append(updates, [stamp  |-> Stamp(parts),
                                           values |-> SubSeq(parts, 3, Len(parts))])
            /\ main' = IF Terminates(Stamp(parts)) THEN "stopped" ELSE "callback"
            /\ UNCHANGED fault
       ELSE /\ fault' = "invalid header"
            /\ UNCHANGED <<updates, main>>
  /\ UNCHANGED <<field, delimiter, connection, received, user>>

-----------------------------------------------------------------------------
(* SetValue and SendResponse, as a callback calls them.                    *)

\* MUTATION: a value may contain the message delimiter.
FieldDelimiterOnly(i, value) ==
  IF i > DataSize THEN "no such element"
  ELSE IF Contains(value, field) THEN "value contains a delimiter"
  ELSE "none"

\* Why SetValue is fatal, if it is.
SetFault(i, value) ==
  IF i > DataSize THEN "no such element"
  ELSE IF Contains(value, field) \/ Contains(value, delimiter)
       THEN "value contains a delimiter"
  ELSE "none"

SetValue(i, value) ==
  /\ main = "callback" /\ fault = "none"
  /\ sets < MaxSets
  /\ sets' = sets + 1
  /\ fault' = SetFault(i, value)
  /\ data' = IF SetFault(i, value) = "none" THEN [data EXCEPT ![i] = value] ELSE data
  /\ UNCHANGED <<field, delimiter, connection, received, updates, main, responses>>

\* MUTATION: an element that was never set leaves no trace.
OnlyWhatIsSet ==
  LET IsSet(value) == value # <<>> IN Join(SelectSeq(data, IsSet), field) \o delimiter

\* The text of a response.
Response == Join(data, field) \o delimiter

SendResponse ==
  /\ main = "callback" /\ fault = "none"
  /\ responses' = Append(responses, [values |-> data, text |-> Response])
  /\ main' = "events"
  /\ UNCHANGED <<field, delimiter, fault, connection, received, updates, data, sets>>

Main ==
  \/ ForwardUp \/ SendResponse
  \/ \E i \in 1..(DataSize + 1), value \in Values : SetValue(i, value)

-----------------------------------------------------------------------------
Next == Server \/ Thread \/ ThreadRecvFails \/ Main

Spec == Init /\ [][Next]_vars

\* The operating system runs the thread.
FairSpec == Spec /\ WF_vars(Thread)

-----------------------------------------------------------------------------
(* Properties.                                                             *)

\* The types of the variables: the members of gateway.h:221-227 and what they are
\* compared with.  A callback has a message that does not terminate.
TypeOK ==
  /\ field \in Texts /\ delimiter \in Texts
  /\ fault \in Faults
  /\ packets \in Seq(Packets) /\ written \in Texts /\ closed \in BOOLEAN
  /\ got \in 0..Len(written)
  /\ buffer \in Texts
  /\ thread \in {"runs", "hungup", "failed"}
  /\ messages \in Seq(Texts)
  /\ updates \in Seq([stamp : Int, values : Seq(Texts)])
  /\ Len(updates) <= Len(messages)
  /\ main \in {"events", "callback", "stopped"}
  /\ main = "callback" => updates # <<>> /\ updates[Len(updates)].stamp >= 0
  /\ data \in [1..DataSize -> Texts]
  /\ sets \in 0..MaxSets
  /\ responses \in Seq([values : [1..DataSize -> Texts], text : Texts])

\* The thread neither drops nor doubles a character, whatever the delimiters and the
\* pieces: the messages, each with its delimiter, and the buffer are what recv has
\* returned, and a delimiter that has arrived ends a message, even one that
\* was cut in two (gateway.cc:221-267).
NothingDropped ==
  /\ (IF messages = <<>> THEN <<>> ELSE Join(messages, delimiter) \o delimiter)
       \o buffer = SubSeq(written, 1, got)
  /\ \A i \in DOMAIN messages : ~Contains(messages[i], delimiter)

\* Delimiters that can be told apart wherever they are written: the first character
\* of each stands nowhere else in them.
WellChosen ==
  /\ field # <<>> /\ delimiter # <<>>
  /\ field[1] # delimiter[1]
  /\ \A d \in {field, delimiter} : \A k \in 2..Len(d) :
       d[k] # field[1] /\ d[k] # delimiter[1]

\* The messages that the thread takes from the stream are those that the server sent,
\* in order and whole, for all pieces that recv returns and wherever the
\* connection breaks (gateway.h:55-58, gateway.cc:221-266).
MessagesAsSent ==
  WellChosen =>
    /\ Len(messages) <= Len(packets)
    /\ \A i \in DOMAIN messages : messages[i] = Join(packets[i], field)

\* A callback gets the values that the server sent, without the header and the
\* empty ones included (gateway.h:166-173, gateway.cc:307-330).
ValuesAsSent ==
  WellChosen =>
    \A i \in DOMAIN updates : updates[i].values = SubSeq(packets[i], 3, Len(packets[i]))

\* A header of two integers in the documented ranges is read as the time it stands
\* for, and terminates the simulation just when its seconds are negative
\* (README.md:49-54, gateway.cc:317-336).
StampAsSent ==
  WellChosen =>
    \A i \in DOMAIN updates :
      \A seconds \in -1..MaxInt, nanoseconds \in 0..(Second - 1) :
        packets[i][1] = Decimal(seconds) /\ packets[i][2] = Decimal(nanoseconds) =>
          /\ updates[i].stamp = seconds * Second + nanoseconds
          /\ updates[i].stamp < 0 <=> seconds < 0

\* A response that is read as the gateway reads messages has the values it was made
\* of, for whatever was given to SetValue (gateway.h:117-122, gateway.cc:129-162).
ResponsesAsSet ==
  WellChosen =>
    \A i \in DOMAIN responses :
      LET response == responses[i]
          end == Find(delimiter, response.text)
      IN /\ From(response.text, end) = delimiter
         /\ Split(Between(response.text, 1, end), field) = response.values

\* Every packet that was sent whole is put into the queue, although nothing may be
\* sent after it, unless recv fails or the process ends (gateway.cc:227, 262-270).
PacketsForwarded ==
  \A k \in 1..MaxPackets :
    WellChosen /\ Len(packets) >= k
      ~> Len(messages) >= k \/ thread = "failed" \/ fault # "none"
=============================================================================
