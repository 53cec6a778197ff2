----------------------------- MODULE TimingInput ----------------------------
(***************************************************************************)
(* The way of a timing message from the device to the codec: the two       *)
(* transports (transport/SerialPortAsyncReader.cpp, transport/FileIO.cpp), *)
(* and the two codecs (codec/FarmtekCodec.cpp,                             *)
(* codec/RaceAmericaTlinkCodec.cpp) that cut what arrives into lines.      *)
(*                                                                         *)
(* The device sends its messages byte by byte.  A byte is the pair         *)
(* <<m, i>>, byte i of message m; the byte after the last one of a message *)
(* is its carriage return.  Qt hands over what has arrived in chunks of    *)
(* any length.  Bytes get lost while the port is closed or unplugged, when *)
(* the port is closed on an error, and on the line.                        *)
(*                                                                         *)
(* An accepted line is only logged: rMsgs stays empty and                  *)
(* TimingStateMachine::handleMessagesRead only logs too, so that the model *)
(* ends at the accepted lines.  The data log gets the bytes the codec gets *)
(* and is left out.                                                        *)
(***************************************************************************)
EXTENDS Naturals, Sequences, FiniteSets, SequencesExt

CONSTANTS
  Messages,          \* what the device sends, in order: size and type of each
  EXPECTED_SIZE,     \* MSG_EXPECTED_SIZE, FARMTEK_MSG_EXPECTED_SIZE
  MaxNoise,          \* bounds: bytes lost on the line,
  MaxFaults,         \*   times the port breaks or is unplugged,
  MaxOpenFailures    \*   times a port that is there cannot be opened

ASSUME TimingAssumption ==
  /\ Messages \in Seq([size : Nat \ {0}, type : {"time", "Z"}])
  /\ EXPECTED_SIZE \in Nat \ {0}
  /\ {MaxNoise, MaxFaults, MaxOpenFailures} \subseteq Nat

VARIABLES
  codec,           \* the class of the codec
  transport,       \* "serial", or "file": a recording is read instead
  mFileMode,       \* the OpenMode flags of the file, from the configuration
  started,         \* main has called open()
  present,         \* the serial port is plugged in
  mpSerialPort,    \* closed, open, or broken: open, with an error still to be met
  mpTimer,         \* the reconnect timer is active
  sent,            \* the number of bytes the device has sent
  rx,              \* the bytes that wait in the port
  delivered,       \* the bytes given to the codec so far (history)
  mDataBuffer,     \* the codec's bytes of a line without its end
  accepted,        \* the lines the codec has accepted (history)
  noise, faults, openFailures

counters == <<noise, faults, openFailures>>
line == <<delivered, mDataBuffer, accepted>>
config == <<codec, transport, mFileMode>>
vars == <<config, started, present, mpSerialPort, mpTimer, sent, rx, line, counters>>
-----------------------------------------------------------------------------
(* The device.                                                             *)
Bytes(m) == [i \in 1..Messages[m].size |-> <<m, i>>]

CR(b) == b[2] = Messages[b[1]].size + 1

AllBytes ==
  UNION {{<<m, i>> : i \in 1..(Messages[m].size + 1)} : m \in DOMAIN Messages}

SentBefore(b, c) == b[1] < c[1] \/ (b[1] = c[1] /\ b[2] < c[2])

Position(b) == Cardinality({c \in AllBytes : ~SentBefore(b, c)})

(* All bytes, in the order they are sent.                                  *)
Stream == [n \in 1..Cardinality(AllBytes) |-> CHOOSE b \in AllBytes : Position(b) = n]

(* The numbers of I in ascending order.                                    *)
Rank(I, i) == Cardinality({j \in I : j <= i})

InOrder(I) == [k \in 1..Cardinality(I) |-> CHOOSE i \in I : Rank(I, i) = k]

(* The codecs.  QByteArray::split('\r') cuts the bytes behind each carriage *)
(* return; Line is the piece that ends at the one at place e, LastPiece    *)
(* the last one, which takeLast puts back into the buffer.                 *)
Ends(bytes) == {j \in DOMAIN bytes : CR(bytes[j])}

Line(bytes, e) ==
  SubSeq(bytes, Max({0} \cup {d \in Ends(bytes) : d < e}) + 1, e - 1)

LastPiece(bytes) == SubSeq(bytes, Max({0} \cup Ends(bytes)) + 1, Len(bytes))

(* Fault: a line may be longer, and the type is not looked at.            *)
FaultAnySize(c, bytes) == Len(bytes) >= EXPECTED_SIZE

(* A line of any other size is dropped, and the Race America codec drops   *)
(* the internal ones.  The first byte tells the type; a line that lost it  *)
(* starts with a digit, which no codec refuses.                            *)
Accepts(c, bytes) ==
  /\ Len(bytes) = EXPECTED_SIZE
  /\ c = "RaceAmericaTlink" => ~(Messages[bytes[1][1]].type = "Z" /\ bytes[1][2] = 1)

(* The lines among the bytes that codec c accepts.                         *)
Lines(c, bytes) ==
  LET kept == {e \in Ends(bytes) : Accepts(c, Line(bytes, e))}
  IN  [k \in 1..Cardinality(kept) |-> Line(bytes, InOrder(kept)[k])]

(* Faults: only the new data is split and the bytes held back are lost;    *)
(* the lines stay in the buffer.                                           *)
FaultOnlyNewData(buffer, data) == <<data, LastPiece(data)>>
FaultKeepsLines(buffer, data) ==
  IF Ends(data) = {} THEN <<<<>>, buffer \o data>>
                     ELSE <<buffer \o data, buffer \o data>>

(* What is split when a chunk comes, and what stays in the buffer: only a  *)
(* chunk with a carriage return makes the codec look at the buffer.        *)
Cut(buffer, data) ==
  IF Ends(data) = {} THEN <<<<>>, buffer \o data>>
                     ELSE <<buffer \o data, LastPiece(buffer \o data)>>

decodeData(data) ==
  /\ delivered' = delivered \o data
  /\ mDataBuffer' = Cut(mDataBuffer, data)[2]
  /\ accepted' = accepted \o Lines(codec, Cut(mDataBuffer, data)[1])
-----------------------------------------------------------------------------
(* The transports.  Reading and writing modes all read; of the other flags *)
(* the model keeps those that change what is read.                         *)
FileModes == SUBSET {"append", "truncate", "text", "new_only"}

Init ==
  /\ codec \in {"Farmtek", "RaceAmericaTlink"}
  /\ \/ transport = "serial" /\ mFileMode = {}
     \/ transport = "file" /\ mFileMode \in FileModes
  /\ started = FALSE
  /\ present \in BOOLEAN
  /\ mpSerialPort = "closed"
  /\ mpTimer = FALSE
  /\ sent = 0
  /\ rx = <<>>
  /\ delivered = <<>> /\ mDataBuffer = <<>> /\ accepted = <<>>
  /\ noise = 0 /\ faults = 0 /\ openFailures = 0

(* Fault: the error is cleared and the port left as it is.                 *)
FaultResetKeepsPort == UNCHANGED <<mpSerialPort, rx>>

(* resetError: the port is closed, and what it held is gone.               *)
resetError ==
  /\ mpSerialPort' = "closed"
  /\ rx' = <<>>

(* open() finds the port, opens it and starts the timer: the timer stays   *)
(* off as long as none of its calls succeeds.                              *)
OpenSucceeds ==
  /\ \/ mpSerialPort # "closed" /\ UNCHANGED mpSerialPort
     \/ mpSerialPort = "closed" /\ present /\ mpSerialPort' = "open"
  /\ mpTimer' = TRUE
  /\ UNCHANGED openFailures

OpenFails ==
  /\ mpSerialPort = "closed"
  /\ \/ ~present /\ UNCHANGED openFailures
     \/ /\ present
        /\ openFailures < MaxOpenFailures
        /\ openFailures' = openFailures + 1
  /\ UNCHANGED <<mpSerialPort, mpTimer>>

open ==
  /\ OpenSucceeds \/ OpenFails
  /\ UNCHANGED <<config, present, sent, rx, line, noise, faults>>

(* main starts the flow of data, without a look at the result.             *)
StartSerial ==
  /\ ~started
  /\ transport = "serial"
  /\ started' = TRUE
  /\ open

handleTimeout ==
  /\ mpTimer
  /\ open
  /\ UNCHANGED started

handleReadyRead ==
  /\ mpSerialPort # "closed"
  /\ rx # <<>>
  /\ decodeData(rx)
  /\ rx' = <<>>
  /\ UNCHANGED <<config, started, present, mpSerialPort, mpTimer, sent, counters>>

(* Qt meets the error, and the signal errorOccurred is handled at once, so *)
(* that no call of open finds an error set.                                *)
handleError ==
  /\ mpSerialPort = "broken"
  /\ resetError
  /\ UNCHANGED <<config, started, present, mpTimer, sent, line, counters>>

(* The file: readyRead is emitted when it opens, and all of it read.       *)
FileContents ==
  CASE {"append", "truncate"} \cap mFileMode # {} -> <<>>
    [] "text" \in mFileMode ->
         LET kept == {n \in DOMAIN Stream : ~CR(Stream[n])}
         IN  [k \in 1..Cardinality(kept) |-> Stream[InOrder(kept)[k]]]
    [] OTHER -> Stream

StartFile ==
  /\ ~started
  /\ transport = "file"
  /\ started' = TRUE
  /\ IF "new_only" \in mFileMode THEN UNCHANGED line ELSE decodeData(FileContents)
  /\ UNCHANGED <<config, present, mpSerialPort, mpTimer, sent, rx, counters>>

(* The device sends whether or not somebody listens.                       *)
Send ==
  /\ transport = "serial"
  /\ sent < Len(Stream)
  /\ sent' = sent + 1
  /\ IF mpSerialPort = "open"
     THEN \/ rx' = Append(rx, Stream[sent + 1]) /\ UNCHANGED noise
          \/ noise < MaxNoise /\ noise' = noise + 1 /\ UNCHANGED rx
     ELSE UNCHANGED <<rx, noise>>
  /\ UNCHANGED <<config, started, present, mpSerialPort, mpTimer, line,
                 faults, openFailures>>

Break ==
  /\ mpSerialPort = "open"
  /\ faults < MaxFaults
  /\ faults' = faults + 1
  /\ mpSerialPort' = "broken"
  /\ present' \in BOOLEAN
  /\ UNCHANGED <<config, started, mpTimer, sent, rx, line, noise, openFailures>>

PlugIn ==
  /\ transport = "serial"
  /\ ~present
  /\ present' = TRUE
  /\ UNCHANGED <<config, started, mpSerialPort, mpTimer, sent, rx, line, counters>>

Next ==
  \/ StartSerial \/ StartFile
  \/ handleTimeout \/ handleReadyRead \/ handleError
  \/ Send \/ Break \/ PlugIn

(* The event loop runs main's start, the timer and the handler of errors   *)
(* (readyRead too, but no property needs it); neither the device nor the   *)
(* person at the plug owes anything.                                       *)
Spec ==
  /\ Init /\ [][Next]_vars
  /\ WF_vars(StartSerial) /\ WF_vars(handleTimeout) /\ WF_vars(handleError)
-----------------------------------------------------------------------------
(* Types; what waits in the buffer is one unfinished line, and what was    *)
(* accepted are lines of the one size without an end in them.              *)
TypeOK ==
  /\ codec \in {"Farmtek", "RaceAmericaTlink"}
  /\ transport \in {"serial", "file"} /\ mFileMode \in FileModes
  /\ {started, present, mpTimer} \subseteq BOOLEAN
  /\ mpSerialPort \in {"closed", "open", "broken"}
  /\ sent \in 0..Len(Stream)
  /\ {rx, delivered, mDataBuffer} \subseteq Seq(AllBytes)
  /\ mpSerialPort = "closed" => rx = <<>>
  /\ Ends(mDataBuffer) = {}
  /\ \A k \in DOMAIN accepted : Len(accepted[k]) = EXPECTED_SIZE /\ Ends(accepted[k]) = {}
  /\ noise \in 0..MaxNoise /\ faults \in 0..MaxFaults /\ openFailures \in 0..MaxOpenFailures

(* The lines of all bytes that came, wherever Qt cut them: bytes from..to  *)
(* are one when a carriage return follows, and precedes unless they are    *)
(* the first, and none is among them.                                      *)
IsLine(from, to) ==
  /\ from = 1 \/ CR(delivered[from - 1])
  /\ \A j \in from..to : ~CR(delivered[j])
  /\ CR(delivered[to + 1])

(* The chunks in which Qt hands over the bytes do not matter: the codec    *)
(* has accepted exactly the lines of the right size in all that came, each *)
(* once and in order, and holds back exactly what follows the last         *)
(* carriage return (decodeData's search in the new data only, takeLast).   *)
CutsDoNotMatter ==
  LET first == {j \in 1..(Len(delivered) - EXPECTED_SIZE) :
                  /\ IsLine(j, j + EXPECTED_SIZE - 1)
                  /\ Accepts(codec, SubSeq(delivered, j, j + EXPECTED_SIZE - 1))}
      starts == InOrder(first)
  IN  /\ accepted = [k \in DOMAIN starts |->
                       SubSeq(delivered, starts[k], starts[k] + EXPECTED_SIZE - 1)]
      /\ mDataBuffer = LastPiece(delivered)

Wanted(m) ==
  /\ Messages[m].size = EXPECTED_SIZE
  /\ codec = "Farmtek" \/ Messages[m].type # "Z"

Arrived(b) == \E j \in DOMAIN delivered : delivered[j] = b

(* A loss costs no more than the message it hits and the next: a message   *)
(* that arrived whole, and whose predecessor's carriage return arrived, is *)
(* accepted exactly once, though the codec's buffer is kept when the port  *)
(* is closed and opened again.                                             *)
IntactMessagesAreRead ==
  \A m \in DOMAIN Messages :
    /\ Wanted(m)
    /\ \A i \in 1..(Messages[m].size + 1) : Arrived(<<m, i>>)
    /\ m > 1 => Arrived(<<m - 1, Messages[m - 1].size + 1>>)
    => Cardinality({k \in DOMAIN accepted : accepted[k] = Bytes(m)}) = 1

(* A line that is accepted and that the device never sent as a message (a  *)
(* wrong time) spans a loss: of the bytes sent after what came before the  *)
(* line and up to the carriage return that ends it, one did not arrive.    *)
(* Without a loss every accepted line is a message.                        *)
WrongLinesSpanALoss ==
  \A k \in DOMAIN accepted :
    \/ \E m \in DOMAIN Messages : Wanted(m) /\ accepted[k] = Bytes(m)
    \/ \E j \in DOMAIN delivered, b \in AllBytes :
         /\ delivered[j] = accepted[k][1]
         /\ ~Arrived(b)
         /\ j > 1 => SentBefore(delivered[j - 1], b)
         /\ SentBefore(b, delivered[j + EXPECTED_SIZE])

(* What a loss can do, on the line or through the port.                    *)
LossesStayLocal == IntactMessagesAreRead /\ WrongLinesSpanALoss

(* A port that is plugged in for good and was open once is opened again,   *)
(* whatever broke it (the reconnect timer; handleError's close, without    *)
(* which the next open would take the dead port for an open one).          *)
Reconnects ==
  <>[]present /\ <>mpTimer => <>[](mpSerialPort = "open")
=============================================================================
