--------------------------- MODULE FlashToolProofs ---------------------------
(***************************************************************************)
(* Proofs about FlashTool for every number of regions and chunks and every *)
(* bound on what the operator does: the types, that workers never overlap, *)
(* that a reported success is a verified one, and that chunks are asked    *)
(* for.                                                                    *)
(***************************************************************************)
EXTENDS FlashTool, Integers, SequenceTheorems, TLAPS

-------------------------------------------------------------------------------

(* The inductive invariant, in parts.                                        *)

\* What the receiver has not read.
Has(byte) == \E j \in DOMAIN wire : wire[j] = byte
Once(byte) == \A j, k \in DOMAIN wire : wire[j] = byte /\ wire[k] = byte => j = k

WriteEnded == {<<"writeAborted">>, <<"writeDone">>}
Sending == {"ack", "chunk", "done"}
Between == {"next", "pause", "end"}
\* The board is at work on a file, or will be.
AtFile == board.phase \in {"wipe", "ask", "program", "verify"} \/ board.next = "wipe"

\* Where each worker can be, and how far it has got.
WorkerInv ==
  /\ worker.kind = "none" => worker = Idle
  /\ worker.kind = "open" => worker.pc \in {"start", "sbl", "handshake"}
  /\ worker.kind = "erase" => worker.pc \in {"start", "poll"}
  /\ worker.kind = "write" => worker.pc \in Sending \cup Between /\ worker.i >= 1
  /\ worker.pc \in Sending \cup {"pause"} => worker.i <= Targets
  /\ worker.pc \in {"ack", "chunk"} => worker.sent < worker.size

\* While the port is not open nothing comes from it.
PortInv ==
  /\ hComm # "open" => wire = <<>> /\ ~ackReceived /\ ~complete
  /\ hComm = "boot" => worker.kind = "open"
  /\ worker.kind = "open" => hComm # "open"
  /\ worker.kind = "erase" => hComm = "open"

\* Which controls are enabled while a worker runs, or has ended with its event not handled.
Stopping == "serial" \notin enabled /\ (hComm = "open" => enabled \subseteq {"write"})
WorkingInv ==
  /\ worker.kind # "none" => posted = <<>>
  /\ worker.kind = "open" => enabled = {"serial"} /\ dialog = "idle"
  /\ worker.kind = "erase" => enabled = {} /\ dialog = "idle"
  /\ m_writeInProgress <=> worker.kind = "write" \/ posted \in WriteEnded
  /\ m_writeInProgress => Stopping
PostedInv ==
  /\ posted \in {<<>>, <<"eraseEnd">>, <<"openFailed">>, <<"openDone">>, <<"openDone", "banner">>, <<"banner">>} \cup WriteEnded
  /\ posted = <<"eraseEnd">> => enabled = {}
  /\ posted = <<"openFailed">> => enabled = {"serial"} /\ hComm = "closed"
  /\ posted \in {<<"openDone">>, <<"openDone", "banner">>} => enabled = {"serial"}
  /\ posted = <<"banner">> => enabled = {"serial", "open"}

\* A banner not yet handled keeps erase and write disabled.
BannerInv ==
  Has("banner") => /\ worker.kind = "none" /\ posted \in {<<>>, <<"openDone">>}
                   /\ enabled \subseteq {"serial", "open"} /\ Once("banner")
                   /\ posted = <<>> => enabled = {"serial", "open"}

\* The dialog about a stop, and what a stop leaves enabled.
DialogInv ==
  /\ dialog = "confirm" => m_writeInProgress \/ hComm = "closed"
  /\ dialog = "joining" => m_writeInProgress /\ written.stopped
  /\ written.stopped => dialog # "confirm"
  /\ written.stopped /\ m_writeInProgress => "write" \notin enabled \/ dialog = "joining"
  /\ m_writeInProgress /\ ~written.stopped => hComm = "open"

\* Between two files, and outside of writes, the board is at none and has verified none.
Quiet ==
  /\ hComm = "open"
  /\ IF worker.kind = "write" THEN worker.pc \in Between /\ ~writeAbortFlag ELSE ~m_writeInProgress
QuietInv == Quiet => ~complete /\ ~Has("complete") /\ ~AtFile

\* While a file is sent, the board is at no other one, and says once that it is complete.
FileInv ==
  hComm = "open" /\ worker.pc \in Sending =>
    /\ AtFile => board.file = worker.i /\ ~complete /\ ~Has("complete")
    /\ board.phase = "header" => ~complete /\ ~Has("complete")
    /\ complete \/ Has("complete") => worker.i \in written.verified
    /\ complete => ~Has("complete")
    /\ Once("complete")

\* What the board waits for, the file it is at, and how much of it is to come.
BoardInv ==
  /\ board.next # "none" => board.phase \in {"erase", "off"}
  /\ AtFile => board.file >= 1
  /\ AtFile /\ board.phase # "verify" => board.left >= 1

\* Every file opened before the current one was verified, unless the write is being ended.
VerifiedInv ==
  /\ worker.kind = "write" /\ ~written.stopped /\ ~writeAbortFlag =>
       written.opened \subseteq written.verified \cup IF worker.pc \in Sending THEN {worker.i} ELSE {}
  /\ posted = <<"writeDone">> /\ ~written.stopped => written.opened \subseteq written.verified
  /\ m_writeInProgress => written.report = "none"

\* Unless an erase was given up, the board has asked for what the program takes as asked for.
Acked == ackReceived \/ Has("ack")
AckedOnce == Once("ack") /\ (ackReceived => ~Has("ack"))
AskQuiet ==
  Quiet /\ ~At("erase", "poll") =>
    /\ ~Acked /\ ~board.asked /\ board.next = "none"
    /\ board.phase \in {"menu", "off"} \/ (board.phase = "header" /\ worker.kind = "write")
AskErase ==
  At("erase", "poll") =>
    /\ AckedOnce /\ (board.phase = "erase" => ~Acked)
    /\ ~board.asked /\ board.phase \in {"erase", "menu", "off"} /\ board.next = "none"
AskAck ==
  At("write", "ack") =>
    /\ AckedOnce /\ (Acked => board.asked) /\ ~complete /\ ~Has("complete")
    /\ board.phase \in {"wipe", "ask", "program", "off", "header"} /\ board.next = "none"
    /\ board.phase \in {"wipe", "program", "header"} => ~board.asked
    /\ board.phase \in {"wipe", "ask", "program"} => board.left = worker.size - worker.sent
AskChunk ==
  At("write", "chunk") =>
    /\ board.asked /\ ~Has("ack") /\ ~complete /\ ~Has("complete")
    /\ board.phase \in {"ask", "off"} /\ board.next = "none"
    /\ board.phase = "ask" => board.left = worker.size - worker.sent
AskDone ==
  At("write", "done") =>
    /\ ~Acked /\ board.phase \in {"ask", "verify", "menu", "off"} /\ board.next = "none"
    /\ board.phase \in {"verify", "menu"} => ~board.asked
    /\ complete \/ Has("complete") => ~board.asked /\ board.phase \in {"menu", "off"}
AskInv == hComm = "open" /\ ~session.late => AskQuiet /\ AskErase /\ AskAck /\ AskChunk /\ AskDone

IInv ==
  /\ TypeOK /\ WorkerInv /\ PortInv /\ WorkingInv /\ PostedInv /\ BannerInv /\ DialogInv
  /\ QuietInv /\ FileInv /\ BoardInv /\ VerifiedInv /\ AskInv
  /\ SuccessIsVerified /\ ChunksAreAsked

-------------------------------------------------------------------------------
(* Lemmas about the bytes the receiver has not read, and about the events.  *)

\* Bytes left alone.
LEMMA WireKept ==
  ASSUME wire' = wire
  PROVE  \A b \in Bytes : (Has(b)' <=> Has(b)) /\ (Once(b)' <=> Once(b))
  BY DEF Has, Once

\* Nothing, or only the banner, to read.
LEMMA WireEmpty ==
  /\ wire = <<>> => \A b \in Bytes : ~Has(b) /\ Once(b)
  /\ wire = <<"banner">> => /\ ~Has("ack") /\ ~Has("complete")
                            /\ \A b \in Bytes : Once(b)
  BY DEF Has, Once, Bytes

\* The receiver reads a byte: a byte it has once is not left.
LEMMA WireRead ==
  ASSUME wire \in Seq(Bytes), wire # <<>>, wire' = Tail(wire)
  PROVE  /\ Head(wire) \in Bytes /\ Has(Head(wire))
         /\ \A b \in Bytes : /\ Has(b)' => Has(b)
                             /\ Once(b) => Once(b)'
                             /\ Once(b) /\ Head(wire) = b => ~Has(b)'
<1>1. /\ Len(wire) \in Nat /\ DOMAIN wire = 1..Len(wire) /\ Len(wire) >= 1
      /\ Head(wire) = wire[1] /\ Head(wire) \in Bytes
  BY HeadTailProperties, LenProperties, EmptySeq
<1>2. /\ DOMAIN wire' = 1..(Len(wire) - 1)
      /\ \A j \in 1..(Len(wire) - 1) : wire'[j] = wire[j + 1]
  BY <1>1, HeadTailProperties, LenProperties
<1>3. \A j \in DOMAIN wire' : j + 1 \in DOMAIN wire /\ j + 1 # 1 /\ wire'[j] = wire[j + 1]
  BY <1>1, <1>2
<1>4. 1 \in DOMAIN wire
  BY <1>1
<1>5. \A b \in Bytes : Has(b)' => Has(b)
  BY <1>3 DEF Has
<1>6. \A b \in Bytes : Once(b) => Once(b)'
  BY <1>1, <1>2, <1>3 DEF Once
<1>7. \A b \in Bytes : Once(b) /\ Head(wire) = b => ~Has(b)'
  BY <1>1, <1>3, <1>4 DEF Has, Once
<1>8. Head(wire) \in Bytes /\ Has(Head(wire))
  BY <1>1, <1>4 DEF Has
<1>9. QED
  BY <1>5, <1>6, <1>7, <1>8

\* The board says a byte.
LEMMA WireSaid ==
  ASSUME wire \in Seq(Bytes), NEW byte \in Bytes, wire' = Append(wire, byte)
  PROVE  \A b \in Bytes : /\ Has(b)' => Has(b) \/ b = byte
                          /\ ~Has(byte) => Once(byte)'
                          /\ b # byte /\ Once(b) => Once(b)'
<1>1. Len(wire) \in Nat /\ DOMAIN wire = 1..Len(wire)
  BY LenProperties
<1>2. PICK w \in Seq(Bytes) : w = wire
  OBVIOUS
<1>3. /\ Append(w, byte) \in Seq(Bytes)
      /\ Len(Append(w, byte)) = Len(w) + 1
      /\ \A j \in 1..Len(w) : Append(w, byte)[j] = w[j]
      /\ Append(w, byte)[Len(w) + 1] = byte
  BY AppendProperties
<1>4. DOMAIN Append(w, byte) = 1..(Len(w) + 1)
  BY <1>3, LenProperties
<1>5. \A j \in DOMAIN wire' : (j = Len(wire) + 1 /\ wire'[j] = byte) \/ (j \in DOMAIN wire /\ wire'[j] = wire[j])
  BY <1>1, <1>2, <1>3, <1>4
<1>6. QED
  BY <1>5 DEF Has, Once

\* A port closed, and a session begun.
LEMMA WireEmptied ==
  /\ wire' = <<>> => \A b \in Bytes : ~Has(b)' /\ Once(b)'
  /\ wire' = <<"banner">> => /\ ~Has("ack")' /\ ~Has("complete")'
                             /\ \A b \in Bytes : Once(b)'
  BY DEF Has, Once, Bytes

-------------------------------------------------------------------------------
(* Types.                                                                   *)

LEMMA WireTyped ==
  ASSUME wire \in Seq(Bytes)
  PROVE  /\ \A b \in Bytes : Append(wire, b) \in Seq(Bytes)
         /\ wire # <<>> => Tail(wire) \in Seq(Bytes)
         /\ <<>> \in Seq(Bytes) /\ <<"banner">> \in Seq(Bytes)
<1>1. PICK w \in Seq(Bytes) : w = wire
  OBVIOUS
<1>2. \A b \in Bytes : Append(w, b) \in Seq(Bytes)
  BY AppendProperties
<1>3. w # <<>> => Tail(w) \in Seq(Bytes)
  BY HeadTailProperties
<1>4. <<>> \in Seq(Bytes) /\ <<"banner">> \in Seq(Bytes)
  BY DEF Bytes
<1>5. QED
  BY <1>1, <1>2, <1>3, <1>4

\* What a command does to the board.
LEMMA CommandMoves ==
  ASSUME BoardType, NEW phase \in {"erase", "wipe", "header"}, NEW left, NEW file, Command(phase, left, file)
  PROVE  \/ hComm # "open" /\ board' = board
         \/ /\ hComm = "open" /\ board.phase = "menu"
            /\ board' = [phase |-> phase, next |-> board.next, asked |-> FALSE, left |-> left, file |-> file]
         \/ /\ hComm = "open" /\ board.phase # "menu"
            /\ \/ board' = [phase |-> board.phase, asked |-> FALSE, left |-> left, file |-> file,
                            next |-> IF board.phase = "erase" /\ phase # "header" THEN phase ELSE "none"]
               \/ board' = [phase |-> "off", next |-> board.next, asked |-> FALSE, left |-> board.left, file |-> board.file]
  BY DEF Command, BoardType

\* A command keeps the type of the board.
LEMMA CommandTyped ==
  ASSUME BoardType, NEW phase \in {"erase", "wipe", "header"}, NEW left \in 0..MaxChunks, NEW file \in 0..Targets,
         Command(phase, left, file)
  PROVE  BoardType'
<1>1. /\ board.phase \in Phases /\ board.next \in {"none", "erase", "wipe"} /\ board.left \in 0..MaxChunks
      /\ board.file \in 0..Targets /\ phase \in Phases /\ "off" \in Phases
  BY DEF BoardType, Phases
<1>2. (IF board.phase = "erase" /\ phase # "header" THEN phase ELSE "none") \in {"none", "erase", "wipe"}
  OBVIOUS
<1>3. CASE board' = board
  BY <1>3 DEF BoardType
<1>4. CASE board' = [phase |-> phase, next |-> board.next, asked |-> FALSE, left |-> left, file |-> file]
  BY <1>1, <1>4 DEF BoardType
<1>5. CASE board' = [phase |-> board.phase, asked |-> FALSE, left |-> left, file |-> file,
                     next |-> IF board.phase = "erase" /\ phase # "header" THEN phase ELSE "none"]
  BY <1>1, <1>2, <1>5 DEF BoardType
<1>6. CASE board' = [phase |-> "off", next |-> board.next, asked |-> FALSE, left |-> board.left, file |-> board.file]
  BY <1>1, <1>6 DEF BoardType
<1>7. QED
  BY <1>3, <1>4, <1>5, <1>6, CommandMoves

\* Each action keeps the types.
LEMMA TypeStep ==
  ASSUME IInv, [Next]_vars, PostedInv'
  PROVE  TypeOK'
<1> USE FlashAssumption DEF flags
<1>1. /\ PortType /\ FlagsType /\ WorkerType /\ ScreenType /\ BoardType /\ WrittenType /\ UsedType
      /\ Targets \in Nat /\ MaxChunks \in Nat /\ MaxOpens \in Nat /\ MaxWrites \in Nat /\ MaxErases \in Nat
      /\ WorkerInv /\ BoardInv /\ PortInv
  BY DEF IInv, TypeOK
<1>2. posted' \in Seq(Events) /\ Len(posted') <= 2
  <2>1. /\ <<>> \in Seq(Events) /\ Len(<<>>) = 0
        /\ \A e \in Events : <<e>> \in Seq(Events) /\ Len(<<e>>) = 1
        /\ \A e, f \in Events : <<e, f>> \in Seq(Events) /\ Len(<<e, f>>) = 2
    OBVIOUS
  <2>2. /\ {"eraseEnd", "openFailed", "openDone", "banner", "writeAborted", "writeDone"} \subseteq Events
    BY DEF Events
  <2>3. \/ posted' = <<>> \/ (\E e \in Events : posted' = <<e>>)
        \/ (\E e, f \in Events : posted' = <<e, f>>)
    BY <2>2 DEF PostedInv, WriteEnded
  <2>4. CASE posted' = <<>>
    BY <2>1, <2>4
  <2>5. CASE \E e \in Events : posted' = <<e>>
    BY <2>1, <2>5
  <2>6. CASE \E e, f \in Events : posted' = <<e, f>>
    BY <2>1, <2>6
  <2>7. QED
    BY <2>3, <2>4, <2>5, <2>6
<1>3. /\ {"none", "start"} \cup {"sbl", "handshake", "poll"} \cup {"next", "ack", "chunk", "done", "pause", "end"} \subseteq Places
      /\ {"off", "menu", "erase", "wipe", "ask", "program", "verify", "header"} \subseteq Phases
  BY DEF Places, Phases
<1>4. CASE OpenForBoot
  <2>1. PortType'
    BY <1>4, <1>1, WireTyped DEF PortType, Bytes, OpenForBoot, At
  <2>2. WorkerType'
    BY <1>4, <1>1 DEF WorkerType, Places, WorkerInv, Sending, OpenForBoot, At
  <2>3. QED
    BY <1>4, <1>1, <1>2, <2>1, <2>2 DEF TypeOK, FlagsType, ScreenType, BoardType, WrittenType, UsedType,
       OpenForBoot
<1>5. CASE RequestAsicPeriAndSendSBL
  <2>1. PortType'
    BY <1>5, <1>1, WireTyped DEF PortType, Bytes, RequestAsicPeriAndSendSBL, At
  <2>2. WorkerType'
    BY <1>5, <1>1 DEF WorkerType, Places, WorkerInv, Sending, RequestAsicPeriAndSendSBL, At
  <2>3. QED
    BY <1>5, <1>1, <1>2, <2>1, <2>2 DEF TypeOK, FlagsType, ScreenType, BoardType, WrittenType, UsedType,
       RequestAsicPeriAndSendSBL
<1>6. CASE DoSblHandshake
  <2>1. PortType'
    BY <1>6, <1>1, WireTyped DEF PortType, Bytes, DoSblHandshake, Post, Idle
  <2>2. WorkerType'
    BY <1>6, <1>1 DEF WorkerType, Places, WorkerInv, Sending, DoSblHandshake, Post, Idle
  <2>3. BoardType'
    BY <1>6, <1>1 DEF BoardType, Phases, DoSblHandshake, Post, Idle
  <2>4. WrittenType'
    BY <1>6, <1>1 DEF WrittenType, DoSblHandshake, Post, Idle
  <2>5. QED
    BY <1>6, <1>1, <1>2, <2>1, <2>2, <2>3, <2>4 DEF TypeOK, FlagsType, ScreenType, UsedType, DoSblHandshake
<1>7. CASE OpenFails
  <2>1. PortType'
    BY <1>7, <1>1, WireTyped DEF PortType, Bytes, OpenFails, Post, Idle
  <2>2. WorkerType'
    BY <1>7, <1>1 DEF WorkerType, Places, WorkerInv, Sending, OpenFails, Post, Idle
  <2>3. QED
    BY <1>7, <1>1, <1>2, <2>1, <2>2 DEF TypeOK, FlagsType, ScreenType, BoardType, WrittenType, UsedType,
       OpenFails
<1>8. CASE SendErase
  <2>1. FlagsType'
    BY <1>8, <1>1 DEF FlagsType, SendErase, At, Command
  <2>2. WorkerType'
    BY <1>8, <1>1 DEF WorkerType, Places, WorkerInv, Sending, SendErase, At, Command
  <2>3. BoardType'
    <3>1. Command("erase", 0, 0)
      BY <1>8 DEF SendErase
    <3>2. 0 \in 0..MaxChunks /\ 0 \in 0..Targets
      BY <1>1
    <3>3. QED
      BY <1>1, <3>1, <3>2, CommandTyped
  <2>4. QED
    BY <1>8, <1>1, <1>2, <2>1, <2>2, <2>3 DEF TypeOK, PortType, ScreenType, WrittenType, UsedType, SendErase
<1>9. CASE EraseAcked
  <2>1. FlagsType'
    BY <1>9, <1>1 DEF FlagsType, EraseAcked, At, Post, Idle
  <2>2. WorkerType'
    BY <1>9, <1>1 DEF WorkerType, Places, WorkerInv, Sending, EraseAcked, At, Post, Idle
  <2>3. QED
    BY <1>9, <1>1, <1>2, <2>1, <2>2 DEF TypeOK, PortType, ScreenType, BoardType, WrittenType, UsedType,
       EraseAcked
<1>10. CASE EraseTimesOut
  <2>1. WorkerType'
    BY <1>10, <1>1 DEF WorkerType, Places, WorkerInv, Sending, EraseTimesOut, At, Post, Idle
  <2>2. WrittenType'
    BY <1>10, <1>1 DEF WrittenType, EraseTimesOut, At, Post, Idle
  <2>3. QED
    BY <1>10, <1>1, <1>2, <2>1, <2>2 DEF TypeOK, PortType, FlagsType, ScreenType, BoardType, UsedType,
       EraseTimesOut
<1>11. CASE SkipTarget
  <2>1. WorkerType'
    BY <1>11, <1>1 DEF WorkerType, Places, WorkerInv, Sending, SkipTarget, At
  <2>2. QED
    BY <1>11, <1>1, <1>2, <2>1 DEF TypeOK, PortType, FlagsType, ScreenType, BoardType, WrittenType,
       UsedType, SkipTarget
<1>12. CASE SendHeader
  <2>1. WorkerType'
    <3>1. PICK size \in 1..MaxChunks : worker' = [worker EXCEPT !.pc = "ack", !.sent = 0, !.size = size]
      BY <1>12 DEF SendHeader
    <3>2. size \in 0..MaxChunks /\ 0 \in 0..MaxChunks
      BY <1>1
    <3>3. QED
      BY <1>1, <3>1, <3>2, <1>3 DEF WorkerType
  <2>2. BoardType'
    <3>1. PICK file \in 0..Targets, size \in 0..MaxChunks : Command("wipe", size, file)
      BY <1>12, <1>1 DEF SendHeader, WorkerType
    <3>2. 0 \in 0..MaxChunks /\ 0 \in 0..Targets
      BY <1>1
    <3>3. QED
      BY <1>1, <3>1, <3>2, CommandTyped
  <2>3. WrittenType'
    <3>1. worker.i \in 1..Targets
      BY <1>12, <1>1 DEF SendHeader, At, WorkerType, WorkerInv
    <3>2. written' = [written EXCEPT !.opened = written.opened \cup {worker.i}] /\ session' = session
      BY <1>12 DEF SendHeader
    <3>3. QED
      BY <1>1, <3>1, <3>2 DEF WrittenType
  <2>4. QED
    BY <1>12, <1>1, <1>2, <2>1, <2>2, <2>3 DEF TypeOK, PortType, FlagsType, ScreenType, UsedType, SendHeader
<1>13. CASE OpenFileFails
  <2>1. WorkerType'
    BY <1>13, <1>1 DEF WorkerType, Places, WorkerInv, Sending, OpenFileFails, At, Command
  <2>2. BoardType'
    <3>1. Command("header", 0, 0)
      BY <1>13 DEF OpenFileFails
    <3>2. 0 \in 0..MaxChunks /\ 0 \in 0..Targets
      BY <1>1
    <3>3. QED
      BY <1>1, <3>1, <3>2, CommandTyped
  <2>3. QED
    BY <1>13, <1>1, <1>2, <2>1, <2>2 DEF TypeOK, PortType, FlagsType, ScreenType, WrittenType, UsedType,
       OpenFileFails
<1>14. CASE ChunkAcked
  <2>1. WorkerType'
    BY <1>14, <1>1 DEF WorkerType, Places, WorkerInv, Sending, ChunkAcked, At
  <2>2. QED
    BY <1>14, <1>1, <1>2, <2>1 DEF TypeOK, PortType, FlagsType, ScreenType, BoardType, WrittenType,
       UsedType, ChunkAcked
<1>15. CASE SendChunk
  <2>1. FlagsType'
    BY <1>15, <1>1 DEF FlagsType, SendChunk, At
  <2>2. WorkerType'
    <3>1. worker.sent + 1 \in 0..MaxChunks
      BY <1>15, <1>1 DEF SendChunk, At, WorkerType, WorkerInv
    <3>2. worker' = [worker EXCEPT !.sent = worker.sent + 1,
                                   !.pc = IF worker.sent + 1 < worker.size THEN "ack" ELSE "done"]
      BY <1>15 DEF SendChunk
    <3>3. QED
      BY <1>1, <3>1, <3>2, <1>3 DEF WorkerType
  <2>3. BoardType'
    <3>1. \/ /\ board.left - 1 \in 0..MaxChunks
             /\ \E phase \in Phases : board' = [phase |-> phase, next |-> board.next, asked |-> FALSE,
                                               left |-> board.left - 1, file |-> board.file]
          \/ \E phase \in Phases, asked \in BOOLEAN : board' = [board EXCEPT !.phase = phase, !.asked = asked]
      <4>1. CASE hComm = "open" /\ board.phase = "ask"
        <5>1. board' = [phase |-> IF board.left = 1 THEN "verify" ELSE "program", next |-> board.next, asked |-> FALSE,
                        left |-> board.left - 1, file |-> board.file]
          BY <1>15, <1>1, <4>1 DEF SendChunk, BoardType
        <5>2. board.left \in 1..MaxChunks
          BY <1>1, <4>1 DEF BoardInv, AtFile, BoardType
        <5>3. board.left - 1 \in 0..MaxChunks
          BY <5>2, <1>1
        <5>4. QED
          BY <5>1, <5>3 DEF Phases
      <4>2. CASE ~(hComm = "open" /\ board.phase = "ask")
        <5>1. \/ board' = [board EXCEPT !.asked = board.asked /\ hComm # "open"]
              \/ board' = [board EXCEPT !.phase = "off", !.asked = FALSE]
          BY <1>15, <4>2 DEF SendChunk
        <5>2. board.phase \in Phases /\ "off" \in Phases /\ board = [board EXCEPT !.phase = board.phase]
          BY <1>1 DEF BoardType, Phases
        <5>3. (board.asked /\ hComm # "open") \in BOOLEAN
          OBVIOUS
        <5>4. QED
          BY <5>1, <5>2, <5>3, <1>1 DEF BoardType
      <4>3. QED
        BY <4>1, <4>2
    <3>2. CASE \E phase \in Phases, asked \in BOOLEAN : board' = [board EXCEPT !.phase = phase, !.asked = asked]
      BY <1>1, <3>2 DEF BoardType
    <3>3. CASE board.left - 1 \in 0..MaxChunks /\ \E phase \in Phases :
                  board' = [phase |-> phase, next |-> board.next, asked |-> FALSE, left |-> board.left - 1, file |-> board.file]
      BY <1>1, <3>3 DEF BoardType
    <3>4. QED
      BY <3>1, <3>2, <3>3
  <2>4. WrittenType'
    BY <1>15, <1>1 DEF WrittenType, SendChunk, At
  <2>5. QED
    BY <1>15, <1>1, <1>2, <2>1, <2>2, <2>3, <2>4 DEF TypeOK, PortType, ScreenType, UsedType, SendChunk
<1>16. CASE ReadFails
  <2>1. FlagsType'
    BY <1>16, <1>1 DEF FlagsType, ReadFails, At
  <2>2. WorkerType'
    BY <1>16, <1>1 DEF WorkerType, Places, WorkerInv, Sending, ReadFails, At
  <2>3. QED
    BY <1>16, <1>1, <1>2, <2>1, <2>2 DEF TypeOK, PortType, ScreenType, BoardType, WrittenType, UsedType,
       ReadFails
<1>17. CASE FileCompleted
  <2>1. FlagsType'
    BY <1>17, <1>1 DEF FlagsType, FileCompleted, At
  <2>2. WorkerType'
    BY <1>17, <1>1 DEF WorkerType, Places, WorkerInv, Sending, FileCompleted, At
  <2>3. QED
    BY <1>17, <1>1, <1>2, <2>1, <2>2 DEF TypeOK, PortType, ScreenType, BoardType, WrittenType, UsedType,
       FileCompleted
<1>18. CASE SeesAbort
  <2>1. WorkerType'
    BY <1>18, <1>1 DEF WorkerType, Places, WorkerInv, Sending, SeesAbort, Unanswered, At
  <2>2. QED
    BY <1>18, <1>1, <1>2, <2>1 DEF TypeOK, PortType, FlagsType, ScreenType, BoardType, WrittenType,
       UsedType, SeesAbort
<1>19. CASE TimesOut
  <2>1. FlagsType'
    BY <1>19, <1>1 DEF FlagsType, TimesOut, Unanswered, At
  <2>2. WorkerType'
    BY <1>19, <1>1 DEF WorkerType, Places, WorkerInv, Sending, TimesOut, Unanswered, At
  <2>3. QED
    BY <1>19, <1>1, <1>2, <2>1, <2>2 DEF TypeOK, PortType, ScreenType, BoardType, WrittenType, UsedType,
       TimesOut
<1>20. CASE NextTarget
  <2>1. WorkerType'
    <3>1. worker.i + 1 \in 0..(Targets + 1)
      BY <1>20, <1>1 DEF NextTarget, At, WorkerType, WorkerInv
    <3>2. worker' = [worker EXCEPT !.pc = "next", !.i = worker.i + 1, !.sent = 0, !.size = 0]
      BY <1>20 DEF NextTarget
    <3>3. 0 \in 0..MaxChunks
      BY <1>1
    <3>4. QED
      BY <1>1, <3>1, <3>2, <3>3, <1>3 DEF WorkerType
  <2>2. QED
    BY <1>20, <1>1, <1>2, <2>1 DEF TypeOK, PortType, FlagsType, ScreenType, BoardType, WrittenType,
       UsedType, NextTarget
<1>21. CASE LeaveLoop
  <2>1. WorkerType'
    BY <1>21, <1>1 DEF WorkerType, Places, WorkerInv, Sending, LeaveLoop, At
  <2>2. QED
    BY <1>21, <1>1, <1>2, <2>1 DEF TypeOK, PortType, FlagsType, ScreenType, BoardType, WrittenType,
       UsedType, LeaveLoop
<1>22. CASE WriteEnds
  <2>1. WorkerType'
    BY <1>22, <1>1 DEF WorkerType, Places, WorkerInv, Sending, WriteEnds, At, Post, Idle
  <2>2. QED
    BY <1>22, <1>1, <1>2, <2>1 DEF TypeOK, PortType, FlagsType, ScreenType, BoardType, WrittenType,
       UsedType, WriteEnds
<1>23. CASE rxThread
  <2>1. PortType'
    BY <1>23, <1>1, WireTyped DEF PortType, Bytes, rxThread
  <2>2. FlagsType'
    BY <1>23, <1>1 DEF FlagsType, rxThread
  <2>3. QED
    BY <1>23, <1>1, <1>2, <2>1, <2>2 DEF TypeOK, WorkerType, ScreenType, BoardType, WrittenType, UsedType,
       rxThread
<1>24. CASE StopClosesPort
  <2>1. PortType'
    BY <1>24, <1>1, WireTyped DEF PortType, Bytes, StopClosesPort, closePort, AfterClose
  <2>2. FlagsType'
    BY <1>24, <1>1 DEF FlagsType, StopClosesPort, closePort, AfterClose
  <2>3. ScreenType'
    BY <1>24, <1>1, <1>2 DEF ScreenType, Controls, StopClosesPort, closePort, AfterClose
  <2>4. QED
    BY <1>24, <1>1, <1>2, <2>1, <2>2, <2>3 DEF TypeOK, WorkerType, BoardType, WrittenType, UsedType,
       StopClosesPort
<1>25. CASE BannerEvent
  <2>1. ScreenType'
    BY <1>25, <1>1, <1>2 DEF ScreenType, Controls, BannerEvent, Enables, Handle
  <2>2. QED
    BY <1>25, <1>1, <1>2, <2>1 DEF TypeOK, PortType, FlagsType, WorkerType, BoardType, WrittenType,
       UsedType, BannerEvent, Enables
<1>26. CASE OpenFailedEvent
  <2>1. ScreenType'
    BY <1>26, <1>1, <1>2 DEF ScreenType, Controls, OpenFailedEvent, Enables, Handle
  <2>2. QED
    BY <1>26, <1>1, <1>2, <2>1 DEF TypeOK, PortType, FlagsType, WorkerType, BoardType, WrittenType,
       UsedType, OpenFailedEvent, Enables
<1>27. CASE OpenDoneEvent
  <2>1. ScreenType'
    BY <1>27, <1>1, <1>2 DEF ScreenType, Controls, OpenDoneEvent, Enables, Handle
  <2>2. QED
    BY <1>27, <1>1, <1>2, <2>1 DEF TypeOK, PortType, FlagsType, WorkerType, BoardType, WrittenType,
       UsedType, OpenDoneEvent, Enables
<1>28. CASE EraseEndEvent
  <2>1. ScreenType'
    BY <1>28, <1>1, <1>2 DEF ScreenType, Controls, EraseEndEvent, Enables, Handle
  <2>2. QED
    BY <1>28, <1>1, <1>2, <2>1 DEF TypeOK, PortType, FlagsType, WorkerType, BoardType, WrittenType,
       UsedType, EraseEndEvent, Enables
<1>29. CASE WriteEndEvent
  <2>1. PortType'
    BY <1>29, <1>1, WireTyped DEF PortType, Bytes, WriteEndEvent, Handle, closePort
  <2>2. FlagsType'
    BY <1>29, <1>1 DEF FlagsType, WriteEndEvent, Handle, closePort
  <2>3. ScreenType'
    BY <1>29, <1>1, <1>2 DEF ScreenType, Controls, WriteEndEvent, Handle, closePort
  <2>4. WrittenType'
    BY <1>29, <1>1 DEF WrittenType, WriteEndEvent, Handle, closePort
  <2>5. QED
    BY <1>29, <1>1, <1>2, <2>1, <2>2, <2>3, <2>4 DEF TypeOK, WorkerType, BoardType, UsedType, WriteEndEvent
<1>30. CASE OpenPort
  <2>1. WorkerType'
    <3>1. worker' = [kind |-> "open", pc |-> "start", i |-> 0, sent |-> 0, size |-> 0]
      BY <1>30 DEF OpenPort, Idle
    <3>2. {0, 1} \subseteq 0..(Targets + 1) /\ 0 \in 0..MaxChunks
      BY <1>1
    <3>3. QED
      BY <3>1, <3>2, <1>3 DEF WorkerType
  <2>2. ScreenType'
    BY <1>30, <1>1, <1>2 DEF ScreenType, Controls, OpenPort, Idle, CanClick
  <2>3. UsedType'
    BY <1>30, <1>1 DEF UsedType, OpenPort, Idle, CanClick
  <2>4. QED
    BY <1>30, <1>1, <1>2, <2>1, <2>2, <2>3 DEF TypeOK, PortType, FlagsType, BoardType, WrittenType, OpenPort
<1>31. CASE ClosePort
  <2>1. PortType'
    BY <1>31, <1>1, WireTyped DEF PortType, Bytes, ClosePort, closePort, AfterClose, CanClick
  <2>2. FlagsType'
    BY <1>31, <1>1 DEF FlagsType, ClosePort, closePort, AfterClose, CanClick
  <2>3. ScreenType'
    BY <1>31, <1>1, <1>2 DEF ScreenType, Controls, ClosePort, closePort, AfterClose, CanClick
  <2>4. QED
    BY <1>31, <1>1, <1>2, <2>1, <2>2, <2>3 DEF TypeOK, WorkerType, BoardType, WrittenType, UsedType, ClosePort
<1>32. CASE Erase
  <2>1. WorkerType'
    <3>1. worker' = [kind |-> "erase", pc |-> "start", i |-> 0, sent |-> 0, size |-> 0]
      BY <1>32 DEF Erase, Idle
    <3>2. {0, 1} \subseteq 0..(Targets + 1) /\ 0 \in 0..MaxChunks
      BY <1>1
    <3>3. QED
      BY <3>1, <3>2, <1>3 DEF WorkerType
  <2>2. ScreenType'
    BY <1>32, <1>1, <1>2 DEF ScreenType, Controls, Erase, Idle, CanClick
  <2>3. UsedType'
    BY <1>32, <1>1 DEF UsedType, Erase, Idle, CanClick
  <2>4. QED
    BY <1>32, <1>1, <1>2, <2>1, <2>2, <2>3 DEF TypeOK, PortType, FlagsType, BoardType, WrittenType, Erase
<1>33. CASE Write
  <2>1. FlagsType'
    BY <1>33, <1>1 DEF FlagsType, Write, Idle, CanClick, NothingWritten
  <2>2. WorkerType'
    <3>1. worker' = [kind |-> "write", pc |-> "next", i |-> 1, sent |-> 0, size |-> 0]
      BY <1>33 DEF Write, Idle
    <3>2. {0, 1} \subseteq 0..(Targets + 1) /\ 0 \in 0..MaxChunks
      BY <1>1
    <3>3. QED
      BY <3>1, <3>2, <1>3 DEF WorkerType
  <2>3. ScreenType'
    BY <1>33, <1>1, <1>2 DEF ScreenType, Controls, Write, Idle, CanClick, NothingWritten
  <2>4. WrittenType'
    BY <1>33, <1>1 DEF WrittenType, Write, Idle, CanClick, NothingWritten
  <2>5. UsedType'
    BY <1>33, <1>1 DEF UsedType, Write, Idle, CanClick, NothingWritten
  <2>6. QED
    BY <1>33, <1>1, <1>2, <2>1, <2>2, <2>3, <2>4, <2>5 DEF TypeOK, PortType, BoardType, Write
<1>34. CASE AskToStop
  <2>1. ScreenType'
    BY <1>34, <1>1, <1>2 DEF ScreenType, Controls, AskToStop, CanClick
  <2>2. QED
    BY <1>34, <1>1, <1>2, <2>1 DEF TypeOK, PortType, FlagsType, WorkerType, BoardType, WrittenType,
       UsedType, AskToStop
<1>35. CASE Decline
  <2>1. ScreenType'
    BY <1>35, <1>1, <1>2 DEF ScreenType, Controls, Decline
  <2>2. QED
    BY <1>35, <1>1, <1>2, <2>1 DEF TypeOK, PortType, FlagsType, WorkerType, BoardType, WrittenType,
       UsedType, Decline
<1>36. CASE Stop
  <2>1. FlagsType'
    BY <1>36, <1>1 DEF FlagsType, Stop
  <2>2. ScreenType'
    BY <1>36, <1>1, <1>2 DEF ScreenType, Controls, Stop
  <2>3. WrittenType'
    <3>1. written' = [written EXCEPT !.stopped = m_writeInProgress] /\ session' = session
      BY <1>36 DEF Stop
    <3>2. QED
      BY <1>1, <3>1 DEF WrittenType, FlagsType
  <2>4. QED
    BY <1>36, <1>1, <1>2, <2>1, <2>2, <2>3 DEF TypeOK, PortType, WorkerType, BoardType, UsedType, Stop
<1>37. CASE Exit
  <2>1. PortType'
    BY <1>37, <1>1, WireTyped DEF PortType, Bytes, Exit, closePort, CanClick
  <2>2. FlagsType'
    BY <1>37, <1>1 DEF FlagsType, Exit, closePort, CanClick
  <2>3. ScreenType'
    BY <1>37, <1>1, <1>2 DEF ScreenType, Controls, Exit, closePort, CanClick
  <2>4. BoardType'
    BY <1>37, <1>1 DEF BoardType, Phases, Exit, closePort, CanClick
  <2>5. QED
    BY <1>37, <1>1, <1>2, <2>1, <2>2, <2>3, <2>4 DEF TypeOK, WorkerType, WrittenType, UsedType, Exit
<1>38. CASE BoardErased
  <2>1. PortType'
    BY <1>38, <1>1, WireTyped DEF PortType, Bytes, BoardErased, Says
  <2>2. BoardType'
    BY <1>38, <1>1 DEF BoardType, Phases, BoardErased, Says
  <2>3. QED
    BY <1>38, <1>1, <1>2, <2>1, <2>2 DEF TypeOK, FlagsType, WorkerType, ScreenType, WrittenType, UsedType,
       BoardErased
<1>39. CASE BoardAsks
  <2>1. PortType'
    BY <1>39, <1>1, WireTyped DEF PortType, Bytes, BoardAsks, Says
  <2>2. BoardType'
    BY <1>39, <1>1 DEF BoardType, Phases, BoardAsks, Says
  <2>3. QED
    BY <1>39, <1>1, <1>2, <2>1, <2>2 DEF TypeOK, FlagsType, WorkerType, ScreenType, WrittenType, UsedType,
       BoardAsks
<1>40. CASE BoardVerified
  <2>1. PortType'
    BY <1>40, <1>1, WireTyped DEF PortType, Bytes, BoardVerified, Says
  <2>2. BoardType'
    BY <1>40, <1>1 DEF BoardType, Phases, BoardVerified, Says
  <2>3. WrittenType'
    <3>1. written' = [written EXCEPT !.verified = written.verified \cup {board.file}] /\ session' = session
      BY <1>40 DEF BoardVerified
    <3>2. board.file \in 1..Targets
      BY <1>40, <1>1 DEF BoardVerified, BoardInv, AtFile, BoardType
    <3>3. QED
      BY <1>1, <3>1, <3>2 DEF WrittenType
  <2>4. QED
    BY <1>40, <1>1, <1>2, <2>1, <2>2, <2>3 DEF TypeOK, FlagsType, WorkerType, ScreenType, UsedType,
       BoardVerified
<1>41. CASE BoardFallsSilent
  <2>1. BoardType'
    BY <1>41, <1>1 DEF BoardType, Phases, BoardFallsSilent
  <2>2. QED
    BY <1>41, <1>1, <1>2, <2>1 DEF TypeOK, PortType, FlagsType, WorkerType, ScreenType, WrittenType,
       UsedType, BoardFallsSilent
<1>42. CASE UNCHANGED vars
  BY <1>42, <1>1, <1>2 DEF vars, TypeOK, PortType, FlagsType, WorkerType, ScreenType, BoardType,
     WrittenType, UsedType
<1>43. QED
  BY <1>4, <1>5, <1>6, <1>7, <1>8, <1>9, <1>10, <1>11, <1>12, <1>13, <1>14, <1>15, <1>16, <1>17,
     <1>18, <1>19, <1>20, <1>21, <1>22, <1>23, <1>24, <1>25, <1>26, <1>27, <1>28, <1>29, <1>30,
     <1>31, <1>32, <1>33, <1>34, <1>35, <1>36, <1>37, <1>38, <1>39, <1>40, <1>41, <1>42
     DEF Next, Worker, Interface, Operator, Board

-------------------------------------------------------------------------------
(* Clicks and events.                                                       *)

\* A click that starts a worker finds none, and none whose end is not handled.
Free == worker = Idle /\ ~m_writeInProgress /\ hComm # "boot" /\ posted = <<>> /\ dialog = "idle"
LEMMA Clicked ==
  ASSUME IInv
  PROVE  /\ CanClick("serial") /\ CanClick("open") => Free
         /\ CanClick("erase") /\ hComm # "closed" => Free
         /\ CanClick("write") /\ ~m_writeInProgress /\ hComm # "closed" => Free
<1>1. /\ WorkerInv /\ PortInv /\ WorkingInv /\ PortType /\ FlagsType /\ WorkerType /\ <<>> \notin WriteEnded
  BY DEF IInv, TypeOK, WriteEnded
<1>2. worker.kind \in {"none", "open", "erase", "write"} /\ hComm \in {"closed", "boot", "open"}
  BY <1>1 DEF WorkerType, PortType
<1>3. worker.kind = "none" /\ posted = <<>> /\ dialog = "idle" => Free
  BY <1>1, <1>2 DEF WorkerInv, PortInv, WorkingInv, Idle, Free
<1>4. CASE worker.kind = "open"
  BY <1>1, <1>4 DEF WorkingInv, CanClick
<1>5. CASE worker.kind = "erase"
  BY <1>1, <1>5 DEF WorkingInv, CanClick
<1>6. CASE worker.kind = "write"
  BY <1>1, <1>2, <1>6 DEF WorkingInv, PortInv, Stopping, CanClick
<1>7. QED
  BY <1>2, <1>3, <1>4, <1>5, <1>6 DEF CanClick

\* The sequences of events that are ever posted.
LEMMA EventFacts ==
  /\ \A e : Append(<<>>, e) = <<e>> /\ Tail(<<e>>) = <<>> /\ Head(<<e>>) = e /\ <<e>> # <<>>
  /\ \A e, f : Append(<<e>>, f) = <<e, f>> /\ Tail(<<e, f>>) = <<f>> /\ Head(<<e, f>>) = e /\ <<e, f>> # <<>>
  /\ \A e, f : <<e>> = <<f>> => e = f
  /\ \A e, f, g : <<e, f>> # <<g>>
<1>1. \A e : Append(<<>>, e) = <<e>> /\ Tail(<<e>>) = <<>> /\ Head(<<e>>) = e /\ <<e>> # <<>>
  OBVIOUS
<1>2. ASSUME NEW e, NEW f
      PROVE  Append(<<e>>, f) = <<e, f>>
  <2> DEFINE s == <<e>>
             t == Append(s, f)
             u == <<e, f>>
  <2>1. s \in Seq({e, f}) /\ Len(s) = 1 /\ s[1] = e
    OBVIOUS
  <2>2. u \in Seq({e, f}) /\ Len(u) = 2 /\ u[1] = e /\ u[2] = f
    OBVIOUS
  <2> HIDE DEF s, u
  <2>3. t \in Seq({e, f}) /\ Len(t) = 2 /\ t[1] = e /\ t[2] = f
    <3> DEFINE S == {e, f}
    <3>1. s \in Seq(S) /\ f \in S
      BY <2>1
    <3> HIDE DEF S
    <3>2. /\ Append(s, f) \in Seq(S) /\ Len(Append(s, f)) = Len(s) + 1
          /\ \A i \in 1..Len(s) : Append(s, f)[i] = s[i]
          /\ Append(s, f)[Len(s) + 1] = f
      BY <3>1, AppendProperties
    <3>3. 1 \in 1..Len(s) /\ Len(s) + 1 = 2
      BY <2>1
    <3>4. QED
      BY <2>1, <3>2, <3>3 DEF S
  <2> HIDE DEF t
  <2>4. \A i \in 1..Len(t) : t[i] = u[i]
    BY <2>2, <2>3
  <2>5. t = u
    BY <2>2, <2>3, <2>4, SeqEqual
  <2>6. QED
    BY <2>5 DEF s, t, u
<1>3. \A e, f : Tail(<<e, f>>) = <<f>>
  OBVIOUS
<1>4. \A e, f : Head(<<e, f>>) = e /\ <<e, f>> # <<>>
  OBVIOUS
<1>5. \A e, f : <<e>> = <<f>> => e = f
  OBVIOUS
<1>6. \A e, f, g : <<e, f>> # <<g>>
  <2>1. \A e, f, g : Len(<<e, f>>) = 2 /\ Len(<<g>>) = 1
    OBVIOUS
  <2>2. ASSUME NEW e, NEW f, NEW g, <<e, f>> = <<g>>
        PROVE  FALSE
    <3>1. Len(<<e, f>>) = Len(<<g>>)
      BY <2>2
    <3>2. QED
      BY <2>1, <3>1
  <2>3. QED
    BY <2>2
<1>7. QED
  BY <1>1, <1>2, <1>3, <1>4, <1>5, <1>6

\* No two of the sequences of events are the same.
LEMMA Distinct ==
  LET Values == {<<>>, <<"eraseEnd">>, <<"openFailed">>, <<"openDone">>, <<"banner">>, <<"writeAborted">>, <<"writeDone">>}
  IN  /\ <<"openDone", "banner">> \notin Values
      /\ <<"eraseEnd">> \notin Values \ {<<"eraseEnd">>} /\ <<"openFailed">> \notin Values \ {<<"openFailed">>}
      /\ <<"openDone">> \notin {<<>>, <<"banner">>} \cup WriteEnded
      /\ <<"banner">> \notin {<<>>} \cup WriteEnded /\ <<>> \notin WriteEnded
      /\ <<"openFailed">> \notin WriteEnded /\ <<"eraseEnd">> \notin WriteEnded
      /\ <<"openDone", "banner">> \notin WriteEnded
      /\ <<"openDone">> # <<"eraseEnd">> /\ <<"openDone">> # <<"openFailed">>
      /\ <<"banner">> # <<"eraseEnd">> /\ <<"banner">> # <<"openFailed">>
      /\ <<"eraseEnd">> # <<"openFailed">> /\ <<"writeAborted">> # <<"writeDone">>
      /\ \A w \in WriteEnded : w \notin {<<>>, <<"eraseEnd">>, <<"openFailed">>, <<"openDone">>, <<"banner">>, <<"openDone", "banner">>}
  BY EventFacts DEF WriteEnded

\* What an event that is handled leaves.
LEMMA Handled ==
  ASSUME PostedInv
  PROVE  /\ Handle("banner") => posted = <<"banner">> /\ posted' = <<>>
         /\ Handle("openFailed") => posted = <<"openFailed">> /\ posted' = <<>>
         /\ Handle("eraseEnd") => posted = <<"eraseEnd">> /\ posted' = <<>>
         /\ Handle("writeAborted") => posted = <<"writeAborted">> /\ posted' = <<>>
         /\ Handle("writeDone") => posted = <<"writeDone">> /\ posted' = <<>>
         /\ Handle("openDone") => \/ posted = <<"openDone">> /\ posted' = <<>>
                                  \/ posted = <<"openDone", "banner">> /\ posted' = <<"banner">>
<1>1. CASE posted \in {<<"eraseEnd">>, <<"openFailed">>, <<"openDone">>, <<"banner">>, <<"writeAborted">>, <<"writeDone">>}
  <2>1. Tail(posted) = <<>>
    BY <1>1, EventFacts
  <2>2. PICK e \in {"eraseEnd", "openFailed", "openDone", "banner", "writeAborted", "writeDone"} : posted = <<e>>
    BY <1>1
  <2>3. Head(posted) = e
    BY <2>2, EventFacts
  <2>4. QED
    BY <2>1, <2>2, <2>3 DEF Handle
<1>2. CASE posted = <<"openDone", "banner">>
  <2>1. Head(posted) = "openDone" /\ Tail(posted) = <<"banner">>
    BY <1>2, EventFacts
  <2>2. QED
    BY <1>2, <2>1 DEF Handle
<1>3. CASE posted = <<>>
  BY <1>3 DEF Handle
<1>4. QED
  BY <1>1, <1>2, <1>3 DEF PostedInv, WriteEnded

\* A banner is read only while nothing else is done.
LEMMA BannerRead ==
  ASSUME PostedInv, BannerInv, wire \in Seq(Bytes), rxThread
  PROVE  \/ posted' = posted
         \/ Head(wire) = "banner" /\ Has("banner") /\ posted = <<>> /\ posted' = <<"banner">>
         \/ Head(wire) = "banner" /\ Has("banner") /\ posted = <<"openDone">> /\ posted' = <<"openDone", "banner">>
<1>1. CASE Head(wire) = "banner"
  <2>1. Has("banner")
    BY <1>1, WireRead DEF rxThread
  <2>2. posted \in {<<>>, <<"openDone">>} /\ posted' = Append(posted, "banner")
    BY <1>1, <2>1 DEF BannerInv, rxThread
  <2>3. Append(<<>>, "banner") = <<"banner">> /\ Append(<<"openDone">>, "banner") = <<"openDone", "banner">>
    BY EventFacts
  <2>4. QED
    BY <1>1, <2>1, <2>2, <2>3
<1>2. CASE Head(wire) # "banner"
  BY <1>2 DEF rxThread
<1>3. QED
  BY <1>1, <1>2

-------------------------------------------------------------------------------
(* The parts of the invariant, each kept by every step.                     *)

\* Where each worker can be is kept by every step.
LEMMA WorkerStep ==
  ASSUME IInv, [Next]_vars
  PROVE  WorkerInv'
<1> USE DEF flags, WorkerInv, WorkerType, Sending, Between
<1>1. WorkerInv /\ WorkerType /\ Targets \in Nat
  BY FlashAssumption DEF IInv, TypeOK, PortType, ScreenType
<1>2. CASE OpenForBoot
  BY <1>2, <1>1 DEF OpenForBoot, At
<1>3. CASE RequestAsicPeriAndSendSBL
  BY <1>3, <1>1 DEF RequestAsicPeriAndSendSBL, At
<1>4. CASE DoSblHandshake
  BY <1>4, <1>1 DEF DoSblHandshake, At, Post, Idle
<1>5. CASE OpenFails
  BY <1>5, <1>1 DEF OpenFails, Post, Idle
<1>6. CASE SendErase
  BY <1>6, <1>1 DEF SendErase, At, Command
<1>7. CASE EraseAcked
  BY <1>7, <1>1 DEF EraseAcked, At, Post, Idle
<1>8. CASE EraseTimesOut
  BY <1>8, <1>1 DEF EraseTimesOut, At, Post, Idle
<1>9. CASE SkipTarget
  BY <1>9, <1>1 DEF SkipTarget, At
<1>10. CASE SendHeader
  BY <1>10, <1>1 DEF SendHeader, At, Command
<1>11. CASE OpenFileFails
  BY <1>11, <1>1 DEF OpenFileFails, At, Command
<1>12. CASE ChunkAcked
  BY <1>12, <1>1 DEF ChunkAcked, At
<1>13. CASE SendChunk
  BY <1>13, <1>1 DEF SendChunk, At
<1>14. CASE ReadFails
  BY <1>14, <1>1 DEF ReadFails, At
<1>15. CASE FileCompleted
  BY <1>15, <1>1 DEF FileCompleted, At
<1>16. CASE SeesAbort
  BY <1>16, <1>1 DEF SeesAbort, Unanswered, At
<1>17. CASE TimesOut
  BY <1>17, <1>1 DEF TimesOut, Unanswered, At
<1>18. CASE NextTarget
  BY <1>18, <1>1 DEF NextTarget, At
<1>19. CASE LeaveLoop
  BY <1>19, <1>1 DEF LeaveLoop, At
<1>20. CASE WriteEnds
  BY <1>20, <1>1 DEF WriteEnds, At, Post, Idle
<1>21. CASE OpenPort
  BY <1>21, <1>1 DEF OpenPort, Idle, CanClick
<1>22. CASE Erase
  BY <1>22, <1>1 DEF Erase, Idle, CanClick
<1>23. CASE Write
  BY <1>23, <1>1 DEF Write, Idle, CanClick, NothingWritten
<1>24. CASE worker' = worker
  BY <1>24, <1>1
<1>25. QED
  BY <1>2, <1>3, <1>4, <1>5, <1>6, <1>7, <1>8, <1>9, <1>10, <1>11, <1>12, <1>13, <1>14, <1>15,
     <1>16, <1>17, <1>18, <1>19, <1>20, <1>21, <1>22, <1>23, <1>24 DEF Next, Worker, Interface, Operator, Board, vars, flags,
     rxThread, StopClosesPort, BannerEvent, OpenFailedEvent, OpenDoneEvent, EraseEndEvent,
     WriteEndEvent, ClosePort, AskToStop, Decline, Stop, Exit, BoardErased, BoardAsks, BoardVerified,
     BoardFallsSilent, Enables

\* A port that is not open stays silent.
LEMMA PortStep ==
  ASSUME IInv, [Next]_vars
  PROVE  PortInv'
<1> USE DEF flags, PortInv, WorkerInv, WorkerType, WorkingInv, DialogInv, Idle
<1>1. PortInv /\ PortType /\ WorkerInv /\ WorkerType /\ FlagsType /\ WorkingInv /\ DialogInv
  BY DEF IInv, TypeOK, PortType, ScreenType
<1>2. CASE OpenForBoot
  BY <1>2, <1>1 DEF OpenForBoot, At
<1>3. CASE RequestAsicPeriAndSendSBL
  BY <1>3, <1>1 DEF RequestAsicPeriAndSendSBL, At
<1>4. CASE DoSblHandshake
  BY <1>4, <1>1 DEF DoSblHandshake, At, Post, Idle
<1>5. CASE OpenFails
  BY <1>5, <1>1 DEF OpenFails, Post, Idle
<1>6. CASE SendErase
  BY <1>6, <1>1 DEF SendErase, At, Command
<1>7. CASE EraseAcked
  BY <1>7, <1>1 DEF EraseAcked, At, Post, Idle
<1>8. CASE EraseTimesOut
  BY <1>8, <1>1 DEF EraseTimesOut, At, Post, Idle
<1>9. CASE SkipTarget
  BY <1>9, <1>1 DEF SkipTarget, At
<1>10. CASE SendHeader
  BY <1>10, <1>1 DEF SendHeader, At, Command
<1>11. CASE OpenFileFails
  BY <1>11, <1>1 DEF OpenFileFails, At, Command
<1>12. CASE ChunkAcked
  BY <1>12, <1>1 DEF ChunkAcked, At
<1>13. CASE SendChunk
  BY <1>13, <1>1 DEF SendChunk, At
<1>14. CASE ReadFails
  BY <1>14, <1>1 DEF ReadFails, At
<1>15. CASE FileCompleted
  BY <1>15, <1>1 DEF FileCompleted, At
<1>16. CASE SeesAbort
  BY <1>16, <1>1 DEF SeesAbort, Unanswered, At
<1>17. CASE TimesOut
  BY <1>17, <1>1 DEF TimesOut, Unanswered, At
<1>18. CASE NextTarget
  BY <1>18, <1>1 DEF NextTarget, At
<1>19. CASE LeaveLoop
  BY <1>19, <1>1 DEF LeaveLoop, At
<1>20. CASE WriteEnds
  BY <1>20, <1>1 DEF WriteEnds, At, Post, Idle
<1>21. CASE rxThread
  BY <1>21, <1>1 DEF rxThread
<1>22. CASE StopClosesPort
  BY <1>22, <1>1 DEF StopClosesPort, closePort, AfterClose
<1>23. CASE WriteEndEvent
  BY <1>23, <1>1 DEF WriteEndEvent, Handle, closePort
<1>24. CASE OpenPort
  BY <1>24, <1>1 DEF OpenPort, Idle, CanClick
<1>25. CASE ClosePort
  BY <1>25, <1>1 DEF ClosePort, closePort, AfterClose, CanClick
<1>26. CASE Erase
  <2>1. Free
    BY <1>26, Clicked DEF Erase
  <2>2. QED
    BY <1>26, <1>1, <2>1 DEF PortInv, PortType, Free, Erase, Idle
<1>27. CASE Write
  BY <1>27, <1>1 DEF Write, Idle, CanClick, NothingWritten
<1>28. CASE Exit
  BY <1>28, <1>1 DEF Exit, closePort, CanClick
<1>29. CASE BoardErased
  BY <1>29, <1>1 DEF BoardErased, Says
<1>30. CASE BoardAsks
  BY <1>30, <1>1 DEF BoardAsks, Says
<1>31. CASE BoardVerified
  BY <1>31, <1>1 DEF BoardVerified, Says
<1>32. CASE UNCHANGED <<hComm, wire, ackReceived, complete, worker>>
  BY <1>32, <1>1, Clicked
<1>33. QED
  BY <1>2, <1>3, <1>4, <1>5, <1>6, <1>7, <1>8, <1>9, <1>10, <1>11, <1>12, <1>13, <1>14, <1>15,
     <1>16, <1>17, <1>18, <1>19, <1>20, <1>21, <1>22, <1>23, <1>24, <1>25, <1>26, <1>27, <1>28,
     <1>29, <1>30, <1>31, <1>32 DEF Next, Worker, Interface, Operator, Board, vars, flags,
     BannerEvent, OpenFailedEvent, OpenDoneEvent, EraseEndEvent, AskToStop, Decline, Stop,
     BoardFallsSilent, Enables

\* What is posted, and what is enabled until it is handled.
LEMMA PostedStep ==
  ASSUME IInv, [Next]_vars
  PROVE  PostedInv'
<1> USE DEF flags, PostedInv, WriteEnded, WorkingInv
<1>1. /\ PostedInv /\ WorkingInv /\ WorkerInv /\ WorkerType /\ FlagsType /\ PortInv /\ DialogInv
      /\ BannerInv /\ wire \in Seq(Bytes) /\ PortType /\ WrittenType /\ enabled \subseteq Controls
  BY DEF IInv, TypeOK, PortType, ScreenType
<1>2. CASE OpenForBoot
  BY <1>2, <1>1 DEF OpenForBoot, At
<1>3. CASE RequestAsicPeriAndSendSBL
  BY <1>3, <1>1 DEF RequestAsicPeriAndSendSBL, At
<1>4. CASE DoSblHandshake
  <2>1. /\ posted = <<>> /\ posted' = <<"openDone">>
        /\ worker.kind # "none" /\ worker' = Idle
    <3>1. posted = <<>> /\ posted' = Append(<<>>, "openDone")
      BY <1>4, <1>1 DEF DoSblHandshake, At, Post, Idle, WorkingInv
    <3>2. QED
      BY <1>4, <3>1, EventFacts DEF DoSblHandshake, At, Post, Idle
  <2>2. QED
    BY <1>4, <1>1, <2>1, Distinct DEF PostedInv, WriteEnded, WorkingInv, DoSblHandshake, At, Post, Idle
<1>5. CASE OpenFails
  <2>1. /\ posted = <<>> /\ posted' = <<"openFailed">>
        /\ worker.kind # "none" /\ worker' = Idle
    <3>1. posted = <<>> /\ posted' = Append(<<>>, "openFailed")
      BY <1>5, <1>1 DEF OpenFails, Post, Idle, WorkingInv
    <3>2. QED
      BY <1>5, <3>1, EventFacts DEF OpenFails, Post, Idle
  <2>2. QED
    BY <1>5, <1>1, <2>1, Distinct DEF PostedInv, WriteEnded, WorkingInv, OpenFails, Post, Idle
<1>6. CASE EraseAcked
  <2>1. /\ posted = <<>> /\ posted' = <<"eraseEnd">>
        /\ worker.kind # "none" /\ worker' = Idle
    <3>1. posted = <<>> /\ posted' = Append(<<>>, "eraseEnd")
      BY <1>6, <1>1 DEF EraseAcked, At, Post, Idle, WorkingInv
    <3>2. QED
      BY <1>6, <3>1, EventFacts DEF EraseAcked, At, Post, Idle
  <2>2. QED
    BY <1>6, <1>1, <2>1, Distinct DEF PostedInv, WriteEnded, WorkingInv, EraseAcked, At, Post, Idle
<1>7. CASE EraseTimesOut
  <2>1. /\ posted = <<>> /\ posted' = <<"eraseEnd">>
        /\ worker.kind # "none" /\ worker' = Idle
    <3>1. posted = <<>> /\ posted' = Append(<<>>, "eraseEnd")
      BY <1>7, <1>1 DEF EraseTimesOut, At, Post, Idle, WorkingInv
    <3>2. QED
      BY <1>7, <3>1, EventFacts DEF EraseTimesOut, At, Post, Idle
  <2>2. QED
    BY <1>7, <1>1, <2>1, Distinct DEF PostedInv, WriteEnded, WorkingInv, EraseTimesOut, At, Post, Idle
<1>8. CASE WriteEnds
  <2>1. posted = <<>> /\ worker.kind = "write" /\ worker' = Idle
    BY <1>8, <1>1 DEF WorkingInv, WriteEnds, At, Post, Idle
  <2>2. posted' \in WriteEnded
    BY <1>8, <2>1, EventFacts DEF WriteEnds, Post, WriteEnded
  <2>3. QED
    BY <1>8, <1>1, <2>1, <2>2, Distinct DEF PostedInv, WriteEnded, WorkingInv, WriteEnds, At, Post, Idle
<1>9. CASE rxThread
  <2>1. BannerInv /\ (Has("banner") => worker.kind = "none" /\ posted \in {<<>>, <<"openDone">>} /\ enabled \subseteq {"serial", "open"}
                         /\ (posted = <<>> => enabled = {"serial", "open"}))
    BY <1>1 DEF BannerInv
  <2>2. \/ posted' = posted
        \/ Has("banner") /\ posted = <<>> /\ posted' = <<"banner">>
        \/ Has("banner") /\ posted = <<"openDone">> /\ posted' = <<"openDone", "banner">>
    BY <1>9, <1>1, BannerRead
  <2>3. UNCHANGED <<hComm, m_writeInProgress, worker, enabled, dialog, written>>
    BY <1>9 DEF rxThread
  <2>4. QED
    BY <1>1, <2>1, <2>2, <2>3, Distinct DEF PostedInv, WriteEnded, WorkingInv
<1>10. CASE StopClosesPort
  <2>1. posted \in {<<>>} \cup WriteEnded
    BY <1>10, <1>1 DEF StopClosesPort, DialogInv, WorkingInv
  <2>2. QED
    BY <1>10, <2>1, Distinct DEF PostedInv, WriteEnded, StopClosesPort
<1>11. CASE BannerEvent
  <2>1. Handle("banner")
    BY <1>11 DEF BannerEvent, Enables
  <2>2. posted = <<"banner">> /\ posted' = <<>>
    BY <1>1, <2>1, Handled
  <2>3. QED
    BY <1>11, <1>1, <2>2, Distinct DEF PostedInv, WriteEnded, WorkingInv, BannerEvent, Enables
<1>12. CASE OpenFailedEvent
  <2>1. Handle("openFailed")
    BY <1>12 DEF OpenFailedEvent, Enables
  <2>2. posted = <<"openFailed">> /\ posted' = <<>>
    BY <1>1, <2>1, Handled
  <2>3. QED
    BY <1>12, <1>1, <2>2, Distinct DEF PostedInv, WriteEnded, WorkingInv, OpenFailedEvent, Enables
<1>13. CASE OpenDoneEvent
  <2>1. Handle("openDone")
    BY <1>13 DEF OpenDoneEvent, Enables
  <2>2. \/ posted = <<"openDone">> /\ posted' = <<>>
        \/ posted = <<"openDone", "banner">> /\ posted' = <<"banner">>
    BY <1>1, <2>1, Handled
  <2>3. {"serial"} \cup {"open"} = {"serial", "open"}
    OBVIOUS
  <2>4. enabled' = {"serial", "open"}
    <3>1. enabled = {"serial"}
      BY <1>1, <2>2 DEF PostedInv
    <3>2. QED
      BY <1>13, <2>3, <3>1 DEF OpenDoneEvent, Enables
  <2>5. posted' \in {<<>>, <<"banner">>}
    BY <2>2
  <2>6. QED
    BY <2>4, <2>5, Distinct DEF PostedInv, WriteEnded
<1>14. CASE EraseEndEvent
  <2>1. Handle("eraseEnd")
    BY <1>14 DEF EraseEndEvent, Enables
  <2>2. posted = <<"eraseEnd">> /\ posted' = <<>>
    BY <1>1, <2>1, Handled
  <2>3. QED
    BY <1>14, <1>1, <2>2, Distinct DEF PostedInv, WriteEnded, WorkingInv, EraseEndEvent, Enables
<1>15. CASE WriteEndEvent
  <2>1. posted \in WriteEnded /\ posted' = <<>>
    BY <1>15, <1>1, Handled DEF WriteEndEvent, WriteEnded
  <2>2. worker.kind \notin {"open", "erase", "write"}
    BY <1>1, <2>1, Distinct DEF WorkingInv
  <2>3. m_writeInProgress' = FALSE /\ worker' = worker /\ enabled' = Controls /\ dialog' = dialog /\ hComm' = "closed"
        /\ (dialog = "idle" \/ dialog = "confirm")
    BY <1>15, <1>1 DEF WriteEndEvent, Handle, closePort
  <2>4. written'.stopped = written.stopped
    BY <1>15, <1>1 DEF WriteEndEvent, Handle, WrittenType
  <2>5. QED
    BY <1>1, <2>1, <2>2, <2>3, <2>4, Distinct DEF PostedInv, WriteEnded, WorkingInv
<1>16. CASE OpenPort
  <2>1. Free
    BY <1>16, Clicked DEF OpenPort
  <2>2. QED
    BY <1>16, <1>1, <2>1, Distinct DEF PostedInv, WriteEnded, WorkingInv, Free, OpenPort, Idle
<1>17. CASE ClosePort
  BY <1>17, <1>1 DEF ClosePort, closePort, AfterClose, CanClick
<1>18. CASE Erase
  <2>1. Free
    BY <1>18, Clicked DEF Erase
  <2>2. enabled \ {"serial", "open", "erase", "write", "exit"} = {}
    BY <1>1 DEF Controls
  <2>3. QED
    BY <1>18, <1>1, <2>1, <2>2, Distinct DEF PostedInv, WriteEnded, WorkingInv, Free, Erase, Idle
<1>19. CASE Write
  <2>1. Free
    BY <1>19, Clicked DEF Write
  <2>2. {"write"} \cup (enabled \ {"serial", "open", "erase", "exit"}) = {"write"} /\ hComm = "open"
    BY <1>19, <1>1, <2>1 DEF Write, Controls, Free, PortType
  <2>3. QED
    BY <1>19, <1>1, <2>1, <2>2, Distinct DEF PostedInv, WriteEnded, WorkingInv, Free, Write, Idle,
       NothingWritten
<1>20. CASE Stop
  BY <1>20, <1>1 DEF Stop
<1>21. CASE Exit
  BY <1>21, <1>1 DEF Exit, closePort, CanClick
<1>22. CASE UNCHANGED <<hComm, posted, enabled>>
  BY <1>22, <1>1, Distinct
<1>23. QED
  BY <1>2, <1>3, <1>4, <1>5, <1>6, <1>7, <1>8, <1>9, <1>10, <1>11, <1>12, <1>13, <1>14, <1>15,
     <1>16, <1>17, <1>18, <1>19, <1>20, <1>21, <1>22 DEF Next, Worker, Interface, Operator, Board, vars, flags,
     SendErase, SkipTarget, SendHeader, OpenFileFails, ChunkAcked, SendChunk, ReadFails, FileCompleted,
     SeesAbort, TimesOut, NextTarget, LeaveLoop, AskToStop, Decline, BoardErased, BoardAsks,
     BoardVerified, BoardFallsSilent

\* A worker, or a write whose end is not handled, keeps its controls disabled.
LEMMA WorkingStep ==
  ASSUME IInv, [Next]_vars
  PROVE  WorkingInv'
<1> USE DEF flags, WorkingInv, Stopping, PostedInv, WorkerInv, PortInv
<1>1. /\ PostedInv /\ WorkingInv /\ WorkerInv /\ WorkerType /\ FlagsType /\ PortInv /\ DialogInv
      /\ BannerInv /\ wire \in Seq(Bytes) /\ PortType /\ WrittenType /\ enabled \subseteq Controls
  BY DEF IInv, TypeOK, PortType, ScreenType
<1>2. CASE OpenForBoot
  BY <1>2, <1>1 DEF OpenForBoot, At
<1>3. CASE RequestAsicPeriAndSendSBL
  BY <1>3, <1>1 DEF RequestAsicPeriAndSendSBL, At
<1>4. CASE DoSblHandshake
  <2>1. /\ posted = <<>> /\ posted' = <<"openDone">>
        /\ worker.kind # "none" /\ worker' = Idle
    <3>1. posted = <<>> /\ posted' = Append(<<>>, "openDone")
      BY <1>4, <1>1 DEF DoSblHandshake, At, Post, Idle, WorkingInv
    <3>2. QED
      BY <1>4, <3>1, EventFacts DEF DoSblHandshake, At, Post, Idle
  <2>2. QED
    BY <1>4, <1>1, <2>1, Distinct DEF WorkingInv, Stopping, PostedInv, WorkerInv, PortInv, Controls,
       DoSblHandshake, At, Post, Idle
<1>5. CASE OpenFails
  <2>1. /\ posted = <<>> /\ posted' = <<"openFailed">>
        /\ worker.kind # "none" /\ worker' = Idle
    <3>1. posted = <<>> /\ posted' = Append(<<>>, "openFailed")
      BY <1>5, <1>1 DEF OpenFails, Post, Idle, WorkingInv
    <3>2. QED
      BY <1>5, <3>1, EventFacts DEF OpenFails, Post, Idle
  <2>2. QED
    BY <1>5, <1>1, <2>1, Distinct DEF WorkingInv, Stopping, PostedInv, WorkerInv, PortInv, Controls,
       OpenFails, Post, Idle
<1>6. CASE SendErase
  BY <1>6, <1>1 DEF SendErase, At, Command
<1>7. CASE EraseAcked
  <2>1. /\ posted = <<>> /\ posted' = <<"eraseEnd">>
        /\ worker.kind # "none" /\ worker' = Idle
    <3>1. posted = <<>> /\ posted' = Append(<<>>, "eraseEnd")
      BY <1>7, <1>1 DEF EraseAcked, At, Post, Idle, WorkingInv
    <3>2. QED
      BY <1>7, <3>1, EventFacts DEF EraseAcked, At, Post, Idle
  <2>2. QED
    BY <1>7, <1>1, <2>1, Distinct DEF WorkingInv, Stopping, PostedInv, WorkerInv, PortInv, Controls,
       EraseAcked, At, Post, Idle
<1>8. CASE EraseTimesOut
  <2>1. /\ posted = <<>> /\ posted' = <<"eraseEnd">>
        /\ worker.kind # "none" /\ worker' = Idle
    <3>1. posted = <<>> /\ posted' = Append(<<>>, "eraseEnd")
      BY <1>8, <1>1 DEF EraseTimesOut, At, Post, Idle, WorkingInv
    <3>2. QED
      BY <1>8, <3>1, EventFacts DEF EraseTimesOut, At, Post, Idle
  <2>2. QED
    BY <1>8, <1>1, <2>1, Distinct DEF WorkingInv, Stopping, PostedInv, WorkerInv, PortInv, Controls,
       EraseTimesOut, At, Post, Idle
<1>9. CASE SkipTarget
  BY <1>9, <1>1 DEF SkipTarget, At
<1>10. CASE SendHeader
  BY <1>10, <1>1 DEF SendHeader, At, Command
<1>11. CASE OpenFileFails
  BY <1>11, <1>1 DEF OpenFileFails, At, Command
<1>12. CASE ChunkAcked
  BY <1>12, <1>1 DEF ChunkAcked, At
<1>13. CASE SendChunk
  BY <1>13, <1>1 DEF SendChunk, At
<1>14. CASE ReadFails
  BY <1>14, <1>1 DEF ReadFails, At
<1>15. CASE FileCompleted
  BY <1>15, <1>1 DEF FileCompleted, At
<1>16. CASE SeesAbort
  BY <1>16, <1>1 DEF SeesAbort, Unanswered, At
<1>17. CASE TimesOut
  BY <1>17, <1>1 DEF TimesOut, Unanswered, At
<1>18. CASE NextTarget
  BY <1>18, <1>1 DEF NextTarget, At
<1>19. CASE LeaveLoop
  BY <1>19, <1>1 DEF LeaveLoop, At
<1>20. CASE WriteEnds
  <2>1. posted = <<>> /\ worker.kind = "write" /\ worker' = Idle
    BY <1>20, <1>1 DEF WorkingInv, WriteEnds, At, Post, Idle
  <2>2. posted' \in WriteEnded
    BY <1>20, <2>1, EventFacts DEF WriteEnds, Post, WriteEnded
  <2>3. QED
    BY <1>20, <1>1, <2>1, <2>2, Distinct DEF WorkingInv, Stopping, PostedInv, WorkerInv, PortInv, Controls,
       WriteEnds, At, Post, Idle
<1>21. CASE rxThread
  <2>1. BannerInv /\ (Has("banner") => worker.kind = "none" /\ posted \in {<<>>, <<"openDone">>} /\ enabled \subseteq {"serial", "open"}
                         /\ (posted = <<>> => enabled = {"serial", "open"}))
    BY <1>1 DEF BannerInv
  <2>2. \/ posted' = posted
        \/ Has("banner") /\ posted = <<>> /\ posted' = <<"banner">>
        \/ Has("banner") /\ posted = <<"openDone">> /\ posted' = <<"openDone", "banner">>
    BY <1>21, <1>1, BannerRead
  <2>3. UNCHANGED <<hComm, m_writeInProgress, worker, enabled, dialog, written>>
    BY <1>21 DEF rxThread
  <2>4. QED
    BY <1>1, <2>1, <2>2, <2>3, Distinct DEF WorkingInv, Stopping, PostedInv, WorkerInv, PortInv, Controls
<1>22. CASE StopClosesPort
  BY <1>22, <1>1 DEF StopClosesPort, closePort, AfterClose
<1>23. CASE BannerEvent
  <2>1. Handle("banner")
    BY <1>23 DEF BannerEvent, Enables
  <2>2. posted = <<"banner">> /\ posted' = <<>>
    BY <1>1, <2>1, Handled
  <2>3. QED
    BY <1>23, <1>1, <2>2, Distinct DEF WorkingInv, Stopping, PostedInv, WorkerInv, PortInv, Controls,
       BannerEvent, Enables
<1>24. CASE OpenFailedEvent
  <2>1. Handle("openFailed")
    BY <1>24 DEF OpenFailedEvent, Enables
  <2>2. posted = <<"openFailed">> /\ posted' = <<>>
    BY <1>1, <2>1, Handled
  <2>3. QED
    BY <1>24, <1>1, <2>2, Distinct DEF WorkingInv, Stopping, PostedInv, WorkerInv, PortInv, Controls,
       OpenFailedEvent, Enables
<1>25. CASE OpenDoneEvent
  <2>1. Handle("openDone")
    BY <1>25 DEF OpenDoneEvent, Enables
  <2>2. \/ posted = <<"openDone">> /\ posted' = <<>>
        \/ posted = <<"openDone", "banner">> /\ posted' = <<"banner">>
    BY <1>1, <2>1, Handled
  <2>3. {"serial"} \cup {"open"} = {"serial", "open"}
    OBVIOUS
  <2>4. QED
    BY <1>25, <1>1, <2>2, <2>3, Distinct DEF WorkingInv, Stopping, PostedInv, WorkerInv, PortInv, Controls,
       OpenDoneEvent, Enables
<1>26. CASE EraseEndEvent
  <2>1. Handle("eraseEnd")
    BY <1>26 DEF EraseEndEvent, Enables
  <2>2. posted = <<"eraseEnd">> /\ posted' = <<>>
    BY <1>1, <2>1, Handled
  <2>3. QED
    BY <1>26, <1>1, <2>2, Distinct DEF WorkingInv, Stopping, PostedInv, WorkerInv, PortInv, Controls,
       EraseEndEvent, Enables
<1>27. CASE WriteEndEvent
  <2>1. posted \in WriteEnded /\ posted' = <<>>
    BY <1>27, <1>1, Handled DEF WriteEndEvent, WriteEnded
  <2>2. worker.kind \notin {"open", "erase", "write"}
    BY <1>1, <2>1, Distinct DEF WorkingInv
  <2>3. m_writeInProgress' = FALSE /\ worker' = worker /\ enabled' = Controls /\ dialog' = dialog /\ hComm' = "closed"
        /\ (dialog = "idle" \/ dialog = "confirm")
    BY <1>27, <1>1 DEF WriteEndEvent, Handle, closePort
  <2>4. written'.stopped = written.stopped
    BY <1>27, <1>1 DEF WriteEndEvent, Handle, WrittenType
  <2>5. QED
    BY <1>1, <2>1, <2>2, <2>3, <2>4, Distinct DEF WorkingInv, Stopping, PostedInv, WorkerInv, PortInv,
       Controls
<1>28. CASE OpenPort
  <2>1. Free
    BY <1>28, Clicked DEF OpenPort
  <2>2. QED
    BY <1>28, <1>1, <2>1, Distinct DEF WorkingInv, Stopping, PostedInv, WorkerInv, PortInv, Controls, Free,
       OpenPort, Idle
<1>29. CASE ClosePort
  BY <1>29, <1>1 DEF ClosePort, closePort, AfterClose, CanClick
<1>30. CASE Erase
  <2>1. Free
    BY <1>30, Clicked DEF Erase
  <2>2. enabled \ {"serial", "open", "erase", "write", "exit"} = {}
    BY <1>1 DEF Controls
  <2>3. QED
    BY <1>30, <1>1, <2>1, <2>2, Distinct DEF WorkingInv, Stopping, PostedInv, WorkerInv, PortInv, Controls,
       Free, Erase, Idle
<1>31. CASE Write
  <2>1. Free
    BY <1>31, Clicked DEF Write
  <2>2. {"write"} \cup (enabled \ {"serial", "open", "erase", "exit"}) = {"write"} /\ hComm = "open"
    BY <1>31, <1>1, <2>1 DEF Write, Controls, Free, PortType
  <2>3. QED
    BY <1>31, <1>1, <2>1, <2>2, Distinct DEF WorkingInv, Stopping, PostedInv, WorkerInv, PortInv, Controls,
       Free, Write, Idle, NothingWritten
<1>32. CASE AskToStop
  BY <1>32, <1>1 DEF AskToStop, CanClick
<1>33. CASE Decline
  BY <1>33, <1>1 DEF Decline
<1>34. CASE Stop
  BY <1>34, <1>1 DEF Stop
<1>35. CASE Exit
  BY <1>35, <1>1 DEF Exit, closePort, CanClick
<1>36. CASE UNCHANGED <<hComm, m_writeInProgress, worker, posted, enabled, dialog>>
  BY <1>36, <1>1, Distinct
<1>37. QED
  BY <1>2, <1>3, <1>4, <1>5, <1>6, <1>7, <1>8, <1>9, <1>10, <1>11, <1>12, <1>13, <1>14, <1>15,
     <1>16, <1>17, <1>18, <1>19, <1>20, <1>21, <1>22, <1>23, <1>24, <1>25, <1>26, <1>27, <1>28,
     <1>29, <1>30, <1>31, <1>32, <1>33, <1>34, <1>35, <1>36 DEF Next, Worker, Interface, Operator, Board, vars, flags,
     BoardErased, BoardAsks, BoardVerified, BoardFallsSilent

\* The dialog about a stop belongs to the write it is about.
LEMMA DialogStep ==
  ASSUME IInv, [Next]_vars
  PROVE  DialogInv'
<1> USE DEF flags, DialogInv, WorkingInv, Stopping, WorkerInv, PortInv
<1>1. /\ PostedInv /\ WorkingInv /\ WorkerInv /\ WorkerType /\ FlagsType /\ PortInv /\ DialogInv
      /\ BannerInv /\ wire \in Seq(Bytes) /\ PortType /\ WrittenType /\ enabled \subseteq Controls
  BY DEF IInv, TypeOK, PortType, ScreenType
<1>2. CASE OpenForBoot
  BY <1>2, <1>1 DEF OpenForBoot, At
<1>3. CASE RequestAsicPeriAndSendSBL
  BY <1>3, <1>1 DEF RequestAsicPeriAndSendSBL, At
<1>4. CASE DoSblHandshake
  <2>1. /\ posted = <<>> /\ posted' = <<"openDone">>
        /\ worker.kind # "none" /\ worker' = Idle
    <3>1. posted = <<>> /\ posted' = Append(<<>>, "openDone")
      BY <1>4, <1>1 DEF DoSblHandshake, At, Post, Idle, WorkingInv
    <3>2. QED
      BY <1>4, <3>1, EventFacts DEF DoSblHandshake, At, Post, Idle
  <2>2. QED
    BY <1>4, <1>1, <2>1, Distinct DEF DialogInv, WorkingInv, Stopping, WorkerInv, PortInv, DoSblHandshake,
       At, Post, Idle
<1>5. CASE OpenFails
  <2>1. /\ posted = <<>> /\ posted' = <<"openFailed">>
        /\ worker.kind # "none" /\ worker' = Idle
    <3>1. posted = <<>> /\ posted' = Append(<<>>, "openFailed")
      BY <1>5, <1>1 DEF OpenFails, Post, Idle, WorkingInv
    <3>2. QED
      BY <1>5, <3>1, EventFacts DEF OpenFails, Post, Idle
  <2>2. QED
    BY <1>5, <1>1, <2>1, Distinct DEF DialogInv, WorkingInv, Stopping, WorkerInv, PortInv, OpenFails, Post,
       Idle
<1>6. CASE EraseAcked
  <2>1. /\ posted = <<>> /\ posted' = <<"eraseEnd">>
        /\ worker.kind # "none" /\ worker' = Idle
    <3>1. posted = <<>> /\ posted' = Append(<<>>, "eraseEnd")
      BY <1>6, <1>1 DEF EraseAcked, At, Post, Idle, WorkingInv
    <3>2. QED
      BY <1>6, <3>1, EventFacts DEF EraseAcked, At, Post, Idle
  <2>2. QED
    BY <1>6, <1>1, <2>1, Distinct DEF DialogInv, WorkingInv, Stopping, WorkerInv, PortInv, EraseAcked, At,
       Post, Idle
<1>7. CASE EraseTimesOut
  <2>1. /\ posted = <<>> /\ posted' = <<"eraseEnd">>
        /\ worker.kind # "none" /\ worker' = Idle
    <3>1. posted = <<>> /\ posted' = Append(<<>>, "eraseEnd")
      BY <1>7, <1>1 DEF EraseTimesOut, At, Post, Idle, WorkingInv
    <3>2. QED
      BY <1>7, <3>1, EventFacts DEF EraseTimesOut, At, Post, Idle
  <2>2. QED
    BY <1>7, <1>1, <2>1, Distinct DEF DialogInv, WorkingInv, Stopping, WorkerInv, PortInv, EraseTimesOut,
       At, Post, Idle
<1>8. CASE SendHeader
  BY <1>8, <1>1 DEF SendHeader, At, Command
<1>9. CASE WriteEnds
  <2>1. posted = <<>> /\ worker.kind = "write" /\ worker' = Idle
    BY <1>9, <1>1 DEF WorkingInv, WriteEnds, At, Post, Idle
  <2>2. posted' \in WriteEnded
    BY <1>9, <2>1, EventFacts DEF WriteEnds, Post, WriteEnded
  <2>3. QED
    BY <1>9, <1>1, <2>1, <2>2, Distinct DEF DialogInv, WorkingInv, Stopping, WorkerInv, PortInv, WriteEnds,
       At, Post, Idle
<1>10. CASE rxThread
  <2>1. BannerInv /\ (Has("banner") => worker.kind = "none" /\ posted \in {<<>>, <<"openDone">>} /\ enabled \subseteq {"serial", "open"}
                         /\ (posted = <<>> => enabled = {"serial", "open"}))
    BY <1>1 DEF BannerInv
  <2>2. \/ posted' = posted
        \/ Has("banner") /\ posted = <<>> /\ posted' = <<"banner">>
        \/ Has("banner") /\ posted = <<"openDone">> /\ posted' = <<"openDone", "banner">>
    BY <1>10, <1>1, BannerRead
  <2>3. UNCHANGED <<hComm, m_writeInProgress, worker, enabled, dialog, written>>
    BY <1>10 DEF rxThread
  <2>4. QED
    BY <1>1, <2>1, <2>2, <2>3, Distinct DEF DialogInv, WorkingInv, Stopping, WorkerInv, PortInv
<1>11. CASE StopClosesPort
  BY <1>11, <1>1 DEF StopClosesPort, closePort, AfterClose
<1>12. CASE BannerEvent
  <2>1. Handle("banner")
    BY <1>12 DEF BannerEvent, Enables
  <2>2. posted = <<"banner">> /\ posted' = <<>>
    BY <1>1, <2>1, Handled
  <2>3. QED
    BY <1>12, <1>1, <2>2, Distinct DEF DialogInv, WorkingInv, Stopping, WorkerInv, PortInv, BannerEvent,
       Enables
<1>13. CASE OpenFailedEvent
  <2>1. Handle("openFailed")
    BY <1>13 DEF OpenFailedEvent, Enables
  <2>2. posted = <<"openFailed">> /\ posted' = <<>>
    BY <1>1, <2>1, Handled
  <2>3. QED
    BY <1>13, <1>1, <2>2, Distinct DEF DialogInv, WorkingInv, Stopping, WorkerInv, PortInv, OpenFailedEvent,
       Enables
<1>14. CASE OpenDoneEvent
  <2>1. Handle("openDone")
    BY <1>14 DEF OpenDoneEvent, Enables
  <2>2. \/ posted = <<"openDone">> /\ posted' = <<>>
        \/ posted = <<"openDone", "banner">> /\ posted' = <<"banner">>
    BY <1>1, <2>1, Handled
  <2>3. {"serial"} \cup {"open"} = {"serial", "open"}
    OBVIOUS
  <2>4. QED
    BY <1>14, <1>1, <2>2, <2>3, Distinct DEF DialogInv, WorkingInv, Stopping, WorkerInv, PortInv,
       OpenDoneEvent, Enables
<1>15. CASE EraseEndEvent
  <2>1. Handle("eraseEnd")
    BY <1>15 DEF EraseEndEvent, Enables
  <2>2. posted = <<"eraseEnd">> /\ posted' = <<>>
    BY <1>1, <2>1, Handled
  <2>3. QED
    BY <1>15, <1>1, <2>2, Distinct DEF DialogInv, WorkingInv, Stopping, WorkerInv, PortInv, EraseEndEvent,
       Enables
<1>16. CASE WriteEndEvent
  <2>1. posted \in WriteEnded /\ posted' = <<>>
    BY <1>16, <1>1, Handled DEF WriteEndEvent, WriteEnded
  <2>2. worker.kind \notin {"open", "erase", "write"}
    BY <1>1, <2>1, Distinct DEF WorkingInv
  <2>3. m_writeInProgress' = FALSE /\ worker' = worker /\ enabled' = Controls /\ dialog' = dialog /\ hComm' = "closed"
        /\ (dialog = "idle" \/ dialog = "confirm")
    BY <1>16, <1>1 DEF WriteEndEvent, Handle, closePort
  <2>4. written'.stopped = written.stopped
    BY <1>16, <1>1 DEF WriteEndEvent, Handle, WrittenType
  <2>5. QED
    BY <1>1, <2>1, <2>2, <2>3, <2>4, Distinct DEF DialogInv, WorkingInv, Stopping, WorkerInv, PortInv
<1>17. CASE OpenPort
  <2>1. Free
    BY <1>17, Clicked DEF OpenPort
  <2>2. QED
    BY <1>17, <1>1, <2>1, Distinct DEF DialogInv, WorkingInv, Stopping, WorkerInv, PortInv, Free, OpenPort,
       Idle
<1>18. CASE ClosePort
  BY <1>18, <1>1 DEF ClosePort, closePort, AfterClose, CanClick
<1>19. CASE Erase
  <2>1. Free
    BY <1>19, Clicked DEF Erase
  <2>2. enabled \ {"serial", "open", "erase", "write", "exit"} = {}
    BY <1>1 DEF Controls
  <2>3. QED
    BY <1>19, <1>1, <2>1, <2>2, Distinct DEF DialogInv, WorkingInv, Stopping, WorkerInv, PortInv, Free,
       Erase, Idle
<1>20. CASE Write
  <2>1. Free
    BY <1>20, Clicked DEF Write
  <2>2. {"write"} \cup (enabled \ {"serial", "open", "erase", "exit"}) = {"write"} /\ hComm = "open"
    BY <1>20, <1>1, <2>1 DEF Write, Controls, Free, PortType
  <2>3. QED
    BY <1>20, <1>1, <2>1, <2>2, Distinct DEF DialogInv, WorkingInv, Stopping, WorkerInv, PortInv, Free,
       Write, Idle, NothingWritten
<1>21. CASE AskToStop
  BY <1>21, <1>1 DEF AskToStop, CanClick
<1>22. CASE Decline
  BY <1>22, <1>1 DEF Decline
<1>23. CASE Stop
  BY <1>23, <1>1 DEF Stop
<1>24. CASE Exit
  BY <1>24, <1>1 DEF Exit, closePort, CanClick
<1>25. CASE BoardVerified
  BY <1>25, <1>1 DEF BoardVerified, Says
<1>26. CASE UNCHANGED <<hComm, m_writeInProgress, enabled, dialog, written>>
  BY <1>26, <1>1, Distinct
<1>27. QED
  BY <1>2, <1>3, <1>4, <1>5, <1>6, <1>7, <1>8, <1>9, <1>10, <1>11, <1>12, <1>13, <1>14, <1>15,
     <1>16, <1>17, <1>18, <1>19, <1>20, <1>21, <1>22, <1>23, <1>24, <1>25, <1>26
     DEF Next, Worker, Interface, Operator, Board, vars, flags,
     SendErase, SkipTarget, OpenFileFails, ChunkAcked, SendChunk, ReadFails, FileCompleted, SeesAbort,
     TimesOut, NextTarget, LeaveLoop, BoardErased, BoardAsks, BoardFallsSilent

\* A banner not yet read is the only one, and no worker runs.
LEMMA BannerStep ==
  ASSUME IInv, [Next]_vars
  PROVE  BannerInv'
<1> USE DEF flags, BannerInv, WorkerInv, PortInv, WorkingInv, DialogInv, WriteEnded
<1>1. /\ BannerInv /\ BoardInv /\ BoardType /\ PortInv /\ WorkingInv /\ PostedInv /\ DialogInv
      /\ WorkerInv /\ WorkerType /\ FlagsType /\ PortType /\ WrittenType /\ QuietInv /\ FileInv
      /\ VerifiedInv /\ SuccessIsVerified /\ {"ack", "complete", "banner"} = Bytes /\ Targets \in Nat
  BY FlashAssumption DEF IInv, TypeOK, PortType, ScreenType, Bytes
<1>2. CASE OpenForBoot
  BY <1>2, <1>1, WireKept DEF OpenForBoot, At
<1>3. CASE RequestAsicPeriAndSendSBL
  BY <1>3, <1>1, WireKept DEF RequestAsicPeriAndSendSBL, At
<1>4. CASE DoSblHandshake
  BY <1>4, <1>1, WireEmptied DEF DoSblHandshake, At, Post, Idle
<1>5. CASE OpenFails
  BY <1>5, <1>1, WireKept DEF OpenFails, Post, Idle
<1>6. CASE SendErase
  BY <1>6, <1>1, WireKept DEF SendErase, At, Command
<1>7. CASE EraseAcked
  BY <1>7, <1>1, WireKept DEF EraseAcked, At, Post, Idle
<1>8. CASE EraseTimesOut
  BY <1>8, <1>1, WireKept DEF EraseTimesOut, At, Post, Idle
<1>9. CASE SkipTarget
  BY <1>9, <1>1, WireKept DEF SkipTarget, At
<1>10. CASE SendHeader
  BY <1>10, <1>1, WireKept DEF SendHeader, At, Command
<1>11. CASE OpenFileFails
  BY <1>11, <1>1, WireKept DEF OpenFileFails, At, Command
<1>12. CASE ChunkAcked
  BY <1>12, <1>1, WireKept DEF ChunkAcked, At
<1>13. CASE SendChunk
  BY <1>13, <1>1, WireKept DEF SendChunk, At
<1>14. CASE ReadFails
  BY <1>14, <1>1, WireKept DEF ReadFails, At
<1>15. CASE FileCompleted
  BY <1>15, <1>1, WireKept DEF FileCompleted, At
<1>16. CASE SeesAbort
  BY <1>16, <1>1, WireKept DEF SeesAbort, Unanswered, At
<1>17. CASE TimesOut
  BY <1>17, <1>1, WireKept DEF TimesOut, Unanswered, At
<1>18. CASE NextTarget
  BY <1>18, <1>1, WireKept DEF NextTarget, At
<1>19. CASE LeaveLoop
  BY <1>19, <1>1, WireKept DEF LeaveLoop, At
<1>20. CASE WriteEnds
  BY <1>20, <1>1, WireKept DEF WriteEnds, At, Post, Idle
<1>21. CASE rxThread
  <2>1. /\ \A b \in Bytes : (Has(b)' => Has(b)) /\ (Once(b) => Once(b)') /\ (Once(b) /\ Head(wire) = b => ~Has(b)')
        /\ Has(Head(wire)) /\ Head(wire) \in Bytes
    BY <1>21, <1>1, WireRead DEF rxThread, PortType
  <2>2. ~Has("banner")' \/ (Has("banner") /\ Head(wire) # "banner")
    BY <1>1, <2>1 DEF BannerInv
  <2>3. QED
    BY <1>21, <1>1, <2>2, <2>1 DEF BannerInv, rxThread
<1>22. CASE StopClosesPort
  BY <1>22, <1>1, WireEmptied DEF StopClosesPort, closePort, AfterClose
<1>23. CASE BannerEvent
  <2>1. Handle("banner")
    BY <1>23 DEF BannerEvent, Enables
  <2>2. posted = <<"banner">> /\ posted' = <<>>
    BY <1>1, <2>1, Handled
  <2>3. (Has("banner")' <=> Has("banner")) /\ (Once("banner")' <=> Once("banner"))
    BY <1>23, <1>1, WireKept DEF BannerEvent, Enables
  <2>4. QED
    BY <1>23, <1>1, <2>2, <2>3, Distinct DEF BannerInv, PostedInv, BannerEvent, Enables
<1>24. CASE OpenFailedEvent
  <2>1. Handle("openFailed")
    BY <1>24 DEF OpenFailedEvent, Enables
  <2>2. posted = <<"openFailed">> /\ posted' = <<>>
    BY <1>1, <2>1, Handled
  <2>3. (Has("banner")' <=> Has("banner")) /\ (Once("banner")' <=> Once("banner"))
    BY <1>24, <1>1, WireKept DEF OpenFailedEvent, Enables
  <2>4. QED
    BY <1>24, <1>1, <2>2, <2>3, Distinct DEF BannerInv, PostedInv, OpenFailedEvent, Enables
<1>25. CASE OpenDoneEvent
  <2>1. Handle("openDone")
    BY <1>25 DEF OpenDoneEvent, Enables
  <2>2. \/ posted = <<"openDone">> /\ posted' = <<>>
        \/ posted = <<"openDone", "banner">> /\ posted' = <<"banner">>
    BY <1>1, <2>1, Handled
  <2>3. (Has("banner")' <=> Has("banner")) /\ (Once("banner")' <=> Once("banner"))
    BY <1>25, <1>1, WireKept DEF OpenDoneEvent, Enables
  <2>4. QED
    BY <1>25, <1>1, <2>2, <2>3, Distinct DEF BannerInv, PostedInv, OpenDoneEvent, Enables
<1>26. CASE EraseEndEvent
  <2>1. Handle("eraseEnd")
    BY <1>26 DEF EraseEndEvent, Enables
  <2>2. posted = <<"eraseEnd">> /\ posted' = <<>>
    BY <1>1, <2>1, Handled
  <2>3. (Has("banner")' <=> Has("banner")) /\ (Once("banner")' <=> Once("banner"))
    BY <1>26, <1>1, WireKept DEF EraseEndEvent, Enables
  <2>4. QED
    BY <1>26, <1>1, <2>2, <2>3, Distinct DEF BannerInv, PostedInv, EraseEndEvent, Enables
<1>27. CASE WriteEndEvent
  BY <1>27, <1>1, WireEmptied DEF WriteEndEvent, Handle, closePort
<1>28. CASE OpenPort
  <2>1. ~Has("banner")
    <3>1. "erase" \notin {"serial", "open"} /\ "write" \notin {"serial", "open"}
      OBVIOUS
    <3>2. QED
      BY <1>28, <1>1, <3>1, WireEmpty DEF BannerInv, PortInv, CanClick, OpenPort
  <2>2. ~Has("banner")'
    BY <1>28, <1>1, <2>1, WireKept DEF OpenPort
  <2>3. QED
    BY <2>2 DEF BannerInv
<1>29. CASE ClosePort
  BY <1>29, <1>1, WireEmptied DEF ClosePort, closePort, AfterClose, CanClick
<1>30. CASE Erase
  <2>1. ~Has("banner")
    <3>1. "erase" \notin {"serial", "open"} /\ "write" \notin {"serial", "open"}
      OBVIOUS
    <3>2. QED
      BY <1>30, <1>1, <3>1, WireEmpty DEF BannerInv, PortInv, CanClick, Erase
  <2>2. ~Has("banner")'
    BY <1>30, <1>1, <2>1, WireKept DEF Erase
  <2>3. QED
    BY <2>2 DEF BannerInv
<1>31. CASE Write
  <2>1. ~Has("banner")
    <3>1. "erase" \notin {"serial", "open"} /\ "write" \notin {"serial", "open"}
      OBVIOUS
    <3>2. QED
      BY <1>31, <1>1, <3>1, WireEmpty DEF BannerInv, PortInv, CanClick, Write
  <2>2. ~Has("banner")'
    BY <1>31, <1>1, <2>1, WireKept DEF Write
  <2>3. QED
    BY <2>2 DEF BannerInv
<1>32. CASE Stop
  BY <1>32, <1>1, WireKept DEF Stop
<1>33. CASE Exit
  BY <1>33, <1>1, WireEmptied DEF Exit, closePort, CanClick
<1>34. CASE BoardErased
  <2>1. Has("banner")' => Has("banner")
    BY <1>34, <1>1, WireSaid, WireKept DEF BoardErased, Says, PortType
  <2>2. Once("banner") => Once("banner")'
    BY <1>34, <1>1, WireSaid, WireKept DEF BoardErased, Says, PortType
  <2>3. QED
    BY <1>34, <1>1, <2>1, <2>2 DEF BannerInv, BoardErased
<1>35. CASE BoardAsks
  <2>1. Has("banner")' => Has("banner")
    BY <1>35, <1>1, WireSaid, WireKept DEF BoardAsks, Says, PortType
  <2>2. Once("banner") => Once("banner")'
    BY <1>35, <1>1, WireSaid, WireKept DEF BoardAsks, Says, PortType
  <2>3. QED
    BY <1>35, <1>1, <2>1, <2>2 DEF BannerInv, BoardAsks
<1>36. CASE BoardVerified
  <2>1. Has("banner")' => Has("banner")
    BY <1>36, <1>1, WireSaid, WireKept DEF BoardVerified, Says, PortType
  <2>2. Once("banner") => Once("banner")'
    BY <1>36, <1>1, WireSaid, WireKept DEF BoardVerified, Says, PortType
  <2>3. QED
    BY <1>36, <1>1, <2>1, <2>2 DEF BannerInv, BoardVerified
<1>37. CASE UNCHANGED <<wire, worker, posted, enabled>>
  BY <1>37, <1>1, WireKept, WireEmptied, WireEmpty, Distinct
<1>38. QED
  BY <1>2, <1>3, <1>4, <1>5, <1>6, <1>7, <1>8, <1>9, <1>10, <1>11, <1>12, <1>13, <1>14, <1>15,
     <1>16, <1>17, <1>18, <1>19, <1>20, <1>21, <1>22, <1>23, <1>24, <1>25, <1>26, <1>27, <1>28,
     <1>29, <1>30, <1>31, <1>32, <1>33, <1>34, <1>35, <1>36, <1>37 DEF Next, Worker, Interface, Operator, Board, vars, flags,
     AskToStop, Decline, BoardFallsSilent

\* What the board is at is kept by every step.
LEMMA BoardStep ==
  ASSUME IInv, [Next]_vars
  PROVE  BoardInv'
<1> USE DEF flags, BoardInv, AtFile, BoardType
<1>1. /\ BoardInv /\ BoardType /\ QuietInv /\ WorkingInv /\ FlagsType /\ WorkerInv /\ WorkerType
      /\ Targets \in Nat /\ MaxChunks \in Nat
  BY FlashAssumption DEF IInv, TypeOK, PortType, ScreenType
<1>2. CASE DoSblHandshake
  BY <1>2, <1>1 DEF DoSblHandshake, At, Post, Idle
<1>3. CASE SendErase
  <2>1. Command("erase", 0, 0) /\ (hComm = "open" => Quiet)
    BY <1>3, <1>1 DEF SendErase, At, Quiet, Between, WorkingInv, WriteEnded
  <2>2. hComm = "open" => ~AtFile
    BY <1>1, <2>1 DEF QuietInv
  <2>3. QED
    BY <1>1, <2>1, <2>2, CommandMoves DEF BoardInv, AtFile, BoardType
<1>4. CASE SendHeader
  <2>1. PICK file \in 1..Targets, size \in 1..MaxChunks : Command("wipe", size, file)
    BY <1>4, <1>1 DEF SendHeader, At, WorkerInv, WorkerType
  <2>2. QED
    BY <1>1, <2>1, CommandMoves DEF BoardInv, AtFile, BoardType
<1>5. CASE OpenFileFails
  <2>1. Command("header", 0, 0) /\ (hComm = "open" => Quiet)
    BY <1>5, <1>1 DEF OpenFileFails, At, Quiet, Between, WorkingInv, WriteEnded
  <2>2. hComm = "open" => ~AtFile
    BY <1>1, <2>1 DEF QuietInv
  <2>3. QED
    BY <1>1, <2>1, <2>2, CommandMoves DEF BoardInv, AtFile, BoardType
<1>6. CASE SendChunk
  <2>1. CASE hComm = "open" /\ board.phase = "ask"
    <3>1. board' = [phase |-> IF board.left = 1 THEN "verify" ELSE "program", next |-> board.next, asked |-> FALSE,
                    left |-> board.left - 1, file |-> board.file]
      BY <1>6, <1>1, <2>1 DEF SendChunk, BoardType
    <3>2. board.left >= 1 /\ board.left \in Nat /\ board.file >= 1 /\ board.next = "none"
      BY <1>1, <2>1 DEF BoardInv, AtFile, BoardType
    <3>3. QED
      BY <3>1, <3>2 DEF BoardInv, AtFile
  <2>2. CASE ~(hComm = "open" /\ board.phase = "ask")
    <3>1. \/ board' = [board EXCEPT !.asked = board.asked /\ hComm # "open"]
          \/ board' = [board EXCEPT !.phase = "off", !.asked = FALSE]
      BY <1>6, <2>2 DEF SendChunk
    <3>2. QED
      BY <3>1, <1>1 DEF BoardInv, AtFile, BoardType
  <2>3. QED
    BY <2>1, <2>2
<1>7. CASE Exit
  BY <1>7, <1>1 DEF Exit, closePort, CanClick
<1>8. CASE BoardErased
  BY <1>8, <1>1 DEF BoardErased, Says
<1>9. CASE BoardAsks
  BY <1>9, <1>1 DEF BoardAsks, Says
<1>10. CASE BoardVerified
  BY <1>10, <1>1 DEF BoardVerified, Says
<1>11. CASE BoardFallsSilent
  BY <1>11, <1>1 DEF BoardFallsSilent
<1>12. CASE board' = board
  BY <1>12, <1>1
<1>13. QED
  BY <1>2, <1>3, <1>4, <1>5, <1>6, <1>7, <1>8, <1>9, <1>10, <1>11, <1>12
     DEF Next, Worker, Interface, Operator, Board, vars, flags,
     OpenForBoot, RequestAsicPeriAndSendSBL, OpenFails, EraseAcked, EraseTimesOut, SkipTarget,
     ChunkAcked, ReadFails, FileCompleted, SeesAbort, TimesOut, NextTarget, LeaveLoop, WriteEnds,
     rxThread, StopClosesPort, BannerEvent, OpenFailedEvent, OpenDoneEvent, EraseEndEvent,
     WriteEndEvent, OpenPort, ClosePort, Erase, Write, AskToStop, Decline, Stop, Enables

\* Between two files the board is at none.
LEMMA QuietStep ==
  ASSUME IInv, [Next]_vars
  PROVE  QuietInv'
<1> USE DEF flags, QuietInv, Quiet, AtFile, Between, Sending, BoardInv, FileInv, WorkerInv, PortInv,
   WorkingInv, DialogInv
<1>1. /\ BannerInv /\ BoardInv /\ BoardType /\ PortInv /\ WorkingInv /\ PostedInv /\ DialogInv
      /\ WorkerInv /\ WorkerType /\ FlagsType /\ PortType /\ WrittenType /\ QuietInv /\ FileInv
      /\ VerifiedInv /\ SuccessIsVerified /\ {"ack", "complete", "banner"} = Bytes /\ Targets \in Nat
  BY FlashAssumption DEF IInv, TypeOK, PortType, ScreenType, Bytes
<1>2. CASE OpenForBoot
  BY <1>2, <1>1 DEF OpenForBoot, At
<1>3. CASE RequestAsicPeriAndSendSBL
  BY <1>3, <1>1 DEF RequestAsicPeriAndSendSBL, At
<1>4. CASE DoSblHandshake
  BY <1>4, <1>1, WireEmptied DEF DoSblHandshake, At, Post, Idle
<1>5. CASE OpenFails
  BY <1>5, <1>1 DEF OpenFails, Post, Idle
<1>6. CASE SendErase
  <2>1. Command("erase", 0, 0) /\ (hComm = "open" => Quiet)
    BY <1>6, <1>1 DEF SendErase, At, Quiet, Between, WorkingInv, WriteEnded
  <2>2. hComm = "open" => ~AtFile /\ ~complete /\ ~Has("complete")
    BY <1>1, <2>1 DEF QuietInv
  <2>3. (Has("complete")' <=> Has("complete")) /\ complete' = complete /\ hComm' = hComm
    BY <1>6, <1>1, WireKept DEF SendErase
  <2>4. hComm = "open" => ~AtFile'
    BY <1>1, <2>1, <2>2, CommandMoves DEF AtFile, BoardType
  <2>5. QED
    BY <2>2, <2>3, <2>4 DEF QuietInv, Quiet
<1>7. CASE EraseAcked
  BY <1>7, <1>1, WireKept DEF EraseAcked, At, Post, Idle
<1>8. CASE EraseTimesOut
  BY <1>8, <1>1, WireKept DEF EraseTimesOut, At, Post, Idle
<1>9. CASE SkipTarget
  BY <1>9, <1>1, WireKept DEF SkipTarget, At
<1>10. CASE SendHeader
  BY <1>10, <1>1 DEF SendHeader, At, Command
<1>11. CASE OpenFileFails
  <2>1. Command("header", 0, 0) /\ (hComm = "open" => Quiet)
    BY <1>11, <1>1 DEF OpenFileFails, At, Quiet, Between, WorkingInv, WriteEnded
  <2>2. hComm = "open" => ~AtFile /\ ~complete /\ ~Has("complete")
    BY <1>1, <2>1 DEF QuietInv
  <2>3. (Has("complete")' <=> Has("complete")) /\ complete' = complete /\ hComm' = hComm
    BY <1>11, <1>1, WireKept DEF OpenFileFails
  <2>4. hComm = "open" => ~AtFile'
    BY <1>1, <2>1, <2>2, CommandMoves DEF AtFile, BoardType
  <2>5. QED
    BY <2>2, <2>3, <2>4 DEF QuietInv, Quiet
<1>12. CASE ChunkAcked
  BY <1>12, <1>1 DEF ChunkAcked, At
<1>13. CASE SendChunk
  BY <1>13, <1>1 DEF SendChunk, At
<1>14. CASE ReadFails
  BY <1>14, <1>1 DEF ReadFails, At
<1>15. CASE FileCompleted
  BY <1>15, <1>1, WireKept DEF FileCompleted, At
<1>16. CASE SeesAbort
  BY <1>16, <1>1 DEF SeesAbort, Unanswered, At
<1>17. CASE TimesOut
  BY <1>17, <1>1 DEF TimesOut, Unanswered, At
<1>18. CASE NextTarget
  BY <1>18, <1>1, WireKept DEF NextTarget, At
<1>19. CASE LeaveLoop
  BY <1>19, <1>1, WireKept DEF LeaveLoop, At
<1>20. CASE WriteEnds
  BY <1>20, <1>1 DEF WriteEnds, At, Post, Idle
<1>21. CASE rxThread
  <2>1. /\ \A b \in Bytes : (Has(b)' => Has(b)) /\ (Once(b) => Once(b)') /\ (Once(b) /\ Head(wire) = b => ~Has(b)')
        /\ Has(Head(wire)) /\ Head(wire) \in Bytes
    BY <1>21, <1>1, WireRead DEF rxThread, PortType
  <2>2. QED
    BY <1>21, <1>1, <2>1 DEF QuietInv, Quiet, AtFile, rxThread
<1>22. CASE StopClosesPort
  BY <1>22, <1>1 DEF StopClosesPort, closePort, AfterClose
<1>23. CASE WriteEndEvent
  BY <1>23, <1>1 DEF WriteEndEvent, Handle, closePort
<1>24. CASE OpenPort
  BY <1>24, <1>1 DEF OpenPort, Idle, CanClick
<1>25. CASE ClosePort
  BY <1>25, <1>1 DEF ClosePort, closePort, AfterClose, CanClick
<1>26. CASE Erase
  BY <1>26, <1>1, WireKept DEF Erase, Idle, CanClick
<1>27. CASE Write
  BY <1>27, <1>1, WireKept DEF Write, Idle, CanClick, NothingWritten
<1>28. CASE Stop
  BY <1>28, <1>1 DEF Stop
<1>29. CASE Exit
  BY <1>29, <1>1 DEF Exit, closePort, CanClick
<1>30. CASE BoardErased
  <2>1. Has("complete")' => Has("complete")
    BY <1>30, <1>1, WireSaid, WireKept DEF BoardErased, Says, PortType
  <2>2. QED
    BY <1>30, <1>1, <2>1 DEF QuietInv, Quiet, AtFile, BoardType, BoardErased
<1>31. CASE BoardAsks
  <2>1. Has("complete")' => Has("complete")
    BY <1>31, <1>1, WireSaid, WireKept DEF BoardAsks, Says, PortType
  <2>2. QED
    BY <1>31, <1>1, <2>1 DEF QuietInv, Quiet, AtFile, BoardType, BoardAsks
<1>32. CASE BoardVerified
  <2>1. Has("complete")' => Has("complete") \/ board.phase = "verify"
    BY <1>32, <1>1, WireSaid, WireKept DEF BoardVerified, Says, PortType
  <2>2. QED
    BY <1>32, <1>1, <2>1 DEF QuietInv, Quiet, AtFile, BoardType, BoardVerified
<1>33. CASE BoardFallsSilent
  BY <1>33, <1>1, WireKept DEF BoardFallsSilent
<1>34. CASE UNCHANGED <<hComm, wire, complete, writeAbortFlag, m_writeInProgress, worker, board>>
  BY <1>34, <1>1, WireKept, WireEmptied, WireEmpty, Clicked
<1>35. QED
  BY <1>2, <1>3, <1>4, <1>5, <1>6, <1>7, <1>8, <1>9, <1>10, <1>11, <1>12, <1>13, <1>14, <1>15,
     <1>16, <1>17, <1>18, <1>19, <1>20, <1>21, <1>22, <1>23, <1>24, <1>25, <1>26, <1>27, <1>28,
     <1>29, <1>30, <1>31, <1>32, <1>33, <1>34 DEF Next, Worker, Interface, Operator, Board, vars, flags,
     BannerEvent, OpenFailedEvent, OpenDoneEvent, EraseEndEvent, AskToStop, Decline, Enables

\* While a file is sent, the board is at no other one.
LEMMA FileStep ==
  ASSUME IInv, [Next]_vars
  PROVE  FileInv'
<1> USE DEF flags, FileInv, AtFile, Between, Sending, BoardInv, WorkerInv, PortInv, WorkingInv, DialogInv
<1>1. /\ BannerInv /\ BoardInv /\ BoardType /\ PortInv /\ WorkingInv /\ PostedInv /\ DialogInv
      /\ WorkerInv /\ WorkerType /\ FlagsType /\ PortType /\ WrittenType /\ QuietInv /\ FileInv
      /\ VerifiedInv /\ SuccessIsVerified /\ {"ack", "complete", "banner"} = Bytes /\ Targets \in Nat
  BY FlashAssumption DEF IInv, TypeOK, PortType, ScreenType, Bytes
<1>2. CASE OpenForBoot
  BY <1>2, <1>1 DEF OpenForBoot, At
<1>3. CASE RequestAsicPeriAndSendSBL
  BY <1>3, <1>1 DEF RequestAsicPeriAndSendSBL, At
<1>4. CASE DoSblHandshake
  BY <1>4, <1>1 DEF DoSblHandshake, At, Post, Idle
<1>5. CASE OpenFails
  BY <1>5, <1>1 DEF OpenFails, Post, Idle
<1>6. CASE SendErase
  BY <1>6, <1>1 DEF SendErase, At, Command
<1>7. CASE EraseAcked
  BY <1>7, <1>1 DEF EraseAcked, At, Post, Idle
<1>8. CASE EraseTimesOut
  BY <1>8, <1>1 DEF EraseTimesOut, At, Post, Idle
<1>9. CASE SkipTarget
  BY <1>9, <1>1 DEF SkipTarget, At
<1>10. CASE SendHeader
  <2>1. SUFFICES ASSUME hComm = "open"
                 PROVE  FileInv'
    BY <1>10 DEF FileInv, SendHeader
  <2>2. Quiet /\ ~complete /\ ~Has("complete") /\ ~AtFile
    BY <1>10, <1>1, <2>1 DEF QuietInv, Quiet, SendHeader, At, Between
  <2>3. (~Has("complete"))' /\ Once("complete")' /\ complete' = complete
    BY <1>10, <1>1, <2>2, WireKept DEF SendHeader, Has, Once
  <2>4. PICK file \in 1..Targets, size \in 1..MaxChunks : file = worker.i /\ Command("wipe", size, file)
    BY <1>10, <1>1 DEF SendHeader, At, WorkerInv, WorkerType
  <2>5. AtFile' => board'.file = worker.i
    BY <1>1, <2>1, <2>2, <2>4, CommandMoves DEF AtFile, BoardType
  <2>6. worker'.i = worker.i
    BY <1>10, <1>1 DEF SendHeader, WorkerType
  <2>7. QED
    BY <2>2, <2>3, <2>5, <2>6 DEF FileInv
<1>11. CASE OpenFileFails
  BY <1>11, <1>1 DEF OpenFileFails, At, Command
<1>12. CASE ChunkAcked
  BY <1>12, <1>1, WireKept DEF ChunkAcked, At
<1>13. CASE SendChunk
  <2>1. (Has("complete")' <=> Has("complete")) /\ (Once("complete")' <=> Once("complete"))
        /\ complete' = complete /\ hComm' = hComm /\ written' = written
    BY <1>13, <1>1, WireKept DEF SendChunk
  <2>2. worker'.i = worker.i /\ worker.pc \in Sending /\ worker'.pc \in Sending
    BY <1>13, <1>1 DEF SendChunk, At, WorkerType, Sending
  <2>3. board'.file = board.file /\ (AtFile' => AtFile) /\ (board'.phase = "header" => board.phase = "header")
    BY <1>13, <1>1 DEF SendChunk, BoardType, AtFile
  <2>4. QED
    BY <1>1, <2>1, <2>2, <2>3 DEF FileInv
<1>14. CASE ReadFails
  BY <1>14, <1>1, WireKept DEF ReadFails, At
<1>15. CASE FileCompleted
  BY <1>15, <1>1 DEF FileCompleted, At
<1>16. CASE SeesAbort
  BY <1>16, <1>1 DEF SeesAbort, Unanswered, At
<1>17. CASE TimesOut
  BY <1>17, <1>1 DEF TimesOut, Unanswered, At
<1>18. CASE NextTarget
  BY <1>18, <1>1 DEF NextTarget, At
<1>19. CASE LeaveLoop
  BY <1>19, <1>1 DEF LeaveLoop, At
<1>20. CASE WriteEnds
  BY <1>20, <1>1 DEF WriteEnds, At, Post, Idle
<1>21. CASE rxThread
  <2>1. /\ \A b \in Bytes : (Has(b)' => Has(b)) /\ (Once(b) => Once(b)') /\ (Once(b) /\ Head(wire) = b => ~Has(b)')
        /\ Has(Head(wire)) /\ Head(wire) \in Bytes
    BY <1>21, <1>1, WireRead DEF rxThread, PortType
  <2>2. QED
    BY <1>21, <1>1, <2>1 DEF FileInv, AtFile, rxThread
<1>22. CASE StopClosesPort
  BY <1>22, <1>1 DEF StopClosesPort, closePort, AfterClose
<1>23. CASE WriteEndEvent
  BY <1>23, <1>1 DEF WriteEndEvent, Handle, closePort
<1>24. CASE OpenPort
  BY <1>24, <1>1 DEF OpenPort, Idle, CanClick
<1>25. CASE ClosePort
  BY <1>25, <1>1 DEF ClosePort, closePort, AfterClose, CanClick
<1>26. CASE Erase
  BY <1>26, <1>1 DEF Erase, Idle, CanClick
<1>27. CASE Write
  BY <1>27, <1>1 DEF Write, Idle, CanClick, NothingWritten
<1>28. CASE Stop
  BY <1>28, <1>1, WireKept DEF Stop
<1>29. CASE Exit
  BY <1>29, <1>1 DEF Exit, closePort, CanClick
<1>30. CASE BoardErased
  <2>1. /\ Has("complete")' => Has("complete")
        /\ Once("complete") => Once("complete")'
    BY <1>30, <1>1, WireSaid, WireKept DEF BoardErased, Says, PortType
  <2>2. AtFile' => AtFile
    BY <1>30, <1>1 DEF AtFile, BoardType, BoardErased
  <2>3. board'.file = board.file /\ board'.phase # "header"
    BY <1>30, <1>1 DEF BoardType, BoardErased
  <2>4. QED
    BY <1>30, <1>1, <2>1, <2>2, <2>3 DEF FileInv, BoardErased
<1>31. CASE BoardAsks
  <2>1. /\ Has("complete")' => Has("complete")
        /\ Once("complete") => Once("complete")'
    BY <1>31, <1>1, WireSaid, WireKept DEF BoardAsks, Says, PortType
  <2>2. AtFile' => AtFile
    BY <1>31, <1>1 DEF AtFile, BoardType, BoardAsks
  <2>3. board'.file = board.file /\ board'.phase # "header"
    BY <1>31, <1>1 DEF BoardType, BoardAsks
  <2>4. QED
    BY <1>31, <1>1, <2>1, <2>2, <2>3 DEF FileInv, BoardAsks
<1>32. CASE BoardVerified
  <2>1. SUFFICES ASSUME hComm = "open", worker.pc \in Sending
                 PROVE  FileInv'
    BY <1>32 DEF FileInv, BoardVerified, Sending
  <2>2. AtFile /\ board.file = worker.i /\ ~complete /\ ~Has("complete") /\ board.next = "none"
    BY <1>32, <1>1, <2>1 DEF FileInv, BoardInv, AtFile, BoardVerified
  <2>3. Once("complete")'
    BY <1>32, <1>1, <2>1, <2>2, WireSaid DEF BoardVerified, Says, PortType
  <2>4. ~AtFile' /\ board'.phase = "menu"
    BY <1>32, <1>1, <2>2 DEF AtFile, BoardType, BoardVerified
  <2>5. worker.i \in written'.verified
    BY <1>32, <1>1, <2>2 DEF WrittenType, BoardVerified
  <2>6. QED
    BY <1>32, <1>1, <2>1, <2>2, <2>3, <2>4, <2>5 DEF FileInv, BoardVerified
<1>33. CASE BoardFallsSilent
  BY <1>33, <1>1, WireKept DEF BoardFallsSilent
<1>34. CASE UNCHANGED <<hComm, wire, complete, worker, board, written>>
  BY <1>34, <1>1, WireKept, WireEmptied, WireEmpty, Clicked
<1>35. QED
  BY <1>2, <1>3, <1>4, <1>5, <1>6, <1>7, <1>8, <1>9, <1>10, <1>11, <1>12, <1>13, <1>14, <1>15,
     <1>16, <1>17, <1>18, <1>19, <1>20, <1>21, <1>22, <1>23, <1>24, <1>25, <1>26, <1>27, <1>28,
     <1>29, <1>30, <1>31, <1>32, <1>33, <1>34 DEF Next, Worker, Interface, Operator, Board, vars, flags,
     BannerEvent, OpenFailedEvent, OpenDoneEvent, EraseEndEvent, AskToStop, Decline, Enables

\* Every file before the current one was verified.
LEMMA VerifiedStep ==
  ASSUME IInv, [Next]_vars
  PROVE  VerifiedInv'
<1> USE DEF flags, VerifiedInv, Between, Sending, WriteEnded, WrittenType, FileInv, WorkerInv, PortInv,
   WorkingInv, DialogInv
<1>1. /\ BannerInv /\ BoardInv /\ BoardType /\ PortInv /\ WorkingInv /\ PostedInv /\ DialogInv
      /\ WorkerInv /\ WorkerType /\ FlagsType /\ PortType /\ WrittenType /\ QuietInv /\ FileInv
      /\ VerifiedInv /\ SuccessIsVerified /\ {"ack", "complete", "banner"} = Bytes /\ Targets \in Nat
  BY FlashAssumption DEF IInv, TypeOK, PortType, ScreenType, Bytes
<1>2. CASE OpenForBoot
  BY <1>2, <1>1 DEF OpenForBoot, At
<1>3. CASE RequestAsicPeriAndSendSBL
  BY <1>3, <1>1, WireKept, WireEmptied, WireEmpty, Clicked, Distinct, EventFacts
     DEF RequestAsicPeriAndSendSBL, At
<1>4. CASE DoSblHandshake
  BY <1>4, <1>1 DEF DoSblHandshake, At,
     Post, Idle
<1>5. CASE OpenFails
  BY <1>5, <1>1 DEF OpenFails, Post, Idle
<1>6. CASE SendErase
  BY <1>6, <1>1 DEF SendErase, At, Command
<1>7. CASE EraseAcked
  BY <1>7, <1>1 DEF EraseAcked, At, Post,
     Idle
<1>8. CASE EraseTimesOut
  BY <1>8, <1>1 DEF EraseTimesOut, At,
     Post, Idle
<1>9. CASE SkipTarget
  BY <1>9, <1>1 DEF SkipTarget, At
<1>10. CASE SendHeader
  BY <1>10, <1>1 DEF SendHeader, At, Command
<1>11. CASE OpenFileFails
  BY <1>11, <1>1 DEF OpenFileFails, At,
     Command
<1>12. CASE ChunkAcked
  BY <1>12, <1>1 DEF ChunkAcked, At
<1>13. CASE SendChunk
  BY <1>13, <1>1 DEF SendChunk, At
<1>14. CASE ReadFails
  BY <1>14, <1>1 DEF ReadFails, At
<1>15. CASE FileCompleted
  BY <1>15, <1>1 DEF FileCompleted, At
<1>16. CASE SeesAbort
  BY <1>16, <1>1 DEF SeesAbort, Unanswered,
     At
<1>17. CASE TimesOut
  BY <1>17, <1>1 DEF TimesOut, Unanswered, At
<1>18. CASE NextTarget
  BY <1>18, <1>1 DEF NextTarget, At
<1>19. CASE LeaveLoop
  BY <1>19, <1>1 DEF LeaveLoop, At
<1>20. CASE WriteEnds
  BY <1>20, <1>1 DEF WriteEnds, At, Post,
     Idle
<1>21. CASE rxThread
  <2>1. \/ posted' = posted
        \/ posted = <<>> /\ posted' = <<"banner">>
        \/ posted = <<"openDone">> /\ posted' = <<"openDone", "banner">>
    BY <1>21, <1>1, BannerRead DEF PortType
  <2>2. UNCHANGED <<writeAbortFlag, m_writeInProgress, worker, written>>
    BY <1>21 DEF rxThread
  <2>3. QED
    BY <1>1, <2>1, <2>2, Distinct DEF VerifiedInv, WriteEnded
<1>22. CASE StopClosesPort
  BY <1>22, <1>1 DEF StopClosesPort,
     closePort, AfterClose
<1>23. CASE BannerEvent
  <2>1. Handle("banner")
    BY <1>23 DEF BannerEvent, Enables
  <2>2. posted = <<"banner">> /\ posted' = <<>>
    BY <1>1, <2>1, Handled
  <2>3. QED
    BY <1>23, <1>1, <2>2, Distinct DEF VerifiedInv, BannerEvent, Enables
<1>24. CASE OpenFailedEvent
  <2>1. Handle("openFailed")
    BY <1>24 DEF OpenFailedEvent, Enables
  <2>2. posted = <<"openFailed">> /\ posted' = <<>>
    BY <1>1, <2>1, Handled
  <2>3. QED
    BY <1>24, <1>1, <2>2, Distinct DEF VerifiedInv, OpenFailedEvent, Enables
<1>25. CASE OpenDoneEvent
  <2>1. Handle("openDone")
    BY <1>25 DEF OpenDoneEvent, Enables
  <2>2. \/ posted = <<"openDone">> /\ posted' = <<>>
        \/ posted = <<"openDone", "banner">> /\ posted' = <<"banner">>
    BY <1>1, <2>1, Handled
  <2>3. QED
    BY <1>25, <1>1, <2>2, Distinct DEF VerifiedInv, OpenDoneEvent, Enables
<1>26. CASE EraseEndEvent
  <2>1. Handle("eraseEnd")
    BY <1>26 DEF EraseEndEvent, Enables
  <2>2. posted = <<"eraseEnd">> /\ posted' = <<>>
    BY <1>1, <2>1, Handled
  <2>3. QED
    BY <1>26, <1>1, <2>2, Distinct DEF VerifiedInv, EraseEndEvent, Enables
<1>27. CASE WriteEndEvent
  <2>1. posted \in WriteEnded /\ posted' = <<>>
    BY <1>27, <1>1, Handled DEF WriteEndEvent, WriteEnded
  <2>2. worker' = worker /\ worker.kind # "write" /\ m_writeInProgress' = FALSE
    BY <1>27, <1>1, <2>1, Distinct DEF WorkingInv, WriteEndEvent
  <2>3. QED
    BY <2>1, <2>2, Distinct DEF VerifiedInv, WriteEnded
<1>28. CASE OpenPort
  <2>1. Free
    BY <1>28, Clicked DEF OpenPort
  <2>2. QED
    BY <1>28, <1>1, <2>1, Distinct DEF VerifiedInv, Free, OpenPort, Idle, WriteEnded
<1>29. CASE ClosePort
  <2>1. Free
    BY <1>29, Clicked DEF ClosePort
  <2>2. QED
    BY <1>29, <1>1, <2>1, Distinct DEF VerifiedInv, Free, ClosePort, Idle, WriteEnded
<1>30. CASE Erase
  <2>1. Free
    BY <1>30, Clicked DEF Erase
  <2>2. QED
    BY <1>30, <1>1, <2>1, Distinct DEF VerifiedInv, Free, Erase, Idle, WriteEnded
<1>31. CASE Write
  <2>1. Free
    BY <1>31, Clicked DEF Write
  <2>2. QED
    BY <1>31, <1>1, <2>1, Distinct DEF VerifiedInv, Free, Write, Idle, WriteEnded, NothingWritten
<1>32. CASE Stop
  BY <1>32, <1>1 DEF Stop
<1>33. CASE Exit
  <2>1. worker.kind = "write" => hComm = "closed"
    BY <1>33, <1>1 DEF Exit, CanClick, WorkingInv, Stopping, PortInv, PortType
  <2>2. posted' = posted /\ worker' = worker /\ written' = written /\ m_writeInProgress' = m_writeInProgress
        /\ (hComm = "closed" => writeAbortFlag' = writeAbortFlag)
    BY <1>33 DEF Exit, flags
  <2>3. QED
    BY <1>1, <2>1, <2>2 DEF VerifiedInv
<1>34. CASE BoardVerified
  BY <1>34, <1>1 DEF BoardVerified, Says
<1>35. CASE UNCHANGED <<writeAbortFlag, m_writeInProgress, worker, posted, written>>
  BY <1>35, <1>1, WireKept, WireEmptied, WireEmpty, Clicked, Distinct, EventFacts
<1>36. QED
  BY <1>2, <1>3, <1>4, <1>5, <1>6, <1>7, <1>8, <1>9, <1>10, <1>11, <1>12, <1>13, <1>14, <1>15,
     <1>16, <1>17, <1>18, <1>19, <1>20, <1>21, <1>22, <1>23, <1>24, <1>25, <1>26, <1>27, <1>28,
     <1>29, <1>30, <1>31, <1>32, <1>33, <1>34, <1>35 DEF Next, Worker, Interface, Operator, Board, vars, flags,
     AskToStop, Decline, BoardErased, BoardAsks, BoardFallsSilent

\* The report follows the files.
LEMMA SuccessStep ==
  ASSUME IInv, [Next]_vars
  PROVE  SuccessIsVerified'
<1>1. /\ WrittenType /\ FlagsType /\ WorkerType /\ PostedInv /\ WorkingInv /\ DialogInv /\ VerifiedInv /\ SuccessIsVerified
  BY DEF IInv, TypeOK
<1>2. CASE SendHeader
  BY <1>2, <1>1 DEF SuccessIsVerified, WrittenType, VerifiedInv, WorkingInv, DialogInv, SendHeader, At,
     Command
<1>3. CASE WriteEndEvent
  <2>1. CASE Handle("writeDone") /\ written' = [written EXCEPT !.report = "success"]
    <3>1. posted = <<"writeDone">>
      BY <1>1, <2>1, Handled
    <3>2. QED
      BY <1>1, <2>1, <3>1 DEF SuccessIsVerified, VerifiedInv, WrittenType
  <2>2. CASE Handle("writeAborted") /\ written' = [written EXCEPT !.report = "aborted"]
    BY <1>1, <2>2 DEF SuccessIsVerified, WrittenType
  <2>3. QED
    BY <1>3, <2>1, <2>2 DEF WriteEndEvent
<1>4. CASE Write
  BY <1>4 DEF SuccessIsVerified, Write, NothingWritten
<1>5. CASE Stop
  BY <1>5, <1>1 DEF SuccessIsVerified, WrittenType, VerifiedInv, WorkingInv, DialogInv, Stop
<1>6. CASE BoardVerified
  BY <1>6, <1>1 DEF SuccessIsVerified, WrittenType, VerifiedInv, WorkingInv, DialogInv, BoardVerified, Says
<1>7. CASE written' = written
  BY <1>7, <1>1 DEF SuccessIsVerified
<1>8. QED
  BY <1>2, <1>3, <1>4, <1>5, <1>6, <1>7 DEF Next, Worker, Interface, Operator, Board, vars, flags,
     OpenForBoot, RequestAsicPeriAndSendSBL, DoSblHandshake, OpenFails, SendErase, EraseAcked,
     EraseTimesOut, SkipTarget, OpenFileFails, ChunkAcked, SendChunk, ReadFails, FileCompleted,
     SeesAbort, TimesOut, NextTarget, LeaveLoop, WriteEnds, rxThread, StopClosesPort, BannerEvent,
     OpenFailedEvent, OpenDoneEvent, EraseEndEvent, OpenPort, ClosePort, Erase, AskToStop, Decline,
     Exit, BoardErased, BoardAsks, BoardFallsSilent, Enables

\* What the board has asked for, by where the worker is: between files,
LEMMA AskQuietStep ==
  ASSUME IInv, [Next]_vars, hComm' = "open", ~session'.late
  PROVE  AskQuiet'
<1> USE DEF flags, AskQuiet, AskErase, AskDone, Quiet, Acked, AckedOnce, At, AskInv, Between, Sending,
   WorkerInv, PortInv, WorkingInv, WriteEnded
<1>1. /\ AskInv /\ QuietInv /\ FileInv /\ BoardInv /\ BoardType /\ PortInv /\ PortType /\ WorkerInv /\ WorkerType
      /\ WorkingInv /\ FlagsType /\ WrittenType /\ {"ack", "complete"} \subseteq Bytes /\ Targets \in Nat /\ MaxChunks \in Nat
  BY FlashAssumption DEF IInv, TypeOK, PortType, ScreenType, Bytes
<1>2. CASE OpenForBoot
  BY <1>2, <1>1 DEF OpenForBoot, At
<1>3. CASE RequestAsicPeriAndSendSBL
  BY <1>3, <1>1 DEF RequestAsicPeriAndSendSBL, At
<1>4. CASE DoSblHandshake
  BY <1>4, <1>1, WireEmptied DEF DoSblHandshake, At, Post, Idle
<1>5. CASE OpenFails
  BY <1>5, <1>1 DEF OpenFails, Post, Idle
<1>6. CASE SendErase
  BY <1>6, <1>1 DEF SendErase, At, Command
<1>7. CASE EraseAcked
  BY <1>7, <1>1, WireKept DEF EraseAcked, At, Post, Idle
<1>8. CASE EraseTimesOut
  BY <1>8, <1>1 DEF EraseTimesOut, At, Post, Idle
<1>9. CASE SkipTarget
  BY <1>9, <1>1, WireKept DEF SkipTarget, At
<1>10. CASE SendHeader
  BY <1>10, <1>1 DEF SendHeader, At, Command
<1>11. CASE OpenFileFails
  <2>1. hComm = "open" /\ Quiet /\ ~At("erase", "poll") /\ AskQuiet
    BY <1>11, <1>1 DEF OpenFileFails, At, Quiet, Between, AskInv
  <2>2. Command("header", 0, 0) /\ worker'.kind = "write" /\ ackReceived' = ackReceived
    BY <1>11, <1>1 DEF OpenFileFails, At, WorkerType
  <2>3. ~Has("ack")' /\ ~Acked'
    BY <1>11, <1>1, <2>1, <2>2, WireKept DEF AskQuiet, Acked, OpenFileFails
  <2>4. QED
    BY <1>1, <2>1, <2>2, <2>3, CommandMoves DEF AskQuiet
<1>12. CASE ChunkAcked
  BY <1>12, <1>1 DEF ChunkAcked, At
<1>13. CASE SendChunk
  BY <1>13, <1>1 DEF SendChunk, At
<1>14. CASE ReadFails
  BY <1>14, <1>1 DEF ReadFails, At
<1>15. CASE FileCompleted
  BY <1>15, <1>1, WireKept DEF FileCompleted, At
<1>16. CASE SeesAbort
  BY <1>16, <1>1 DEF SeesAbort, Unanswered, At
<1>17. CASE TimesOut
  BY <1>17, <1>1 DEF TimesOut, Unanswered, At
<1>18. CASE NextTarget
  BY <1>18, <1>1, WireKept DEF NextTarget, At
<1>19. CASE LeaveLoop
  BY <1>19, <1>1, WireKept DEF LeaveLoop, At
<1>20. CASE WriteEnds
  BY <1>20, <1>1 DEF WriteEnds, At, Post, Idle
<1>21. CASE rxThread
  <2>1. /\ \A b \in Bytes : (Has(b)' => Has(b)) /\ (Once(b) => Once(b)') /\ (Once(b) /\ Head(wire) = b => ~Has(b)')
        /\ Has(Head(wire)) /\ Head(wire) \in Bytes
    BY <1>21, <1>1, WireRead DEF rxThread, PortType
  <2>2. ackReceived' = (ackReceived \/ Head(wire) = "ack") /\ complete' = (complete \/ Head(wire) = "complete")
        /\ UNCHANGED <<hComm, m_writeInProgress, writeAbortFlag, worker, board, session>>
    BY <1>21 DEF rxThread
  <2>3. hComm = "open" /\ ~session.late /\ AskQuiet
    BY <1>1, <2>2 DEF AskInv
  <2>4. QED
    BY <1>1, <2>1, <2>2, <2>3 DEF AskQuiet, Acked, AckedOnce, At, Quiet
<1>22. CASE StopClosesPort
  BY <1>22, <1>1 DEF StopClosesPort, closePort,
     AfterClose
<1>23. CASE WriteEndEvent
  BY <1>23, <1>1 DEF WriteEndEvent, Handle, closePort
<1>24. CASE OpenPort
  BY <1>24, <1>1 DEF OpenPort, Idle, CanClick
<1>25. CASE ClosePort
  BY <1>25, <1>1 DEF ClosePort, closePort, AfterClose,
     CanClick
<1>26. CASE Erase
  BY <1>26, <1>1, WireKept DEF Erase, Idle, CanClick
<1>27. CASE Write
  BY <1>27, <1>1, WireKept DEF Write, Idle, CanClick,
     NothingWritten
<1>28. CASE Stop
  BY <1>28, <1>1, WireKept DEF Stop
<1>29. CASE Exit
  BY <1>29, <1>1 DEF Exit, closePort, CanClick
<1>30. CASE BoardErased
  BY <1>30, <1>1 DEF BoardErased, Says
<1>31. CASE BoardAsks
  BY <1>31, <1>1 DEF BoardAsks, Says
<1>32. CASE BoardVerified
  BY <1>32, <1>1 DEF BoardVerified, Says
<1>33. CASE BoardFallsSilent
  BY <1>33, <1>1, WireKept DEF BoardFallsSilent
<1>34. CASE UNCHANGED <<hComm, wire, ackReceived, complete, writeAbortFlag, m_writeInProgress, worker, board, session>>
  BY <1>34, <1>1, WireKept
<1>35. QED
  BY <1>2, <1>3, <1>4, <1>5, <1>6, <1>7, <1>8, <1>9, <1>10, <1>11, <1>12, <1>13, <1>14, <1>15,
     <1>16, <1>17, <1>18, <1>19, <1>20, <1>21, <1>22, <1>23, <1>24, <1>25, <1>26, <1>27, <1>28,
     <1>29, <1>30, <1>31, <1>32, <1>33, <1>34 DEF Next, Worker, Interface, Operator, Board, vars, flags,
     BannerEvent, OpenFailedEvent, OpenDoneEvent, EraseEndEvent, AskToStop, Decline, Enables

\* while an erase is waited for,
LEMMA AskEraseStep ==
  ASSUME IInv, [Next]_vars, hComm' = "open", ~session'.late
  PROVE  AskErase'
<1> USE DEF flags, AskErase, AskQuiet, Quiet, Acked, AckedOnce, At, AskInv, Between, Sending, WorkerInv,
   PortInv, WorkingInv, WriteEnded
<1>1. /\ AskInv /\ QuietInv /\ FileInv /\ BoardInv /\ BoardType /\ PortInv /\ PortType /\ WorkerInv /\ WorkerType
      /\ WorkingInv /\ FlagsType /\ WrittenType /\ {"ack", "complete"} \subseteq Bytes /\ Targets \in Nat /\ MaxChunks \in Nat
  BY FlashAssumption DEF IInv, TypeOK, PortType, ScreenType, Bytes
<1>2. CASE OpenForBoot
  BY <1>2, <1>1 DEF OpenForBoot, At
<1>3. CASE RequestAsicPeriAndSendSBL
  BY <1>3, <1>1 DEF RequestAsicPeriAndSendSBL, At
<1>4. CASE DoSblHandshake
  BY <1>4, <1>1 DEF DoSblHandshake, At, Post, Idle
<1>5. CASE OpenFails
  BY <1>5, <1>1 DEF OpenFails, Post, Idle
<1>6. CASE SendErase
  <2>1. hComm = "open" /\ Quiet /\ ~At("erase", "poll") /\ AskQuiet /\ worker.kind = "erase"
    BY <1>6, <1>1, Distinct DEF SendErase, At, Quiet, AskInv, WorkingInv
  <2>2. Command("erase", 0, 0) /\ ackReceived' = FALSE
    BY <1>6 DEF SendErase
  <2>3. ~Has("ack")' /\ ~Acked' /\ AckedOnce'
    BY <1>6, <1>1, <2>1, <2>2, WireKept DEF AskQuiet, Acked, AckedOnce, SendErase, Has, Once
  <2>4. QED
    BY <1>1, <2>1, <2>2, <2>3, CommandMoves DEF AskQuiet, AskErase
<1>7. CASE EraseAcked
  BY <1>7, <1>1 DEF EraseAcked, At, Post, Idle
<1>8. CASE EraseTimesOut
  BY <1>8, <1>1 DEF EraseTimesOut, At, Post, Idle
<1>9. CASE SkipTarget
  BY <1>9, <1>1 DEF SkipTarget, At
<1>10. CASE SendHeader
  BY <1>10, <1>1 DEF SendHeader, At, Command
<1>11. CASE OpenFileFails
  BY <1>11, <1>1 DEF OpenFileFails, At, Command
<1>12. CASE ChunkAcked
  BY <1>12, <1>1 DEF ChunkAcked, At
<1>13. CASE SendChunk
  BY <1>13, <1>1 DEF SendChunk, At
<1>14. CASE ReadFails
  BY <1>14, <1>1 DEF ReadFails, At
<1>15. CASE FileCompleted
  BY <1>15, <1>1 DEF FileCompleted, At
<1>16. CASE SeesAbort
  BY <1>16, <1>1 DEF SeesAbort, Unanswered, At
<1>17. CASE TimesOut
  BY <1>17, <1>1 DEF TimesOut, Unanswered, At
<1>18. CASE NextTarget
  BY <1>18, <1>1 DEF NextTarget, At
<1>19. CASE LeaveLoop
  BY <1>19, <1>1 DEF LeaveLoop, At
<1>20. CASE WriteEnds
  BY <1>20, <1>1 DEF WriteEnds, At, Post, Idle
<1>21. CASE rxThread
  <2>1. /\ \A b \in Bytes : (Has(b)' => Has(b)) /\ (Once(b) => Once(b)') /\ (Once(b) /\ Head(wire) = b => ~Has(b)')
        /\ Has(Head(wire)) /\ Head(wire) \in Bytes
    BY <1>21, <1>1, WireRead DEF rxThread, PortType
  <2>2. ackReceived' = (ackReceived \/ Head(wire) = "ack") /\ complete' = (complete \/ Head(wire) = "complete")
        /\ UNCHANGED <<hComm, m_writeInProgress, writeAbortFlag, worker, board, session>>
    BY <1>21 DEF rxThread
  <2>3. hComm = "open" /\ ~session.late /\ AskErase
    BY <1>1, <2>2 DEF AskInv
  <2>4. QED
    BY <1>1, <2>1, <2>2, <2>3 DEF AskErase, Acked, AckedOnce, At, Quiet
<1>22. CASE StopClosesPort
  BY <1>22, <1>1 DEF StopClosesPort, closePort,
     AfterClose
<1>23. CASE WriteEndEvent
  BY <1>23, <1>1 DEF WriteEndEvent, Handle, closePort
<1>24. CASE OpenPort
  BY <1>24, <1>1 DEF OpenPort, Idle, CanClick
<1>25. CASE ClosePort
  BY <1>25, <1>1 DEF ClosePort, closePort, AfterClose,
     CanClick
<1>26. CASE Erase
  BY <1>26, <1>1 DEF Erase, Idle, CanClick
<1>27. CASE Write
  BY <1>27, <1>1 DEF Write, Idle, CanClick,
     NothingWritten
<1>28. CASE Stop
  BY <1>28, <1>1 DEF Stop
<1>29. CASE Exit
  BY <1>29, <1>1 DEF Exit, closePort, CanClick
<1>30. CASE BoardErased
  <2>1. SUFFICES ASSUME At("erase", "poll")
                 PROVE  AskErase'
    BY <1>30 DEF AskErase, At, BoardErased
  <2>2. hComm = "open" /\ ~Acked /\ ~board.asked /\ board.next = "none" /\ ackReceived' = ackReceived
    BY <1>30, <1>1, <2>1 DEF AskInv, AskErase, BoardErased
  <2>3. AckedOnce'
    BY <1>30, <1>1, <2>2, WireSaid DEF AckedOnce, Acked, BoardErased, Says, PortType
  <2>4. board' = [phase |-> "menu", next |-> "none", asked |-> board.asked, left |-> board.left, file |-> board.file]
    BY <1>30, <1>1, <2>2 DEF BoardErased, BoardType
  <2>5. QED
    BY <2>2, <2>3, <2>4 DEF AskErase
<1>31. CASE BoardAsks
  BY <1>31, <1>1 DEF BoardAsks, Says
<1>32. CASE BoardVerified
  BY <1>32, <1>1 DEF BoardVerified, Says
<1>33. CASE BoardFallsSilent
  BY <1>33, <1>1, WireKept DEF BoardFallsSilent
<1>34. CASE UNCHANGED <<hComm, wire, ackReceived, complete, writeAbortFlag, m_writeInProgress, worker, board, session>>
  BY <1>34, <1>1, WireKept
<1>35. QED
  BY <1>2, <1>3, <1>4, <1>5, <1>6, <1>7, <1>8, <1>9, <1>10, <1>11, <1>12, <1>13, <1>14, <1>15,
     <1>16, <1>17, <1>18, <1>19, <1>20, <1>21, <1>22, <1>23, <1>24, <1>25, <1>26, <1>27, <1>28,
     <1>29, <1>30, <1>31, <1>32, <1>33, <1>34 DEF Next, Worker, Interface, Operator, Board, vars, flags,
     BannerEvent, OpenFailedEvent, OpenDoneEvent, EraseEndEvent, AskToStop, Decline, Enables

\* while a chunk's turn is waited for,
LEMMA AskAckStep ==
  ASSUME IInv, [Next]_vars, hComm' = "open", ~session'.late
  PROVE  AskAck'
<1> USE DEF flags, AskAck, AskQuiet, AskChunk, Quiet, Acked, AckedOnce, At, AskInv, Between, Sending,
   WorkerInv, PortInv, WorkingInv, WriteEnded
<1>1. /\ AskInv /\ QuietInv /\ FileInv /\ BoardInv /\ BoardType /\ PortInv /\ PortType /\ WorkerInv /\ WorkerType
      /\ WorkingInv /\ FlagsType /\ WrittenType /\ {"ack", "complete"} \subseteq Bytes /\ Targets \in Nat /\ MaxChunks \in Nat
  BY FlashAssumption DEF IInv, TypeOK, PortType, ScreenType, Bytes
<1>2. CASE OpenForBoot
  BY <1>2, <1>1 DEF OpenForBoot, At
<1>3. CASE RequestAsicPeriAndSendSBL
  BY <1>3, <1>1 DEF RequestAsicPeriAndSendSBL, At
<1>4. CASE DoSblHandshake
  BY <1>4, <1>1 DEF DoSblHandshake, At, Post, Idle
<1>5. CASE OpenFails
  BY <1>5, <1>1 DEF OpenFails, Post, Idle
<1>6. CASE SendErase
  BY <1>6, <1>1 DEF SendErase, At, Command
<1>7. CASE EraseAcked
  BY <1>7, <1>1 DEF EraseAcked, At, Post, Idle
<1>8. CASE EraseTimesOut
  BY <1>8, <1>1 DEF EraseTimesOut, At, Post, Idle
<1>9. CASE SkipTarget
  BY <1>9, <1>1 DEF SkipTarget, At
<1>10. CASE SendHeader
  <2>1. hComm = "open" /\ Quiet /\ ~At("erase", "poll") /\ AskQuiet /\ ~complete /\ ~Has("complete")
    BY <1>10, <1>1 DEF SendHeader, At, Quiet, Between, AskInv, QuietInv
  <2>2. PICK size \in 1..MaxChunks : /\ Command("wipe", size, worker.i)
                                    /\ worker' = [worker EXCEPT !.pc = "ack", !.sent = 0, !.size = size]
    BY <1>10 DEF SendHeader
  <2>3. ~Has("ack")' /\ ~Acked' /\ AckedOnce' /\ ~complete' /\ ~Has("complete")'
    BY <1>10, <1>1, <2>1, WireKept DEF AskQuiet, Acked, AckedOnce, SendHeader, Has, Once
  <2>4. PICK file \in 1..Targets : file = worker.i
    BY <1>10, <1>1 DEF SendHeader, At, WorkerInv, WorkerType
  <2>5. board'.next = "none" /\ board'.asked = FALSE /\ board'.phase \in {"wipe", "off", "header"}
        /\ (board'.phase = "wipe" => board'.left = size)
    BY <1>1, <2>1, <2>2, <2>4, CommandMoves DEF AskQuiet
  <2>6. worker'.size = size /\ worker'.sent = 0 /\ size - 0 = size
    BY <1>1, <2>2 DEF WorkerType
  <2>7. QED
    BY <2>3, <2>5, <2>6 DEF AskAck
<1>11. CASE OpenFileFails
  BY <1>11, <1>1 DEF OpenFileFails, At, Command
<1>12. CASE ChunkAcked
  BY <1>12, <1>1 DEF ChunkAcked, At
<1>13. CASE SendChunk
  <2>1. hComm = "open" /\ ~session.late
    BY <1>13, <1>1 DEF SendChunk, WrittenType
  <2>2. At("write", "chunk") /\ AskChunk
    BY <1>13, <1>1, <2>1 DEF SendChunk, AskInv
  <2>3. worker' = [worker EXCEPT !.sent = worker.sent + 1,
                                 !.pc = IF worker.sent + 1 < worker.size THEN "ack" ELSE "done"]
    BY <1>13 DEF SendChunk
  <2>4. SUFFICES ASSUME worker.sent + 1 < worker.size
                 PROVE  AskAck'
    BY <1>1, <2>3 DEF AskAck, At, WorkerType
  <2>5. worker'.sent = worker.sent + 1 /\ worker'.size = worker.size /\ worker.sent \in Nat /\ worker.size \in Nat
    BY <1>1, <2>3 DEF WorkerType
  <2>6. ~Acked' /\ AckedOnce' /\ ~complete' /\ ~Has("complete")'
    BY <1>13, <1>1, <2>2, WireKept DEF AskChunk, Acked, AckedOnce, SendChunk, Has, Once
  <2>7. CASE board.phase = "ask"
    <3>1. board.left = worker.size - worker.sent /\ board.left # 1
      BY <2>2, <2>4, <2>5, <2>7 DEF AskChunk
    <3>2. board' = [phase |-> "program", next |-> board.next, asked |-> FALSE, left |-> board.left - 1, file |-> board.file]
      BY <1>13, <1>1, <2>1, <2>7, <3>1 DEF SendChunk, BoardType
    <3>3. board.left - 1 = worker'.size - worker'.sent
      BY <2>5, <3>1
    <3>4. QED
      BY <2>2, <2>6, <3>2, <3>3 DEF AskAck, AskChunk
  <2>8. CASE board.phase # "ask"
    <3>1. board'.phase = "off" /\ board'.next = "none"
      BY <1>13, <1>1, <2>2, <2>8 DEF SendChunk, BoardType, AskChunk
    <3>2. QED
      BY <2>6, <3>1 DEF AskAck, Acked
  <2>9. QED
    BY <2>7, <2>8
<1>14. CASE ReadFails
  BY <1>14, <1>1 DEF ReadFails, At
<1>15. CASE FileCompleted
  BY <1>15, <1>1 DEF FileCompleted, At
<1>16. CASE SeesAbort
  BY <1>16, <1>1 DEF SeesAbort, Unanswered, At
<1>17. CASE TimesOut
  BY <1>17, <1>1 DEF TimesOut, Unanswered, At
<1>18. CASE NextTarget
  BY <1>18, <1>1 DEF NextTarget, At
<1>19. CASE LeaveLoop
  BY <1>19, <1>1 DEF LeaveLoop, At
<1>20. CASE WriteEnds
  BY <1>20, <1>1 DEF WriteEnds, At, Post, Idle
<1>21. CASE rxThread
  <2>1. /\ \A b \in Bytes : (Has(b)' => Has(b)) /\ (Once(b) => Once(b)') /\ (Once(b) /\ Head(wire) = b => ~Has(b)')
        /\ Has(Head(wire)) /\ Head(wire) \in Bytes
    BY <1>21, <1>1, WireRead DEF rxThread, PortType
  <2>2. ackReceived' = (ackReceived \/ Head(wire) = "ack") /\ complete' = (complete \/ Head(wire) = "complete")
        /\ UNCHANGED <<hComm, m_writeInProgress, writeAbortFlag, worker, board, session>>
    BY <1>21 DEF rxThread
  <2>3. hComm = "open" /\ ~session.late /\ AskAck
    BY <1>1, <2>2 DEF AskInv
  <2>4. QED
    BY <1>1, <2>1, <2>2, <2>3 DEF AskAck, Acked, AckedOnce, At, Quiet
<1>22. CASE StopClosesPort
  BY <1>22, <1>1 DEF StopClosesPort, closePort,
     AfterClose
<1>23. CASE WriteEndEvent
  BY <1>23, <1>1 DEF WriteEndEvent, Handle, closePort
<1>24. CASE OpenPort
  BY <1>24, <1>1 DEF OpenPort, Idle, CanClick
<1>25. CASE ClosePort
  BY <1>25, <1>1 DEF ClosePort, closePort, AfterClose,
     CanClick
<1>26. CASE Erase
  BY <1>26, <1>1 DEF Erase, Idle, CanClick
<1>27. CASE Write
  BY <1>27, <1>1 DEF Write, Idle, CanClick,
     NothingWritten
<1>28. CASE Stop
  BY <1>28, <1>1, WireKept DEF Stop
<1>29. CASE Exit
  BY <1>29, <1>1 DEF Exit, closePort, CanClick
<1>30. CASE BoardErased
  BY <1>30, <1>1 DEF BoardErased, Says
<1>31. CASE BoardAsks
  <2>1. SUFFICES ASSUME At("write", "ack")
                 PROVE  AskAck'
    BY <1>31 DEF AskAck, At, BoardAsks
  <2>2. hComm = "open" /\ AskAck /\ ~Acked /\ ackReceived' = ackReceived /\ complete' = complete /\ worker' = worker
    BY <1>31, <1>1, <2>1 DEF AskInv, AskAck, BoardAsks
  <2>3. AckedOnce' /\ ~Has("complete")'
    BY <1>31, <1>1, <2>1, <2>2, WireSaid DEF AckedOnce, Acked, AskAck, BoardAsks, Says, PortType
  <2>4. board' = [phase |-> "ask", next |-> board.next, asked |-> TRUE, left |-> board.left, file |-> board.file]
    BY <1>31, <1>1 DEF BoardAsks, BoardType
  <2>5. QED
    BY <1>31, <2>1, <2>2, <2>3, <2>4 DEF AskAck, BoardAsks
<1>32. CASE BoardVerified
  BY <1>32, <1>1 DEF BoardVerified, Says
<1>33. CASE BoardFallsSilent
  BY <1>33, <1>1, WireKept DEF BoardFallsSilent
<1>34. CASE UNCHANGED <<hComm, wire, ackReceived, complete, writeAbortFlag, m_writeInProgress, worker, board, session>>
  BY <1>34, <1>1, WireKept
<1>35. QED
  BY <1>2, <1>3, <1>4, <1>5, <1>6, <1>7, <1>8, <1>9, <1>10, <1>11, <1>12, <1>13, <1>14, <1>15,
     <1>16, <1>17, <1>18, <1>19, <1>20, <1>21, <1>22, <1>23, <1>24, <1>25, <1>26, <1>27, <1>28,
     <1>29, <1>30, <1>31, <1>32, <1>33, <1>34 DEF Next, Worker, Interface, Operator, Board, vars, flags,
     BannerEvent, OpenFailedEvent, OpenDoneEvent, EraseEndEvent, AskToStop, Decline, Enables

\* when a chunk is sent,
LEMMA AskChunkStep ==
  ASSUME IInv, [Next]_vars, hComm' = "open", ~session'.late
  PROVE  AskChunk'
<1> USE DEF flags, AskChunk, AskAck, Quiet, Acked, AckedOnce, At, AskInv, Between, Sending, WorkerInv,
   PortInv, WorkingInv, WriteEnded
<1>1. /\ AskInv /\ QuietInv /\ FileInv /\ BoardInv /\ BoardType /\ PortInv /\ PortType /\ WorkerInv /\ WorkerType
      /\ WorkingInv /\ FlagsType /\ WrittenType /\ {"ack", "complete"} \subseteq Bytes /\ Targets \in Nat /\ MaxChunks \in Nat
  BY FlashAssumption DEF IInv, TypeOK, PortType, ScreenType, Bytes
<1>2. CASE OpenForBoot
  BY <1>2, <1>1 DEF OpenForBoot, At
<1>3. CASE RequestAsicPeriAndSendSBL
  BY <1>3, <1>1 DEF RequestAsicPeriAndSendSBL, At
<1>4. CASE DoSblHandshake
  BY <1>4, <1>1 DEF DoSblHandshake, At, Post, Idle
<1>5. CASE OpenFails
  BY <1>5, <1>1 DEF OpenFails, Post, Idle
<1>6. CASE SendErase
  BY <1>6, <1>1 DEF SendErase, At, Command
<1>7. CASE EraseAcked
  BY <1>7, <1>1 DEF EraseAcked, At, Post, Idle
<1>8. CASE EraseTimesOut
  BY <1>8, <1>1 DEF EraseTimesOut, At, Post, Idle
<1>9. CASE SkipTarget
  BY <1>9, <1>1 DEF SkipTarget, At
<1>10. CASE SendHeader
  BY <1>10, <1>1 DEF SendHeader, At, Command
<1>11. CASE OpenFileFails
  BY <1>11, <1>1 DEF OpenFileFails, At, Command
<1>12. CASE ChunkAcked
  <2>1. hComm = "open" /\ At("write", "ack") /\ AskAck /\ ackReceived
    BY <1>12, <1>1 DEF ChunkAcked, AskInv
  <2>2. board.asked /\ ~Has("ack") /\ ~complete /\ ~Has("complete")
    BY <2>1 DEF AskAck, Acked, AckedOnce
  <2>3. ~Has("ack")' /\ ~complete' /\ ~Has("complete")' /\ board' = board
    BY <1>12, <1>1, <2>2, WireKept DEF ChunkAcked
  <2>4. worker'.size = worker.size /\ worker'.sent = worker.sent
    BY <1>12, <1>1 DEF ChunkAcked, WorkerType
  <2>5. QED
    BY <2>1, <2>2, <2>3, <2>4 DEF AskAck, AskChunk
<1>13. CASE SendChunk
  BY <1>13, <1>1 DEF SendChunk, At
<1>14. CASE ReadFails
  BY <1>14, <1>1 DEF ReadFails, At
<1>15. CASE FileCompleted
  BY <1>15, <1>1 DEF FileCompleted, At
<1>16. CASE SeesAbort
  BY <1>16, <1>1 DEF SeesAbort, Unanswered, At
<1>17. CASE TimesOut
  BY <1>17, <1>1 DEF TimesOut, Unanswered, At
<1>18. CASE NextTarget
  BY <1>18, <1>1 DEF NextTarget, At
<1>19. CASE LeaveLoop
  BY <1>19, <1>1 DEF LeaveLoop, At
<1>20. CASE WriteEnds
  BY <1>20, <1>1 DEF WriteEnds, At, Post, Idle
<1>21. CASE rxThread
  <2>1. /\ \A b \in Bytes : (Has(b)' => Has(b)) /\ (Once(b) => Once(b)') /\ (Once(b) /\ Head(wire) = b => ~Has(b)')
        /\ Has(Head(wire)) /\ Head(wire) \in Bytes
    BY <1>21, <1>1, WireRead DEF rxThread, PortType
  <2>2. ackReceived' = (ackReceived \/ Head(wire) = "ack") /\ complete' = (complete \/ Head(wire) = "complete")
        /\ UNCHANGED <<hComm, m_writeInProgress, writeAbortFlag, worker, board, session>>
    BY <1>21 DEF rxThread
  <2>3. hComm = "open" /\ ~session.late /\ AskChunk
    BY <1>1, <2>2 DEF AskInv
  <2>4. QED
    BY <1>1, <2>1, <2>2, <2>3 DEF AskChunk, Acked, AckedOnce, At, Quiet
<1>22. CASE StopClosesPort
  BY <1>22, <1>1 DEF StopClosesPort, closePort,
     AfterClose
<1>23. CASE WriteEndEvent
  BY <1>23, <1>1 DEF WriteEndEvent, Handle, closePort
<1>24. CASE OpenPort
  BY <1>24, <1>1 DEF OpenPort, Idle, CanClick
<1>25. CASE ClosePort
  BY <1>25, <1>1 DEF ClosePort, closePort, AfterClose,
     CanClick
<1>26. CASE Erase
  BY <1>26, <1>1 DEF Erase, Idle, CanClick
<1>27. CASE Write
  BY <1>27, <1>1 DEF Write, Idle, CanClick,
     NothingWritten
<1>28. CASE Stop
  BY <1>28, <1>1, WireKept DEF Stop
<1>29. CASE Exit
  BY <1>29, <1>1 DEF Exit, closePort, CanClick
<1>30. CASE BoardErased
  BY <1>30, <1>1 DEF BoardErased, Says
<1>31. CASE BoardAsks
  BY <1>31, <1>1 DEF BoardAsks, Says
<1>32. CASE BoardVerified
  BY <1>32, <1>1 DEF BoardVerified, Says
<1>33. CASE BoardFallsSilent
  BY <1>33, <1>1, WireKept DEF BoardFallsSilent
<1>34. CASE UNCHANGED <<hComm, wire, ackReceived, complete, writeAbortFlag, m_writeInProgress, worker, board, session>>
  BY <1>34, <1>1, WireKept
<1>35. QED
  BY <1>2, <1>3, <1>4, <1>5, <1>6, <1>7, <1>8, <1>9, <1>10, <1>11, <1>12, <1>13, <1>14, <1>15,
     <1>16, <1>17, <1>18, <1>19, <1>20, <1>21, <1>22, <1>23, <1>24, <1>25, <1>26, <1>27, <1>28,
     <1>29, <1>30, <1>31, <1>32, <1>33, <1>34 DEF Next, Worker, Interface, Operator, Board, vars, flags,
     BannerEvent, OpenFailedEvent, OpenDoneEvent, EraseEndEvent, AskToStop, Decline, Enables

\* and when all of them are.
LEMMA AskDoneStep ==
  ASSUME IInv, [Next]_vars, hComm' = "open", ~session'.late
  PROVE  AskDone'
<1> USE DEF flags, AskDone, AskChunk, Quiet, Acked, AckedOnce, At, AskInv, Between, Sending, WorkerInv,
   PortInv, WorkingInv, WriteEnded
<1>1. /\ AskInv /\ QuietInv /\ FileInv /\ BoardInv /\ BoardType /\ PortInv /\ PortType /\ WorkerInv /\ WorkerType
      /\ WorkingInv /\ FlagsType /\ WrittenType /\ {"ack", "complete"} \subseteq Bytes /\ Targets \in Nat /\ MaxChunks \in Nat
  BY FlashAssumption DEF IInv, TypeOK, PortType, ScreenType, Bytes
<1>2. CASE OpenForBoot
  BY <1>2, <1>1 DEF OpenForBoot, At
<1>3. CASE RequestAsicPeriAndSendSBL
  BY <1>3, <1>1 DEF RequestAsicPeriAndSendSBL, At
<1>4. CASE DoSblHandshake
  BY <1>4, <1>1 DEF DoSblHandshake, At, Post, Idle
<1>5. CASE OpenFails
  BY <1>5, <1>1 DEF OpenFails, Post, Idle
<1>6. CASE SendErase
  BY <1>6, <1>1 DEF SendErase, At, Command
<1>7. CASE EraseAcked
  BY <1>7, <1>1 DEF EraseAcked, At, Post, Idle
<1>8. CASE EraseTimesOut
  BY <1>8, <1>1 DEF EraseTimesOut, At, Post, Idle
<1>9. CASE SkipTarget
  BY <1>9, <1>1 DEF SkipTarget, At
<1>10. CASE SendHeader
  BY <1>10, <1>1 DEF SendHeader, At, Command
<1>11. CASE OpenFileFails
  BY <1>11, <1>1 DEF OpenFileFails, At, Command
<1>12. CASE ChunkAcked
  BY <1>12, <1>1 DEF ChunkAcked, At
<1>13. CASE SendChunk
  <2>1. hComm = "open" /\ ~session.late
    BY <1>13, <1>1 DEF SendChunk, WrittenType
  <2>2. At("write", "chunk") /\ AskChunk
    BY <1>13, <1>1, <2>1 DEF SendChunk, AskInv
  <2>3. worker' = [worker EXCEPT !.sent = worker.sent + 1,
                                 !.pc = IF worker.sent + 1 < worker.size THEN "ack" ELSE "done"]
    BY <1>13 DEF SendChunk
  <2>4. SUFFICES ASSUME ~(worker.sent + 1 < worker.size)
                 PROVE  AskDone'
    BY <1>1, <2>3 DEF AskDone, At, WorkerType
  <2>5. worker.sent \in Nat /\ worker.size \in Nat /\ worker.size - worker.sent = 1
    BY <1>1, <2>2, <2>4 DEF WorkerType, WorkerInv, At
  <2>6. ~Acked' /\ ~complete' /\ ~Has("complete")'
    BY <1>13, <1>1, <2>2, WireKept DEF AskChunk, Acked, SendChunk
  <2>7. CASE board.phase = "ask"
    <3>1. board' = [phase |-> "verify", next |-> board.next, asked |-> FALSE, left |-> board.left - 1, file |-> board.file]
      BY <1>13, <1>1, <2>1, <2>2, <2>5, <2>7 DEF SendChunk, BoardType, AskChunk
    <3>2. QED
      BY <2>2, <2>6, <3>1 DEF AskDone, AskChunk
  <2>8. CASE board.phase # "ask"
    <3>1. board'.phase = "off" /\ board'.next = "none"
      BY <1>13, <1>1, <2>2, <2>8 DEF SendChunk, BoardType, AskChunk
    <3>2. QED
      BY <2>6, <3>1 DEF AskDone
  <2>9. QED
    BY <2>7, <2>8
<1>14. CASE ReadFails
  BY <1>14, <1>1, WireKept DEF ReadFails, At
<1>15. CASE FileCompleted
  BY <1>15, <1>1 DEF FileCompleted, At
<1>16. CASE SeesAbort
  BY <1>16, <1>1 DEF SeesAbort, Unanswered, At
<1>17. CASE TimesOut
  BY <1>17, <1>1 DEF TimesOut, Unanswered, At
<1>18. CASE NextTarget
  BY <1>18, <1>1 DEF NextTarget, At
<1>19. CASE LeaveLoop
  BY <1>19, <1>1 DEF LeaveLoop, At
<1>20. CASE WriteEnds
  BY <1>20, <1>1 DEF WriteEnds, At, Post, Idle
<1>21. CASE rxThread
  <2>1. /\ \A b \in Bytes : (Has(b)' => Has(b)) /\ (Once(b) => Once(b)') /\ (Once(b) /\ Head(wire) = b => ~Has(b)')
        /\ Has(Head(wire)) /\ Head(wire) \in Bytes
    BY <1>21, <1>1, WireRead DEF rxThread, PortType
  <2>2. ackReceived' = (ackReceived \/ Head(wire) = "ack") /\ complete' = (complete \/ Head(wire) = "complete")
        /\ UNCHANGED <<hComm, m_writeInProgress, writeAbortFlag, worker, board, session>>
    BY <1>21 DEF rxThread
  <2>3. hComm = "open" /\ ~session.late /\ AskDone
    BY <1>1, <2>2 DEF AskInv
  <2>4. QED
    BY <1>1, <2>1, <2>2, <2>3 DEF AskDone, Acked, AckedOnce, At, Quiet
<1>22. CASE StopClosesPort
  BY <1>22, <1>1 DEF StopClosesPort, closePort,
     AfterClose
<1>23. CASE WriteEndEvent
  BY <1>23, <1>1 DEF WriteEndEvent, Handle, closePort
<1>24. CASE OpenPort
  BY <1>24, <1>1 DEF OpenPort, Idle, CanClick
<1>25. CASE ClosePort
  BY <1>25, <1>1 DEF ClosePort, closePort, AfterClose,
     CanClick
<1>26. CASE Erase
  BY <1>26, <1>1 DEF Erase, Idle, CanClick
<1>27. CASE Write
  BY <1>27, <1>1 DEF Write, Idle, CanClick,
     NothingWritten
<1>28. CASE Stop
  BY <1>28, <1>1, WireKept DEF Stop
<1>29. CASE Exit
  BY <1>29, <1>1 DEF Exit, closePort, CanClick
<1>30. CASE BoardErased
  BY <1>30, <1>1 DEF BoardErased, Says
<1>31. CASE BoardAsks
  BY <1>31, <1>1 DEF BoardAsks, Says
<1>32. CASE BoardVerified
  <2>1. SUFFICES ASSUME At("write", "done")
                 PROVE  AskDone'
    BY <1>32 DEF AskDone, At, BoardVerified
  <2>2. hComm = "open" /\ AskDone /\ ackReceived' = ackReceived
    BY <1>32, <1>1 DEF AskInv, BoardVerified
  <2>3. ~Acked' /\ ~board.asked /\ board.next = "none"
    BY <1>32, <1>1, <2>1, <2>2, WireSaid DEF Acked, AskDone, BoardVerified, Says, PortType
  <2>4. board' = [phase |-> "menu", next |-> board.next, asked |-> board.asked, left |-> board.left, file |-> board.file]
    BY <1>32, <1>1 DEF BoardVerified, BoardType
  <2>5. QED
    BY <2>3, <2>4 DEF AskDone
<1>33. CASE BoardFallsSilent
  BY <1>33, <1>1, WireKept DEF BoardFallsSilent
<1>34. CASE UNCHANGED <<hComm, wire, ackReceived, complete, writeAbortFlag, m_writeInProgress, worker, board, session>>
  BY <1>34, <1>1, WireKept
<1>35. QED
  BY <1>2, <1>3, <1>4, <1>5, <1>6, <1>7, <1>8, <1>9, <1>10, <1>11, <1>12, <1>13, <1>14, <1>15,
     <1>16, <1>17, <1>18, <1>19, <1>20, <1>21, <1>22, <1>23, <1>24, <1>25, <1>26, <1>27, <1>28,
     <1>29, <1>30, <1>31, <1>32, <1>33, <1>34 DEF Next, Worker, Interface, Operator, Board, vars, flags,
     BannerEvent, OpenFailedEvent, OpenDoneEvent, EraseEndEvent, AskToStop, Decline, Enables

-------------------------------------------------------------------------------
(* The invariant.                                                           *)

LEMMA AskStep ==
  ASSUME IInv, [Next]_vars
  PROVE  AskInv'
  BY AskQuietStep, AskEraseStep, AskAckStep, AskChunkStep, AskDoneStep DEF AskInv

\* A chunk sent unasked follows an erase given up.
LEMMA ChunksStep ==
  ASSUME IInv, [Next]_vars
  PROVE  ChunksAreAsked'
<1>1. /\ WrittenType /\ WorkerType /\ AskInv /\ ChunksAreAsked
  BY DEF IInv, TypeOK
<1>2. CASE SendChunk
  <2>1. hComm = "open" /\ ~session.late => board.asked
    BY <1>1, <1>2 DEF AskInv, AskChunk, SendChunk
  <2>2. session' = [session EXCEPT !.unasked = session.unasked \/ (hComm = "open" /\ ~board.asked)]
    BY <1>2 DEF SendChunk
  <2>3. QED
    BY <1>1, <2>1, <2>2 DEF ChunksAreAsked, WrittenType
<1>3. CASE DoSblHandshake
  BY <1>3 DEF ChunksAreAsked, DoSblHandshake
<1>4. CASE EraseTimesOut
  BY <1>1, <1>4 DEF ChunksAreAsked, WrittenType, EraseTimesOut
<1>5. CASE session' = session
  BY <1>1, <1>5 DEF ChunksAreAsked
<1>6. \/ SendChunk \/ DoSblHandshake \/ EraseTimesOut \/ session' = session
  BY DEF Next, Worker, Interface, Operator, Board, vars, Enables,
     OpenForBoot, RequestAsicPeriAndSendSBL, OpenFails, SendErase, EraseAcked, SkipTarget,
     SendHeader, OpenFileFails, ChunkAcked, ReadFails, FileCompleted, SeesAbort, TimesOut,
     NextTarget, LeaveLoop, WriteEnds, rxThread, StopClosesPort, BannerEvent, OpenFailedEvent,
     OpenDoneEvent, EraseEndEvent, WriteEndEvent, OpenPort, ClosePort, Erase, Write, AskToStop,
     Decline, Stop, Exit, BoardErased, BoardAsks, BoardVerified, BoardFallsSilent
<1>7. QED
  BY <1>2, <1>3, <1>4, <1>5, <1>6

\* A step of a worker that runs ends it or goes on with it.
LEMMA WorkerAloneStep ==
  ASSUME IInv, [Next]_vars, worker.kind # "none"
  PROVE  worker'.kind \in {worker.kind, "none"}
<1>1. WorkerType /\ ~Free
  BY DEF IInv, TypeOK, Free, Idle
<1>2. CASE OpenPort \/ Erase \/ Write
  BY <1>1, <1>2, Clicked DEF OpenPort, Erase, Write
<1>3. CASE Worker
  <2>1. worker' = Idle \/ \E pc \in Places : \E i, sent, size :
                           worker' = [kind |-> worker.kind, pc |-> pc, i |-> i, sent |-> sent, size |-> size]
    <3>1. CASE OpenForBoot
      BY <1>1, <3>1 DEF WorkerType, Places, OpenForBoot
    <3>2. CASE RequestAsicPeriAndSendSBL
      BY <1>1, <3>2 DEF WorkerType, Places, RequestAsicPeriAndSendSBL
    <3>3. CASE DoSblHandshake
      BY <1>1, <3>3 DEF WorkerType, Places, DoSblHandshake
    <3>4. CASE OpenFails
      BY <1>1, <3>4 DEF WorkerType, Places, OpenFails
    <3>5. CASE SendErase
      BY <1>1, <3>5 DEF WorkerType, Places, SendErase
    <3>6. CASE EraseAcked
      BY <1>1, <3>6 DEF WorkerType, Places, EraseAcked
    <3>7. CASE EraseTimesOut
      BY <1>1, <3>7 DEF WorkerType, Places, EraseTimesOut
    <3>8. CASE SkipTarget
      BY <1>1, <3>8 DEF WorkerType, Places, SkipTarget
    <3>9. CASE SendHeader
      BY <1>1, <3>9 DEF WorkerType, Places, SendHeader
    <3>10. CASE OpenFileFails
      BY <1>1, <3>10 DEF WorkerType, Places, OpenFileFails
    <3>11. CASE ChunkAcked
      BY <1>1, <3>11 DEF WorkerType, Places, ChunkAcked
    <3>12. CASE SendChunk
      BY <1>1, <3>12 DEF WorkerType, Places, SendChunk
    <3>13. CASE ReadFails
      BY <1>1, <3>13 DEF WorkerType, Places, ReadFails
    <3>14. CASE FileCompleted
      BY <1>1, <3>14 DEF WorkerType, Places, FileCompleted
    <3>15. CASE SeesAbort
      BY <1>1, <3>15 DEF WorkerType, Places, SeesAbort
    <3>16. CASE TimesOut
      BY <1>1, <3>16 DEF WorkerType, Places, TimesOut
    <3>17. CASE NextTarget
      BY <1>1, <3>17 DEF WorkerType, Places, NextTarget
    <3>18. CASE LeaveLoop
      BY <1>1, <3>18 DEF WorkerType, Places, LeaveLoop
    <3>19. CASE WriteEnds
      BY <1>1, <3>19 DEF WorkerType, Places, WriteEnds
    <3>20. QED
      BY <1>3, <3>1, <3>2, <3>3, <3>4, <3>5, <3>6, <3>7, <3>8, <3>9, <3>10, <3>11, <3>12, <3>13, <3>14,
         <3>15, <3>16, <3>17, <3>18, <3>19 DEF Worker
  <2>2. QED
    BY <2>1 DEF Idle
<1>4. CASE worker' = worker
  BY <1>4
<1>5. (OpenPort \/ Erase \/ Write) \/ Worker \/ worker' = worker
  BY DEF Next, Interface, Operator, Board, vars, Enables,
     rxThread, StopClosesPort, BannerEvent, OpenFailedEvent, OpenDoneEvent, EraseEndEvent,
     WriteEndEvent, ClosePort, AskToStop, Decline, Stop, Exit, BoardErased, BoardAsks,
     BoardVerified, BoardFallsSilent
<1>6. QED
  BY <1>2, <1>3, <1>4, <1>5

\* Only the three clicks count a start, and they find no worker.
LEMMA StartedIdle ==
  ASSUME IInv, [Next]_vars, worker # Idle
  PROVE  used' = used
<1>1. ~(OpenPort \/ Erase \/ Write)
  BY Clicked DEF OpenPort, Erase, Write, Free
<1>2. CASE Worker
  BY <1>2, Zenon DEF Worker, OpenForBoot, RequestAsicPeriAndSendSBL, DoSblHandshake, OpenFails,
     SendErase, EraseAcked, EraseTimesOut, SkipTarget, SendHeader, OpenFileFails, ChunkAcked,
     SendChunk, ReadFails, FileCompleted, SeesAbort, TimesOut, NextTarget, LeaveLoop, WriteEnds
<1>3. CASE Interface \/ rxThread
  BY <1>3 DEF Interface, Enables, rxThread, StopClosesPort, BannerEvent, OpenFailedEvent,
     OpenDoneEvent, EraseEndEvent, WriteEndEvent
<1>4. CASE Operator
  BY <1>1, <1>4 DEF Operator, ClosePort, AskToStop, Decline, Stop, Exit
<1>5. CASE Board
  BY <1>5 DEF Board, BoardErased, BoardAsks, BoardVerified, BoardFallsSilent
<1>6. QED
  BY <1>2, <1>3, <1>4, <1>5 DEF Next, vars

LEMMA WireEmptyTyped == <<>> \in Seq(Bytes)
  OBVIOUS

LEMMA InitInv == Init => IInv
<1> SUFFICES ASSUME Init PROVE IInv
  OBVIOUS
<1> USE DEF Init
<1>1. ~Has("ack") /\ ~Has("complete") /\ ~Has("banner") /\ \A b \in Bytes : Once(b)
  BY WireEmpty DEF Bytes
<1>2. TypeOK
  <2>1. PortType /\ FlagsType
    BY WireEmptyTyped DEF PortType, FlagsType
  <2>2. WorkerType /\ UsedType
    BY FlashAssumption DEF WorkerType, UsedType, Places, Idle
  <2>3. ScreenType
    BY DEF ScreenType, Controls
  <2>4. BoardType /\ WrittenType
    BY FlashAssumption DEF BoardType, WrittenType, Phases, NothingWritten
  <2>5. QED
    BY <2>1, <2>2, <2>3, <2>4 DEF TypeOK
<1>3. WorkerInv /\ PortInv
  BY DEF WorkerInv, PortInv, Idle, Sending, Between
<1>4. WorkingInv /\ PostedInv
  BY Distinct DEF WorkingInv, PostedInv, Idle, WriteEnded
<1>5. BannerInv /\ DialogInv /\ QuietInv /\ FileInv /\ AskInv
  BY <1>1 DEF BannerInv, DialogInv, QuietInv, FileInv, AskInv, Quiet, NothingWritten
<1>6. BoardInv /\ VerifiedInv
  BY Distinct DEF BoardInv, AtFile, VerifiedInv, Idle, NothingWritten
<1>7. SuccessIsVerified /\ ChunksAreAsked
  BY DEF SuccessIsVerified, ChunksAreAsked, NothingWritten
<1>8. QED
  BY <1>2, <1>3, <1>4, <1>5, <1>6, <1>7 DEF IInv

LEMMA NextInv == IInv /\ [Next]_vars => IInv'
<1> SUFFICES ASSUME IInv, [Next]_vars PROVE IInv'
  OBVIOUS
<1>1. PostedInv'
  BY PostedStep
<1>2. TypeOK'
  BY <1>1, TypeStep
<1>3. WorkerInv' /\ PortInv' /\ WorkingInv' /\ BannerInv' /\ DialogInv'
  BY WorkerStep, PortStep, WorkingStep, BannerStep, DialogStep
<1>4. QuietInv' /\ FileInv' /\ BoardInv' /\ VerifiedInv' /\ AskInv'
  BY QuietStep, FileStep, BoardStep, VerifiedStep, AskStep
<1>5. QED
  BY <1>1, <1>2, <1>3, <1>4, SuccessStep, ChunksStep DEF IInv

LEMMA Inductive == Spec => []IInv
  BY InitInv, NextInv, PTL DEF Spec

-------------------------------------------------------------------------------
(* The theorems.                                                            *)

\* Each variable of the tab, the port, the worker and the board stays within its type.
THEOREM TypeCorrect == Spec => []TypeOK
  BY Inductive, PTL DEF IInv

\* A write that nobody stopped reports success only with every file it opened verified.
THEOREM SuccessIsAlwaysVerified == Spec => []SuccessIsVerified
  BY Inductive, PTL DEF IInv

\* Unless an erase was given up in this session, no chunk is sent the board did not ask for.
THEOREM ChunksAreAlwaysAsked == Spec => []ChunksAreAsked
  BY Inductive, PTL DEF IInv

\* No opening, erase or write is started, and none takes the place of the one that runs, before
\* that one has ended: the controls see to it.
THEOREM WorkersNeverOverlap == Spec => OneWorker
<1>1. IInv /\ [Next]_vars => [StartsWorker => worker = Idle]_<<used, worker>>
  <2>1. SUFFICES ASSUME IInv, [Next]_vars, worker # Idle PROVE ~StartsWorker
    OBVIOUS
  <2>2. worker.kind # "none"
    BY <2>1 DEF IInv, WorkerInv
  <2>3. worker'.kind \in {worker.kind, "none"}
    BY <2>1, <2>2, WorkerAloneStep
  <2>4. used' = used
    BY <2>1, StartedIdle
  <2>5. QED
    BY <2>3, <2>4 DEF StartsWorker
<1>2. QED
  BY Inductive, <1>1, PTL DEF Spec, OneWorker
=============================================================================
