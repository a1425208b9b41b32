------------------------------ MODULE FlashTool ------------------------------
(***************************************************************************)
(* The firmware page of the vendor's viewer (MFlashTab and Canlab_flash).  *)
(* The user interface thread starts one worker at a time by disabling and  *)
(* enabling its controls; the worker drives the serial port; a receiver    *)
(* thread turns the board's bytes into flags the worker polls; what the    *)
(* worker has to say to the interface is posted as events.  The board is   *)
(* external: it erases, asks for each chunk with a byte, verifies a file,  *)
(* and may fall silent at any time.                                        *)
(***************************************************************************)
EXTENDS Naturals, Sequences

CONSTANTS
  Targets,    \* number of the flash regions a write goes through (4 in the code)
  MaxChunks,  \* bound: chunks of a file
  MaxOpens,   \* bound: times the port is opened
  MaxWrites,  \* bound: writes started
  MaxErases   \* bound: erases started

ASSUME FlashAssumption == {Targets, MaxChunks, MaxOpens, MaxWrites, MaxErases} \subseteq Nat

VARIABLES
  hComm,             \* "closed", "boot" (115200, no receiver) or "open"
  wire,              \* bytes of the board the receiver has not read
  ackReceived, complete, writeAbortFlag,
  m_writeInProgress,
  worker,            \* the worker thread: what it does, and where in it it is
  posted,            \* events posted to the interface
  enabled,           \* controls the operator can use
  dialog,            \* where the interface thread is
  board,             \* the board and what it waits for
  written,           \* the current write: files opened, files verified, stopped, reported
  session,           \* the current session of the port: an erase was given up, a chunk sent unasked
  used               \* how much of each bound is used

vars == <<hComm, wire, ackReceived, complete, writeAbortFlag, m_writeInProgress, worker, posted,
          enabled, dialog, board, written, session, used>>
flags == <<ackReceived, complete, writeAbortFlag>>

Controls == {"serial", "open", "erase", "write", "exit"}
Idle == [kind |-> "none", pc |-> "none", i |-> 0, sent |-> 0, size |-> 0]
NothingWritten == [opened |-> {}, verified |-> {}, stopped |-> FALSE, report |-> "none"]
Events == {"banner", "openFailed", "openDone", "eraseEnd", "writeAborted", "writeDone"}
Phases == {"off", "menu", "erase", "wipe", "ask", "program", "verify", "header"}

Bytes == {"ack", "complete", "banner"}
Places == {"none", "start", "sbl", "handshake", "poll", "next", "ack", "chunk", "done", "pause", "end"}

PortType == hComm \in {"closed", "boot", "open"} /\ wire \in Seq(Bytes)
FlagsType == {ackReceived, complete, writeAbortFlag, m_writeInProgress} \subseteq BOOLEAN
WorkerType ==
  worker \in [kind : {"none", "open", "erase", "write"}, pc : Places,
              i : 0..(Targets + 1), sent : 0..MaxChunks, size : 0..MaxChunks]
ScreenType ==
  /\ posted \in Seq(Events) /\ Len(posted) <= 2
  /\ enabled \subseteq Controls
  /\ dialog \in {"idle", "confirm", "joining", "quit"}
BoardType ==
  board \in [phase : Phases, next : {"none", "erase", "wipe"}, asked : BOOLEAN, left : 0..MaxChunks, file : 0..Targets]
WrittenType ==
  /\ written \in [opened : SUBSET (1..Targets), verified : SUBSET (1..Targets), stopped : BOOLEAN,
                  report : {"none", "success", "aborted"}]
  /\ session \in [late : BOOLEAN, unasked : BOOLEAN]
UsedType == used \in [opens : 0..MaxOpens, writes : 0..MaxWrites, erases : 0..MaxErases]
TypeOK ==
  /\ PortType /\ FlagsType /\ WorkerType /\ ScreenType /\ BoardType /\ WrittenType /\ UsedType

Init ==
  /\ hComm = "closed" /\ wire = <<>>
  /\ ackReceived = FALSE /\ complete = FALSE /\ writeAbortFlag = FALSE
  /\ m_writeInProgress = FALSE
  /\ worker = Idle /\ posted = <<>>
  /\ enabled = Controls /\ dialog = "idle"
  /\ board = [phase |-> "off", next |-> "none", asked |-> FALSE, left |-> 0, file |-> 0]
  /\ written = NothingWritten
  /\ session = [late |-> FALSE, unasked |-> FALSE]
  /\ used = [opens |-> 0, writes |-> 0, erases |-> 0]

At(kind, pc) == worker.kind = kind /\ worker.pc = pc
Post(event) == posted' = Append(posted, event)
\* Qt hands out posted events before it looks at input.
CanClick(control) == dialog = "idle" /\ posted = <<>> /\ control \in enabled

(***************************************************************************)
(* The board                                                               *)
(***************************************************************************)
\* A command that comes while the board erases waits in its FIFO or is lost; the board
\* may lose its place for good when it gets bytes it does not expect.
Command(phase, left, file) ==
  IF hComm # "open" THEN board' = board
  ELSE IF board.phase = "menu"
    THEN board' = [board EXCEPT !.phase = phase, !.asked = FALSE, !.left = left, !.file = file]
  ELSE \/ board' = [board EXCEPT !.asked = FALSE, !.left = left, !.file = file,
                    !.next = IF board.phase = "erase" /\ phase # "header" THEN phase ELSE "none"]
       \/ board' = [board EXCEPT !.phase = "off", !.asked = FALSE]

Says(byte) == wire' = IF hComm = "open" THEN Append(wire, byte) ELSE wire

BoardErased ==
  /\ board.phase = "erase"
  /\ board' = [board EXCEPT !.phase = IF board.next = "none" THEN "menu" ELSE board.next, !.next = "none"]
  /\ Says("ack")
  /\ UNCHANGED <<hComm, flags, m_writeInProgress, worker, posted, enabled, dialog, written, session, used>>

BoardAsks ==
  /\ board.phase \in {"wipe", "program"}
  /\ board' = [board EXCEPT !.phase = "ask", !.asked = TRUE]
  /\ Says("ack")
  /\ UNCHANGED <<hComm, flags, m_writeInProgress, worker, posted, enabled, dialog, written, session, used>>

BoardVerified ==
  /\ board.phase = "verify"
  /\ board' = [board EXCEPT !.phase = "menu"]
  /\ written' = [written EXCEPT !.verified = @ \cup {board.file}]
  /\ Says("complete")
  /\ UNCHANGED <<hComm, flags, m_writeInProgress, worker, posted, enabled, dialog, session, used>>

BoardFallsSilent ==
  /\ board.phase # "off"
  /\ board' = [board EXCEPT !.phase = "off"]
  /\ UNCHANGED <<hComm, wire, flags, m_writeInProgress, worker, posted, enabled, dialog, written, session, used>>

(***************************************************************************)
(* The receiver and the port                                               *)
(***************************************************************************)
rxThread ==
  /\ hComm = "open" /\ wire # <<>>
  /\ wire' = Tail(wire)
  /\ ackReceived' = (ackReceived \/ Head(wire) = "ack")
  /\ complete' = (complete \/ Head(wire) = "complete")
  /\ posted' = IF Head(wire) = "banner" THEN Append(posted, "banner") ELSE posted
  /\ UNCHANGED <<hComm, writeAbortFlag, m_writeInProgress, worker, enabled, dialog, board, written, session, used>>

\* A mutant of closePort, the flags of the receiver outlive the session.
closePortKeepsFlags ==
  /\ hComm' = "closed" /\ wire' = <<>> /\ UNCHANGED <<ackReceived, complete>> /\ writeAbortFlag' = FALSE

\* What closePort does once the receiver has been joined; the caller says what is enabled.
closePort ==
  /\ hComm' = "closed" /\ wire' = <<>>
  /\ ackReceived' = FALSE /\ complete' = FALSE /\ writeAbortFlag' = FALSE
AfterClose == Controls \ {"serial"}

(***************************************************************************)
(* Open Port, also Close Port                                              *)
(***************************************************************************)
OpenPort ==
  /\ CanClick("serial") /\ CanClick("open")
  /\ hComm = "closed" /\ used.opens < MaxOpens
  /\ used' = [used EXCEPT !.opens = @ + 1]
  /\ enabled' = {"serial"}
  /\ worker' = [Idle EXCEPT !.kind = "open", !.pc = "start"]
  /\ UNCHANGED <<hComm, wire, flags, m_writeInProgress, posted, dialog, board, written, session>>

ClosePort ==
  /\ CanClick("serial") /\ CanClick("open") /\ hComm # "closed"
  /\ closePort /\ enabled' = enabled \cup AfterClose
  /\ UNCHANGED <<m_writeInProgress, worker, posted, dialog, board, written, session, used>>

\* The port at 115200, then the second-stage boot loader, after which the port is closed again.
OpenForBoot ==
  /\ At("open", "start")
  /\ hComm' = "boot" /\ worker' = [worker EXCEPT !.pc = "sbl"]
  /\ UNCHANGED <<wire, flags, m_writeInProgress, posted, enabled, dialog, board, written, session, used>>

RequestAsicPeriAndSendSBL ==
  /\ At("open", "sbl")
  /\ hComm' = "closed" /\ worker' = [worker EXCEPT !.pc = "handshake"]
  /\ UNCHANGED <<wire, flags, m_writeInProgress, posted, enabled, dialog, board, written, session, used>>

\* The port at 12 Mbaud and the handshake; the board starts afresh and prints its banner.
DoSblHandshake ==
  /\ At("open", "handshake")
  /\ hComm' = "open" /\ wire' = <<"banner">>
  /\ board' = [phase |-> "menu", next |-> "none", asked |-> FALSE, left |-> 0, file |-> 0]
  /\ session' = [late |-> FALSE, unasked |-> FALSE]
  /\ worker' = Idle /\ Post("openDone")
  /\ UNCHANGED <<flags, m_writeInProgress, enabled, dialog, written, used>>

\* Each of the stages of an opening may fail, and leaves the port closed.
OpenFails ==
  /\ worker.kind = "open"
  /\ hComm' = "closed" /\ worker' = Idle /\ Post("openFailed")
  /\ UNCHANGED <<wire, flags, m_writeInProgress, enabled, dialog, board, written, session, used>>

(***************************************************************************)
(* Erase                                                                   *)
(***************************************************************************)
\* A mutant of Erase, which leaves its own button enabled.
EraseAgain ==
  /\ CanClick("erase") /\ hComm # "closed" /\ used.erases < MaxErases
  /\ used' = [used EXCEPT !.erases = @ + 1]
  /\ enabled' = enabled \ {"serial", "open", "write", "exit"}
  /\ worker' = [Idle EXCEPT !.kind = "erase", !.pc = "start"]
  /\ UNCHANGED <<hComm, wire, flags, m_writeInProgress, posted, dialog, board, written, session>>
Erase ==
  /\ CanClick("erase") /\ hComm # "closed" /\ used.erases < MaxErases
  /\ used' = [used EXCEPT !.erases = @ + 1]
  /\ enabled' = enabled \ {"serial", "open", "erase", "write", "exit"}
  /\ worker' = [Idle EXCEPT !.kind = "erase", !.pc = "start"]
  /\ UNCHANGED <<hComm, wire, flags, m_writeInProgress, posted, dialog, board, written, session>>

SendErase ==
  /\ At("erase", "start")
  /\ ackReceived' = FALSE
  /\ Command("erase", 0, 0)
  /\ worker' = [worker EXCEPT !.pc = "poll"]
  /\ UNCHANGED <<hComm, wire, complete, writeAbortFlag, m_writeInProgress, posted, enabled, dialog, written, session, used>>

EraseAcked ==
  /\ At("erase", "poll") /\ ackReceived
  /\ ackReceived' = FALSE
  /\ worker' = Idle /\ Post("eraseEnd")
  /\ UNCHANGED <<hComm, wire, complete, writeAbortFlag, m_writeInProgress, enabled, dialog, board, written, session, used>>

EraseTimesOut ==
  /\ At("erase", "poll") /\ ~ackReceived
  /\ session' = [session EXCEPT !.late = TRUE]
  /\ worker' = Idle /\ Post("eraseEnd")
  /\ UNCHANGED <<hComm, wire, flags, m_writeInProgress, enabled, dialog, board, written, used>>

(***************************************************************************)
(* Write, also Stop                                                        *)
(***************************************************************************)
Write ==
  /\ CanClick("write") /\ ~m_writeInProgress /\ hComm # "closed" /\ used.writes < MaxWrites
  /\ used' = [used EXCEPT !.writes = @ + 1]
  /\ writeAbortFlag' = FALSE /\ m_writeInProgress' = TRUE
  /\ enabled' = {"write"} \cup (enabled \ {"serial", "open", "erase", "exit"})
  /\ worker' = [Idle EXCEPT !.kind = "write", !.pc = "next", !.i = 1]
  /\ written' = NothingWritten
  /\ UNCHANGED <<hComm, wire, ackReceived, complete, posted, dialog, board, session>>

\* The confirmation is modal to clicks; posted events are handled while it is shown.
AskToStop ==
  /\ CanClick("write") /\ m_writeInProgress
  /\ dialog' = "confirm"
  /\ UNCHANGED <<hComm, wire, flags, m_writeInProgress, worker, posted, enabled, board, written, session, used>>

Decline ==
  /\ dialog = "confirm" /\ dialog' = "idle"
  /\ UNCHANGED <<hComm, wire, flags, m_writeInProgress, worker, posted, enabled, board, written, session, used>>

\* The flag is set before closePort joins the receiver; when the port is closed already,
\* closePort returns at once.
Stop ==
  /\ dialog = "confirm"
  /\ writeAbortFlag' = TRUE
  /\ written' = [written EXCEPT !.stopped = m_writeInProgress]
  /\ \/ hComm # "closed" /\ dialog' = "joining" /\ enabled' = enabled
     \/ hComm = "closed" /\ dialog' = "idle" /\ enabled' = enabled \ {"write"}
  /\ UNCHANGED <<hComm, wire, ackReceived, complete, m_writeInProgress, worker, posted, board, session, used>>

StopClosesPort ==
  /\ dialog = "joining"
  /\ closePort /\ enabled' = (enabled \cup AfterClose) \ {"write"}
  /\ dialog' = "idle"
  /\ UNCHANGED <<m_writeInProgress, worker, posted, board, written, session, used>>

\* Its mutant goes on beyond the last region.
SkipBeyond ==
  /\ At("write", "next") /\ worker.i <= Targets + 1 /\ ~writeAbortFlag
  /\ worker' = [worker EXCEPT !.i = @ + 1]
  /\ UNCHANGED <<hComm, wire, flags, m_writeInProgress, posted, enabled, dialog, board, written, session, used>>
\* A region that is not selected, or whose file is not there.
SkipTarget ==
  /\ At("write", "next") /\ worker.i <= Targets /\ ~writeAbortFlag
  /\ worker' = [worker EXCEPT !.i = @ + 1]
  /\ UNCHANGED <<hComm, wire, flags, m_writeInProgress, posted, enabled, dialog, board, written, session, used>>

\* The command, the size and the offset of a file, and the wait for the first chunk's turn.
SendHeader ==
  /\ At("write", "next") /\ worker.i <= Targets /\ ~writeAbortFlag
  /\ \E size \in 1..MaxChunks :
       /\ Command("wipe", size, worker.i)
       /\ worker' = [worker EXCEPT !.pc = "ack", !.sent = 0, !.size = size]
  /\ written' = [written EXCEPT !.opened = @ \cup {worker.i}]
  /\ UNCHANGED <<hComm, wire, flags, m_writeInProgress, posted, enabled, dialog, session, used>>

\* A file that exists and cannot be opened: the board has got the command and no size.
OpenFileFails ==
  /\ At("write", "next") /\ worker.i <= Targets /\ ~writeAbortFlag
  /\ Command("header", 0, 0)
  /\ worker' = [worker EXCEPT !.pc = "pause"]
  /\ UNCHANGED <<hComm, wire, flags, m_writeInProgress, posted, enabled, dialog, written, session, used>>

ChunkAcked ==
  /\ At("write", "ack") /\ ackReceived
  /\ worker' = [worker EXCEPT !.pc = "chunk"]
  /\ UNCHANGED <<hComm, wire, flags, m_writeInProgress, posted, enabled, dialog, board, written, session, used>>

\* The board takes a chunk it asked for; one it did not ask for is lost, or makes it lose its place.
SendChunk ==
  /\ At("write", "chunk")
  /\ ackReceived' = FALSE
  /\ worker' = [worker EXCEPT !.sent = @ + 1, !.pc = IF worker.sent + 1 < worker.size THEN "ack" ELSE "done"]
  /\ session' = [session EXCEPT !.unasked = @ \/ (hComm = "open" /\ ~board.asked)]
  /\ \/ hComm = "open" /\ board.phase = "ask"
        /\ board' = [board EXCEPT !.phase = IF board.left = 1 THEN "verify" ELSE "program", !.asked = FALSE, !.left = @ - 1]
     \/ (hComm # "open" \/ board.phase # "ask") /\ board' = [board EXCEPT !.asked = @ /\ hComm # "open"]
     \/ hComm = "open" /\ board.phase # "ask" /\ board' = [board EXCEPT !.phase = "off", !.asked = FALSE]
  /\ UNCHANGED <<hComm, wire, complete, writeAbortFlag, m_writeInProgress, posted, enabled, dialog, written, used>>

\* The file ends before the size it had.
ReadFails ==
  /\ At("write", "chunk")
  /\ ackReceived' = FALSE
  /\ worker' = [worker EXCEPT !.pc = "done"]
  /\ UNCHANGED <<hComm, wire, complete, writeAbortFlag, m_writeInProgress, posted, enabled, dialog, board, written, session, used>>

FileCompleted ==
  /\ At("write", "done") /\ complete
  /\ complete' = FALSE
  /\ worker' = [worker EXCEPT !.pc = "pause"]
  /\ UNCHANGED <<hComm, wire, ackReceived, writeAbortFlag, m_writeInProgress, posted, enabled, dialog, board, written, session, used>>

\* The waits of a worker that has not got its answer; the mutant waits for the verification without end.
UnansweredAck == At("write", "ack") /\ ~ackReceived
Unanswered == (At("write", "ack") /\ ~ackReceived) \/ (At("write", "done") /\ ~complete)

SeesAbort ==
  /\ Unanswered /\ writeAbortFlag
  /\ worker' = [worker EXCEPT !.pc = "pause"]
  /\ UNCHANGED <<hComm, wire, flags, m_writeInProgress, posted, enabled, dialog, board, written, session, used>>

\* Its mutant leaves the flag alone.
TimesOutQuietly ==
  /\ Unanswered
  /\ worker' = [worker EXCEPT !.pc = "pause"]
  /\ UNCHANGED <<hComm, wire, flags, m_writeInProgress, posted, enabled, dialog, board, written, session, used>>
\* After a timeout the board and the program are out of step: no further file is sent.
TimesOut ==
  /\ Unanswered
  /\ writeAbortFlag' = TRUE
  /\ worker' = [worker EXCEPT !.pc = "pause"]
  /\ UNCHANGED <<hComm, wire, ackReceived, complete, m_writeInProgress, posted, enabled, dialog, board, written, session, used>>

NextTarget ==
  /\ At("write", "pause")
  /\ worker' = [worker EXCEPT !.pc = "next", !.i = @ + 1, !.sent = 0, !.size = 0]
  /\ UNCHANGED <<hComm, wire, flags, m_writeInProgress, posted, enabled, dialog, board, written, session, used>>

LeaveLoop ==
  /\ At("write", "next") /\ (worker.i > Targets \/ writeAbortFlag)
  /\ worker' = [worker EXCEPT !.pc = "end"]
  /\ UNCHANGED <<hComm, wire, flags, m_writeInProgress, posted, enabled, dialog, board, written, session, used>>

\* The flag, read once more, tells how the write ended.
WriteEnds ==
  /\ At("write", "end")
  /\ worker' = Idle
  /\ Post(IF writeAbortFlag THEN "writeAborted" ELSE "writeDone")
  /\ UNCHANGED <<hComm, wire, flags, m_writeInProgress, enabled, dialog, board, written, session, used>>

(***************************************************************************)
(* Exit and the events posted to the interface                             *)
(***************************************************************************)
Exit ==
  /\ CanClick("exit")
  /\ dialog' = "quit"
  /\ IF hComm = "closed" THEN UNCHANGED <<hComm, wire, flags, board>>
     ELSE closePort /\ board' = [board EXCEPT !.phase = "off"]
  /\ UNCHANGED <<m_writeInProgress, worker, posted, enabled, written, session, used>>

Handle(event) ==
  /\ dialog \in {"idle", "confirm"} /\ posted # <<>> /\ Head(posted) = event
  /\ posted' = Tail(posted)

Enables(event, controls) ==
  /\ Handle(event)
  /\ enabled' = enabled \cup controls
  /\ UNCHANGED <<hComm, wire, flags, m_writeInProgress, worker, dialog, board, written, session, used>>

BannerEvent == Enables("banner", {"erase", "write", "exit"})
OpenFailedEvent == Enables("openFailed", {"open", "erase", "write", "exit"})
OpenDoneEvent == Enables("openDone", {"open"})
EraseEndEvent == Enables("eraseEnd", Controls)

WriteEndEvent ==
  /\ \/ Handle("writeAborted") /\ written' = [written EXCEPT !.report = "aborted"]
     \/ Handle("writeDone") /\ written' = [written EXCEPT !.report = "success"]
  /\ m_writeInProgress' = FALSE
  /\ enabled' = Controls
  /\ IF hComm # "closed" THEN closePort
     ELSE writeAbortFlag' = FALSE /\ UNCHANGED <<hComm, wire, ackReceived, complete>>
  /\ UNCHANGED <<worker, dialog, board, session, used>>

Worker ==
  \/ OpenForBoot \/ RequestAsicPeriAndSendSBL \/ DoSblHandshake \/ OpenFails
  \/ SendErase \/ EraseAcked \/ EraseTimesOut
  \/ SkipTarget \/ SendHeader \/ OpenFileFails \/ ChunkAcked \/ SendChunk \/ ReadFails
  \/ FileCompleted \/ SeesAbort \/ TimesOut \/ NextTarget \/ LeaveLoop \/ WriteEnds
Interface ==
  StopClosesPort \/ BannerEvent \/ OpenFailedEvent \/ OpenDoneEvent \/ EraseEndEvent \/ WriteEndEvent
Operator == OpenPort \/ ClosePort \/ Erase \/ Write \/ AskToStop \/ Decline \/ Stop \/ Exit
Board == BoardErased \/ BoardAsks \/ BoardVerified \/ BoardFallsSilent

Next == Worker \/ rxThread \/ Interface \/ Operator \/ Board

\* The threads of the program run on; the operator and the board owe nothing.
Fairness == WF_vars(Worker) /\ WF_vars(Interface) /\ WF_vars(rxThread)

Spec == Init /\ [][Next]_vars /\ Fairness

(***************************************************************************)
(* Properties                                                              *)
(***************************************************************************)
\* The controls alone keep a second worker from the port, of whatever kind: no click starts
\* an opening, an erase or a write (each is counted in used) and no step puts another worker in
\* the place of the one that runs, whatever closePort and late events enable in between.
StartsWorker == used' # used \/ worker'.kind \notin {worker.kind, "none"}
OneWorker == [][StartsWorker => worker = Idle]_<<used, worker>>

\* A write that nobody stopped and that is reported as completed successfully has had every
\* file that it opened verified by the board: a timeout of any wait, an answer just after it,
\* or a file that ends early never ends in that report with a file half written.
SuccessIsVerified ==
  written.report = "success" /\ ~written.stopped => written.opened \subseteq written.verified

\* A chunk is sent only when the board has asked for it in this session of the port, even
\* when an earlier wait was given up just before its answer came (unless it was an erase's).
ChunksAreAsked == session.unasked => session.late

\* Whatever fails, and whatever the operator stops, the controls of the port come back.
PortControlsComeBack == ({"serial", "open"} \subseteq enabled) \/ dialog = "quit"
ControlsComeBack == []<>PortControlsComeBack
=============================================================================
