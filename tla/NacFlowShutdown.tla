--------------------------- MODULE NacFlowShutdown ---------------------------
(***************************************************************************)
(* The threads of flow_test (src/flow_test/flow_test.c) from main() to the *)
(* end of the process: main creates a receiving and a sending thread for   *)
(* each stream, ten seconds apart, and starts the capture; a signal runs   *)
(* shutdown_flow() on the main thread, which waits for flags the other     *)
(* threads set and then takes their streams and the card away.             *)
(*                                                                         *)
(* Time is counted in ticks of ten seconds.  A thread that can go on does  *)
(* so within a tick; the order of the steps inside a tick is free.  A      *)
(* sending thread that waits for space stays blocked as long as its stream *)
(* is stalled by the link.                                                 *)
(***************************************************************************)
EXTENDS Integers

CONSTANTS
  N,           \* NUM_STREAM
  IdleLimit,   \* ticks without a packet after which run_rx ends (20 s: 2)
  Faults       \* which of "giveUp", "noLog", "earlySignal", "stall" may happen

ASSUME ShutdownAssumption ==
  /\ N \in Nat \ {0} /\ IdleLimit \in Nat \ {0}
  /\ Faults \subseteq {"giveUp", "noLog", "earlySignal", "stall"}

VARIABLES
  created,    \* threads main has created: rx 0, tx 0, rx 1, tx 1, ...
  slept,      \* main's sleep(10) between an rx and its tx is over
  main,       \* "create", "join", "exited"
  capture,    \* the capture bits of the card; an earlier program may have
              \* left them set
  handler,    \* where shutdown_flow is; "none" before the signal
  current,    \* loop variable i of shutdown_flow
  shutdownInProgress,
  report, report_stop,   \* thread anReport, its flag
  rx, an_stop, idle,     \* threads run_rx, their flags, ticks without a packet
  tx, stalled,           \* threads run_tx, their link is stalled
  rxAttached, txAttached,
  opened,     \* herd[nacfd].opened
  fault       \* ghost: which of Faults have happened

mainVars == <<created, slept, main>>
handlerVars == <<handler, current, shutdownInProgress>>
reportVars == <<report, report_stop>>
rxVars == <<rx, an_stop, idle>>
txVars == <<tx, stalled>>
cardVars == <<capture, rxAttached, txAttached, opened>>
shutdownVars == <<mainVars, handlerVars, reportVars, rxVars, txVars, cardVars, fault>>

StreamNumbers == 0 .. N - 1
HandlerActive == handler \notin {"none", "closed"}

-----------------------------------------------------------------------------
ShutdownInit ==
  /\ created = 0 /\ slept = FALSE /\ main = "create"
  /\ capture \in BOOLEAN
  /\ handler = "none" /\ current = 0 /\ shutdownInProgress = FALSE
  /\ report = "running" /\ report_stop = FALSE
  /\ rx = [i \in StreamNumbers |-> "none"] /\ an_stop = [i \in StreamNumbers |-> FALSE]
  /\ idle = [i \in StreamNumbers |-> 0]
  /\ tx = [i \in StreamNumbers |-> "none"] /\ stalled = [i \in StreamNumbers |-> FALSE]
  /\ rxAttached = [i \in StreamNumbers |-> FALSE]
  /\ txAttached = [i \in StreamNumbers |-> FALSE]
  /\ opened = TRUE
  /\ fault = {}

(* main creates run_rx for the next stream; it attaches and starts it. *)
CreateRx ==
  /\ main = "create" /\ ~HandlerActive /\ opened
  /\ created < 2 * N /\ created % 2 = 0
  /\ LET i == created \div 2
     IN  /\ rx' = [rx EXCEPT ![i] = "receiving"]
         /\ rxAttached' = [rxAttached EXCEPT ![i] = TRUE]
  /\ created' = created + 1 /\ slept' = FALSE
  /\ UNCHANGED <<main, handlerVars, reportVars, an_stop, idle, txVars,
                 capture, txAttached, opened, fault>>

(* After ten seconds main creates its run_tx. *)
CreateTx ==
  /\ main = "create" /\ ~HandlerActive /\ opened
  /\ created % 2 = 1 /\ slept
  /\ LET i == created \div 2
     IN  /\ tx' = [tx EXCEPT ![i] = "sending"]
         /\ txAttached' = [txAttached EXCEPT ![i] = TRUE]
  /\ created' = created + 1
  /\ UNCHANGED <<slept, main, handlerVars, reportVars, rxVars, stalled,
                 capture, rxAttached, opened, fault>>

CaptureStart ==
  /\ main = "create" /\ ~HandlerActive /\ opened
  /\ created = 2 * N
  /\ capture' = TRUE
  /\ main' = "join"
  /\ UNCHANGED <<created, slept, handlerVars, reportVars, rxVars, txVars,
                 rxAttached, txAttached, opened, fault>>

(* main has joined every thread. *)
Exit ==
  /\ main = "join" /\ ~HandlerActive
  /\ \A i \in StreamNumbers : rx[i] = "ended" /\ tx[i] = "ended"
  /\ report = "ended"
  /\ main' = "exited"
  /\ UNCHANGED <<created, slept, handlerVars, reportVars, rxVars, txVars,
                 cardVars, fault>>

-----------------------------------------------------------------------------
(* anReport sees the flag after its sleep of four seconds. *)
ReportEnd ==
  /\ report = "running" /\ shutdownInProgress
  /\ report' = "ended" /\ report_stop' = TRUE
  /\ UNCHANGED <<mainVars, handlerVars, rxVars, txVars, cardVars, fault>>

(* It could not open its log file, and sets nothing. *)
ReportNoLog ==
  /\ "noLog" \in Faults
  /\ report = "running" /\ created = 0
  /\ report' = "ended"
  /\ fault' = fault \cup {"noLog"}
  /\ UNCHANGED <<mainVars, handlerVars, report_stop, rxVars, txVars,
                 cardVars>>

(* Variant: the flag is forgotten. *)
RxIdleOutSilent(i) ==
  /\ rx[i] = "receiving" /\ idle[i] >= IdleLimit
  /\ rx' = [rx EXCEPT ![i] = "ended"]
  /\ UNCHANGED <<mainVars, handlerVars, reportVars, an_stop, idle, txVars,
                 cardVars, fault>>

(* run_rx leaves its loop: no packet for 20 seconds. *)
RxIdleOut(i) ==
  /\ rx[i] = "receiving" /\ idle[i] >= IdleLimit
  /\ rx' = [rx EXCEPT ![i] = "ended"]
  /\ an_stop' = [an_stop EXCEPT ![i] = TRUE]
  /\ UNCHANGED <<mainVars, handlerVars, reportVars, idle, txVars, cardVars,
                 fault>>

(* run_rx returns because list is full, and sets nothing. *)
RxGiveUp(i) ==
  /\ "giveUp" \in Faults
  /\ rx[i] = "receiving" /\ tx[i] = "sending" /\ capture
  /\ rx' = [rx EXCEPT ![i] = "ended"]
  /\ fault' = fault \cup {"giveUp"}
  /\ UNCHANGED <<mainVars, handlerVars, reportVars, an_stop, idle, txVars,
                 cardVars>>

(* run_tx has finished a round, or got the space it waited for, and leaves. *)
TxLeave(i) ==
  /\ tx[i] = "sending" /\ shutdownInProgress /\ ~stalled[i]
  /\ tx' = [tx EXCEPT ![i] = "ended"]
  /\ UNCHANGED <<mainVars, handlerVars, reportVars, rxVars, stalled, cardVars,
                 fault>>

(* External: the link of a stream is held up, and released. *)
LinkChange(i) ==
  /\ "stall" \in Faults
  /\ tx[i] = "sending"
  /\ stalled' = [stalled EXCEPT ![i] = ~@]
  /\ fault' = fault \cup {"stall"}
  /\ UNCHANGED <<mainVars, handlerVars, reportVars, rxVars, tx, cardVars>>

-----------------------------------------------------------------------------
(* The signal: shutdown_flow stops the capture and sets the flag. *)
Signal ==
  /\ handler = "none" /\ main # "exited"
  /\ \/ main = "join" /\ UNCHANGED fault
     \/ /\ main = "create" /\ "earlySignal" \in Faults
        /\ fault' = fault \cup {"earlySignal"}
  /\ capture' = FALSE
  /\ shutdownInProgress' = TRUE
  /\ handler' = "waitReport"
  /\ UNCHANGED <<mainVars, current, reportVars, rxVars, txVars, rxAttached,
                 txAttached, opened>>

HandlerReport ==
  /\ handler = "waitReport" /\ report_stop
  /\ handler' = "waitAn"
  /\ UNCHANGED <<mainVars, current, shutdownInProgress, reportVars, rxVars,
                 txVars, cardVars, fault>>

(* Variant: the receivers are not waited for. *)
HandlerAnAtOnce ==
  /\ handler = "waitAn"
  /\ handler' = "stopRx"
  /\ UNCHANGED <<mainVars, current, shutdownInProgress, reportVars, rxVars,
                 txVars, cardVars, fault>>

(* The loop over an_stop is over. *)
HandlerAn ==
  /\ handler = "waitAn" /\ \A i \in StreamNumbers : an_stop[i]
  /\ handler' = "stopRx"
  /\ UNCHANGED <<mainVars, current, shutdownInProgress, reportVars, rxVars,
                 txVars, cardVars, fault>>

(* nac_stop_stream and nac_detach_stream of one stream. *)
HandlerRx ==
  /\ handler = "stopRx"
  /\ rxAttached' = [rxAttached EXCEPT ![current] = FALSE]
  /\ handler' = "stopTx"
  /\ UNCHANGED <<mainVars, current, shutdownInProgress, reportVars, rxVars,
                 txVars, capture, txAttached, opened, fault>>

(* nac_tx_stop_stream waits until everything is sent, nac_tx_detach_stream
   takes the memory away; the last stream is followed by nac_close. *)
HandlerTx ==
  /\ handler = "stopTx" /\ ~stalled[current]
  /\ txAttached' = [txAttached EXCEPT ![current] = FALSE]
  /\ IF current = N - 1
     THEN handler' = "closed" /\ opened' = FALSE /\ UNCHANGED current
     ELSE handler' = "stopRx" /\ current' = current + 1 /\ UNCHANGED opened
  /\ UNCHANGED <<mainVars, shutdownInProgress, reportVars, rxVars, txVars,
                 capture, rxAttached, fault>>

-----------------------------------------------------------------------------
Flowing(i) == tx[i] = "sending" /\ capture /\ ~stalled[i]

ThreadStep ==
  \/ CreateRx \/ CreateTx \/ CaptureStart \/ Exit
  \/ ReportEnd \/ HandlerReport \/ HandlerAn \/ HandlerRx \/ HandlerTx
  \/ \E i \in StreamNumbers : RxIdleOut(i) \/ TxLeave(i)

Runnable ==
  \/ /\ main = "create" /\ ~HandlerActive /\ opened
     /\ created % 2 = 0 \/ slept
  \/ report = "running" /\ shutdownInProgress
  \/ \E i \in StreamNumbers :
       \/ rx[i] = "receiving" /\ idle[i] >= IdleLimit
       \/ tx[i] = "sending" /\ shutdownInProgress /\ ~stalled[i]

(* Ten seconds pass; nobody who could go on has waited for longer. *)
Tick ==
  /\ ~Runnable
  /\ idle' = [i \in StreamNumbers |->
                IF rx[i] = "receiving" /\ ~Flowing(i) THEN idle[i] + 1 ELSE 0]
  /\ slept' = TRUE
  /\ UNCHANGED <<created, main, handlerVars, reportVars, rx, an_stop, txVars,
                 cardVars, fault>>

ShutdownNext ==
  \/ ThreadStep \/ Tick \/ Signal \/ ReportNoLog
  \/ \E i \in StreamNumbers : RxGiveUp(i) \/ LinkChange(i)

ShutdownSpec == ShutdownInit /\ [][ShutdownNext]_shutdownVars

(* Threads and time go on; signals and faults need not happen. *)
FairShutdownSpec == ShutdownSpec /\ WF_shutdownVars(ThreadStep) /\ WF_shutdownVars(Tick)

-----------------------------------------------------------------------------
(* Properties. *)

(* "Waiting for thread to stop..." (src/flow_test/flow_test.c:169): no stream
   is detached, and the card not closed, under a thread that still receives,
   whatever goes wrong. *)
RxDetachedUnused ==
  \A i \in StreamNumbers : rx[i] = "receiving" => rxAttached[i] /\ opened

(* The sending threads are not waited for; that they have left their streams
   when these are detached follows from the 20 seconds the receivers see
   nothing, unless the link has been held up. *)
TxDetachedUnused ==
  "stall" \notin fault =>
    \A i \in StreamNumbers : tx[i] = "sending" => txAttached[i] /\ opened

(* "wait rx_teriminal 20Sec" (src/flow_test/flow_test.c:180): a shutdown comes
   to its end, through the threads' flags and their time limit, unless one of
   the faults keeps a flag from being set or a stream from draining. *)
ShutdownEnds == shutdownInProgress ~> (handler = "closed" \/ fault # {})
=============================================================================
