------------------------------ MODULE CoproLink ------------------------------
(***************************************************************************)
(* The link between the launcher and the neural-network firmware on the    *)
(* Cortex-M4: copro.c's remoteproc and ttyRPMSG calls on this side, the    *)
(* firmware (not in the repository) on the other.  Frames are kept as      *)
(* records of their meaning.  The receive side keeps what the reader can   *)
(* tell apart: the first frame waiting in the tty and the number of bytes  *)
(* waiting, because one read takes them all and decodes the first only.    *)
(***************************************************************************)
EXTENDS Naturals, Sequences, FiniteSets

CONSTANTS Letters,    \* the letters the network can answer
          NoLetter,   \* ai_result_state.character = 0
          Faults,     \* what the coprocessor may do wrong
          MaxFaults   \* bound: none goes wrong once so many have timed out

ASSUME LinkAssumption ==
  /\ NoLetter \notin Letters
  /\ Faults \subseteq {"drop", "late", "nack"}
  /\ MaxFaults \in Nat

VARIABLES fw,         \* the firmware remoteproc runs: "off", "other" or "ours"
          mFdRpmsg,   \* /dev/ttyRPMSG0 is open
          txq,        \* requests written and not yet handled by the firmware
          rx,         \* the tty's input: first frame, bytes, requests they answer
          nreq,       \* the number of requests made so far; request ids start at 0
          answered,   \* the requests whose answer was read
          overdue     \* the requests not answered within 500 ms, or never, or whose
                      \* timeout came before their answer was dealt with

linkVars == <<fw, mFdRpmsg, txq, rx, nreq, answered, overdue>>

RequestTypes == {"input_type", "coordinates", "start_nn"}
Requests == [type : RequestTypes, id : Nat]

Frames == [type : {"ack", "coord_ack", "bad_ack"}, letter : {NoLetter}]
            \union [type : {"result"}, letter : Letters]
NoFrame == [type |-> "none", letter |-> NoLetter]

\* msg ID, length and CRC around the data bytes.
FrameBytes(f) == CASE f.type = "coord_ack" -> 4
                   [] f.type = "result"    -> 7
                   [] OTHER                -> 3

EmptyRx == [head |-> NoFrame, bytes |-> 0, ids |-> {}]

LinkInit ==
  /\ fw \in {"off", "other", "ours"}
  /\ mFdRpmsg = FALSE
  /\ txq = <<>>
  /\ rx = EmptyRx
  /\ nreq = 0
  /\ answered = {}
  /\ overdue = {}

\* copro_isFwRunning and copro_getFwName read remoteproc's state.
isFwRunning == fw # "off"
isFwOurs == fw = "ours"

\* copro_stopFw, and copro_startFw of the firmware just named: remoteproc may
\* still refuse to start it, which the write does not tell.
stopFw == fw' = "off"
startFw == fw' \in {"ours", "off"}

\* The tty exists while the firmware runs.
openTtyRpmsg == mFdRpmsg' = isFwOurs
closeTtyRpmsg == mFdRpmsg' = FALSE

\* copro_writeTtyRpmsg: without an open tty the write fails, the callers only
\* print, and the request will never be answered.
WriteRequest(type) ==
  /\ nreq' = nreq + 1
  /\ IF mFdRpmsg
     THEN /\ txq' = Append(txq, [type |-> type, id |-> nreq])
          /\ UNCHANGED overdue
     ELSE /\ overdue' = overdue \union {nreq}
          /\ UNCHANGED txq
  /\ UNCHANGED <<fw, mFdRpmsg, rx, answered>>

\* copro_readTtyRpmsg: everything FIONREAD announces, in one read.
ReadAll ==
  /\ rx' = EmptyRx
  /\ answered' = answered \union rx.ids
  /\ UNCHANGED <<fw, mFdRpmsg, txq, nreq, overdue>>

-----------------------------------------------------------------------------
(* The firmware, as the protocol of readme.txt describes it. *)

Answers(request) ==
  CASE request.type = "input_type"  -> [type : {"ack"}, letter : {NoLetter}]
    [] request.type = "coordinates" -> [type : {"coord_ack"}, letter : {NoLetter}]
    [] request.type = "start_nn"    -> [type : {"result"}, letter : Letters]

Arrive(f, id) ==
  rx' = [head  |-> IF rx.bytes = 0 THEN f ELSE rx.head,
         bytes |-> rx.bytes + FrameBytes(f),
         ids   |-> rx.ids \union {id}]

FwReceives == fw = "ours" /\ txq # <<>> /\ txq' = Tail(txq)

\* One request is handled, in order, and answered.
FwAnswer ==
  /\ FwReceives
  /\ \E f \in Answers(Head(txq)) : Arrive(f, Head(txq).id)
  /\ UNCHANGED <<fw, mFdRpmsg, nreq, answered, overdue>>

\* It is refused with a bad acknowledge.
FwNack ==
  /\ "nack" \in Faults
  /\ Cardinality(overdue) < MaxFaults
  /\ FwReceives
  /\ Arrive([type |-> "bad_ack", letter |-> NoLetter], Head(txq).id)
  /\ UNCHANGED <<fw, mFdRpmsg, nreq, answered, overdue>>

\* It is lost.
FwDrop ==
  /\ "drop" \in Faults
  /\ Cardinality(overdue) < MaxFaults
  /\ FwReceives
  /\ overdue' = overdue \union {Head(txq).id}
  /\ UNCHANGED <<fw, mFdRpmsg, rx, nreq, answered>>

\* It stays in the queue for more than 500 ms before it is handled.
FwStall ==
  /\ "late" \in Faults
  /\ Cardinality(overdue) < MaxFaults
  /\ fw = "ours" /\ txq # <<>> /\ Head(txq).id \notin overdue
  /\ overdue' = overdue \union {Head(txq).id}
  /\ UNCHANGED <<fw, mFdRpmsg, txq, rx, nreq, answered>>

Firmware == FwAnswer \/ FwNack \/ FwDrop \/ FwStall
=============================================================================
