---------------------------- MODULE MacLowLevel ----------------------------
(***************************************************************************)
(* The lower half of the 802.15.4 MAC of the CC2530 (mac_tx.c, mac_rx.c,   *)
(* mac_rx_onoff.c, mac_sleep.c, mac_radio.c, mac_csp_tx.c), for unslotted  *)
(* CSMA.  Calls of the upper half run in the main loop and may be cut by   *)
(* an interrupt wherever they are not in a critical section (pc).  The RF  *)
(* and the RF error interrupt have one priority, so each of their service  *)
(* routines is one step.  The strobe processor (CSP), the receiver and the *)
(* automatic acknowledgement run beside both.                              *)
(*                                                                         *)
(* mac is the memory and the registers together: a routine is a function   *)
(* from mac to mac, and a routine that calls another one composes them.    *)
(***************************************************************************)
EXTENDS Naturals, Sequences

CONSTANTS MaxCsmaBackoffs,      \* macPib.maxCsmaBackoffs
          FifoSize,             \* bound: parts of frames in the receive FIFO
          Prompt                \* whether the interrupts are served within
                                \* the time of a frame: TRUE, FALSE, or both

ASSUME MacAssumption ==
  MaxCsmaBackoffs \in Nat /\ FifoSize \in Nat \ {0} /\ Prompt \subseteq BOOLEAN

VARIABLES mac, pc, prompt

vars == <<mac, pc, prompt>>

(* What comes over the air: a frame to be acknowledged, one that is not,   *)
(* one with a bad checksum; the acknowledgement waited for, another one.   *)
(* A frame is read in two parts, an acknowledgement in one.                *)
DataKinds == {"data", "plain", "bad"}
AckKinds == {"ack", "stray"}
Kinds == DataKinds \cup AckKinds
Parts == (Kinds \X {"head"}) \cup (DataKinds \X {"tail"})
Fifos == UNION {[1 .. n -> Parts] : n \in 0 .. FifoSize}

TxStates == {"none", "initialize", "queued", "go", "channelBusy", "listen", "postAck", "done"}
Confirms == {"idle", "owed", "success", "noAck", "channelAccessFailure", "aborted", "twice"}

Mac ==
  [tx : TxStates,                       \* macTxActive
   ackReq : BOOLEAN,                    \* txAckReq
   nb : 0 .. MaxCsmaBackoffs + 1,
   rx : {"none", "started", "done"},    \* macRxActive
   outAck : BOOLEAN,                    \* macRxOutgoingAckFlag
   state : {"start", "frame", "discard"},       \* pFuncRxState
   buf : BOOLEAN,                       \* pRxBuf # NULL
   inIsr : BOOLEAN, reset : BOOLEAN,    \* rxIsrActiveFlag, rxResetFlag
   on : BOOLEAN,                        \* macRxOnFlag and the receiver
   enable : {"off", "soft", "on"},      \* macRxEnableFlags, how they were set
   awake : BOOLEAN,                     \* macSleepState
   tune : BOOLEAN,                      \* reqChannel # macPhyChannel
   csp : {"off", "backoff", "air", "timer"},    \* what the CSP does
   cspz : {"busy", "done", "ack"},      \* CSPZ
   stopIM : BOOLEAN, stopIF : BOOLEAN,  \* CSP_STOP: enabled, raised
   manint : {"off", "enabled", "raised"},       \* CSP_MANINT: frame started
   ackIM : BOOLEAN, ackIF : BOOLEAN,    \* TXACKDONE: enabled, raised
   fifo : Fifos, fifop : BOOLEAN,
   coming : {"none"} \cup DataKinds,    \* frame whose tail is on the air
   acking : BOOLEAN, nack : BOOLEAN,    \* automatic acknowledgement
   confirm : Confirms,                  \* what the upper half was told
   sent : BOOLEAN, heard : BOOLEAN,     \* the frame was on the air, its
                                        \* acknowledgement was received
   ok : BOOLEAN]                        \* no MAC_ASSERT has failed

Init ==
  /\ mac = [tx |-> "none", ackReq |-> FALSE, nb |-> 0,
            rx |-> "none", outAck |-> FALSE, state |-> "start", buf |-> FALSE,
            inIsr |-> FALSE, reset |-> FALSE,
            on |-> FALSE, enable |-> "off", awake |-> TRUE, tune |-> FALSE,
            csp |-> "off", cspz |-> "busy", stopIM |-> FALSE, stopIF |-> FALSE,
            manint |-> "off", ackIM |-> FALSE, ackIF |-> FALSE, fifo |-> <<>>, fifop |-> FALSE,
            coming |-> "none", acking |-> FALSE, nack |-> FALSE,
            confirm |-> "idle", sent |-> FALSE, heard |-> FALSE, ok |-> TRUE]
  /\ pc = "idle" /\ prompt \in Prompt

Assert(m, holds) == [m EXCEPT !.ok = @ /\ holds]
-----------------------------------------------------------------------------
(* The receiver on and off.                                                *)
RxPhysical(m) == m.rx = "started" \/ m.outAck
TxPhysical(m) == m.tx \in {"go", "done", "listen", "postAck"}

Flush(m) == [m EXCEPT !.fifo = <<>>, !.fifop = FALSE, !.coming = "none"]

macRxOn(m) == [m EXCEPT !.on = TRUE]
macRxOff(m) == IF m.on THEN [Flush(m) EXCEPT !.on = FALSE, !.acking = FALSE] ELSE m
macRxOnRequest(m) == IF m.enable # "off" THEN macRxOn(m) ELSE m

(* Mutant: the acknowledgement being sent is forgotten.                    *)
macRxOffRequest_txOnly(m) == IF m.enable = "off" /\ ~TxPhysical(m) THEN macRxOff(m) ELSE m
macRxOffRequest(m) ==
  IF m.enable = "off" /\ ~RxPhysical(m) /\ ~TxPhysical(m) THEN macRxOff(m) ELSE m

(* A transmission starts: CSMA, with the receiver on to listen first.      *)
Prepare(m) == [Assert(m, ~m.stopIM) EXCEPT !.cspz = "busy", !.csp = "off", !.stopIF = FALSE]
GoCsma(m) == [macRxOn(m) EXCEPT !.stopIM = TRUE, !.manint = "enabled",
                                  !.csp = "backoff"]
txGo(m) == GoCsma([m EXCEPT !.ackIM = FALSE, !.outAck = FALSE])

(* Mutant: a frame that waits is not started.                              *)
macTxStartQueuedFrame_never(m) == Assert(m, m.rx = "none" /\ ~m.outAck)
macTxStartQueuedFrame(m) ==
  LET a == Assert(m, m.rx = "none" /\ ~m.outAck) IN
  IF m.tx = "queued" THEN txGo([a EXCEPT !.tx = "go"]) ELSE a

rxPostRxUpdates(m) == macTxStartQueuedFrame(macRxOffRequest(m))

(* A receive is cut short, at once or, within the receive interrupt, when  *)
(* that one ends.                                                          *)
rxHaltCleanupFinalStep(m) ==
  LET a == [Flush(m) EXCEPT !.ackIM = FALSE, !.buf = FALSE, !.state = "start",
                            !.rx = "none", !.outAck = FALSE, !.reset = FALSE]
  IN IF m.rx # "none" \/ m.outAck THEN rxPostRxUpdates(a) ELSE a
macRxHaltCleanup(m) ==
  IF m.inIsr THEN [m EXCEPT !.reset = TRUE] ELSE rxHaltCleanupFinalStep(m)

macRadioUpdateChannel(m) ==
  LET a == Assert(m, m.tx = "none") IN
  IF m.tune THEN macRxOnRequest(macRxHaltCleanup(macRxOff([a EXCEPT !.tune = FALSE]))) ELSE a
-----------------------------------------------------------------------------
(* The end of a transmission, and what leads to it.                        *)
macTxCompleteCallback(m, status) ==
  [m EXCEPT !.confirm = IF @ = "owed" THEN status ELSE "twice"]
txComplete(m, status) ==
  macTxCompleteCallback(
    macRadioUpdateChannel(macRxOffRequest([m EXCEPT !.tx = "none"])), status)

macTxChannelBusyCallback(m) ==
  LET a == macRxOffRequest([m EXCEPT !.tx = "channelBusy"]) IN
  IF m.nb >= MaxCsmaBackoffs
  THEN txComplete([a EXCEPT !.nb = @ + 1], "channelAccessFailure")
  ELSE GoCsma([Prepare([a EXCEPT !.nb = @ + 1]) EXCEPT !.tx = "go"])

RequestAckTimeout(m) ==
  [Assert(m, ~m.stopIM) EXCEPT !.cspz = "ack", !.stopIF = FALSE,
                               !.stopIM = TRUE, !.csp = "timer"]
CancelAckTimeout(m) == [m EXCEPT !.stopIM = FALSE, !.csp = "off"]

(* May be called twice for one transmission, so it looks at tx first.      *)
macTxDoneCallback(m) ==
  IF m.tx # "go" THEN m
  ELSE IF m.ackReq THEN RequestAckTimeout([m EXCEPT !.tx = "listen"])
  ELSE txComplete([m EXCEPT !.tx = "done"], "success")

(* Mutant: it is not asked whether one is waited for.                      *)
AckEnds_always(m, status) == txComplete(CancelAckTimeout([m EXCEPT !.tx = "postAck"]), status)
AckEnds(m, status) ==
  IF m.tx = "listen"
  THEN txComplete(CancelAckTimeout([m EXCEPT !.tx = "postAck"]), status) ELSE m
(* Mutant: any acknowledgement will do.                                    *)
macTxAckReceivedCallback_anySeqn(m, seqnMatches) == AckEnds(m, "success")
macTxAckReceivedCallback(m, seqnMatches) ==
  AckEnds(m, IF seqnMatches THEN "success" ELSE "noAck")
macTxAckNotReceivedCallback(m) == AckEnds(m, "noAck")

macCspForceTxDoneIfPending(m) ==
  IF m.cspz = "done" /\ m.stopIM
  THEN macTxDoneCallback([m EXCEPT !.stopIM = FALSE, !.manint = "off"]) ELSE m

macCspTxStopIsr(m) ==
  LET a == [m EXCEPT !.stopIM = FALSE, !.stopIF = FALSE] IN
  CASE m.cspz = "done" -> macTxDoneCallback(a)
    [] m.cspz = "busy" -> macTxChannelBusyCallback(a)
    [] m.cspz = "ack"  -> macTxAckNotReceivedCallback(a)
-----------------------------------------------------------------------------
(* The receive interrupt: the beginning of a frame, then its rest.         *)
(* Mutant: the acknowledgement of the frame is not waited for.             *)
rxDone_always(m) == rxPostRxUpdates([m EXCEPT !.rx = "none"])
(* A FIFO that has overflowed is emptied here already (1184); that is left *)
(* to the interrupt of the overflow.                                       *)
rxDone(m) ==
  LET a == [m EXCEPT !.rx = "none"] IN IF m.outAck THEN a ELSE rxPostRxUpdates(a)

(* A frame that is filtered out, malformed, or for which there is no       *)
(* buffer is read and dropped.  One so short that nothing of it is left to *)
(* be read (1270) ends like an acknowledgement with a bad checksum.        *)
rxDiscardFrame(m) == [m EXCEPT !.state = "discard"]

(* It is read into a buffer, and the end of its acknowledgement asked for. *)
KeepFrame(m, kind) ==
  LET a == [m EXCEPT !.buf = TRUE, !.state = "frame", !.outAck = kind # "plain"] IN
  IF a.outAck THEN [a EXCEPT !.ackIF = FALSE, !.ackIM = TRUE] ELSE a

(* sound: the checksum of an acknowledgement is right, or a frame passes   *)
(* the filter and is well formed.  When there is no memory for it the      *)
(* acknowledgement is called off; one that is filtered out the radio still *)
(* acknowledges.                                                           *)
HandleAck(m, kind, sound) ==
  rxDone(IF m.tx # "listen" THEN m
         ELSE IF sound THEN macTxAckReceivedCallback(m, kind = "ack")
         ELSE macTxAckNotReceivedCallback(m))
HandleFrame(m, kind, sound, memory) ==
  LET a == macTxAckNotReceivedCallback(m) IN
  IF ~sound THEN rxDiscardFrame(a)
  ELSE IF memory THEN KeepFrame(a, kind) ELSE rxDiscardFrame([a EXCEPT !.nack = TRUE])

(* A completion forced here may change the channel and empty the FIFO; the *)
(* frame is then read as if it were there, and dropped by the reset.       *)
rxStartIsr(m, sound, memory) ==
  LET a == [Assert(m, m.rx = "none") EXCEPT !.rx = "started"]
      b == [macCspForceTxDoneIfPending(a) EXCEPT !.ackIM = FALSE, !.outAck = FALSE]
      c == [b EXCEPT !.fifo = IF @ = <<>> THEN @ ELSE Tail(@)]
      kind == Head(m.fifo)[1]
  IN IF ~m.on \/ m.fifo = <<>> THEN rxPostRxUpdates([a EXCEPT !.rx = "none"])
     ELSE IF kind \in AckKinds THEN HandleAck(c, kind, sound)
     ELSE HandleFrame(c, kind, sound, memory)

rxFcsIsr(m) ==
  LET a == [m EXCEPT !.fifo = Tail(@), !.buf = FALSE]
      good == macRxOffRequest([a EXCEPT !.rx = "done"])
      bad == [a EXCEPT !.ackIM = FALSE, !.outAck = FALSE]
  IN rxDone([(IF Head(m.fifo)[1] = "bad" THEN bad ELSE good) EXCEPT !.state = "start"])

rxDiscardIsr(m) == rxDone([m EXCEPT !.fifo = Tail(@), !.state = "start"])

macRxThresholdIsr(m, sound, memory) ==
  LET i == [m EXCEPT !.inIsr = TRUE]
      j == CASE m.state = "start"   -> rxStartIsr(i, sound, memory)
             [] m.state = "frame"   -> rxFcsIsr(i)
             [] m.state = "discard" -> rxDiscardIsr(i)
      k == [j EXCEPT !.inIsr = FALSE, !.fifop = j.fifo # <<>>]
  IN IF j.reset THEN rxHaltCleanupFinalStep(k) ELSE k

macRxAckTxDoneCallback(m) ==
  LET a == [m EXCEPT !.ackIM = FALSE, !.outAck = FALSE] IN
  IF m.rx = "none" THEN rxPostRxUpdates(a) ELSE a
-----------------------------------------------------------------------------
(* The interrupts.  One pass serves one of the first three sources, and    *)
(* the receiver.                                                           *)
FirstSource(m) ==
  IF m.manint = "raised" THEN [m EXCEPT !.manint = "off"]
  ELSE IF m.stopIF /\ m.stopIM THEN macCspTxStopIsr(m)
  ELSE IF m.ackIF /\ m.ackIM THEN macRxAckTxDoneCallback(m)
  ELSE m

RfPending(m) == \/ m.manint = "raised"
                \/ m.stopIF /\ m.stopIM
                \/ m.ackIF /\ m.ackIM
                \/ m.fifop

macMcuRfIsr ==
  /\ RfPending(mac)
  /\ \E sound, memory \in BOOLEAN :
       LET a == FirstSource(mac) IN
       mac' = IF a.fifop THEN macRxThresholdIsr(a, sound, memory) ELSE a
  /\ UNCHANGED <<pc, prompt>>

(* More bytes came in than the FIFO holds.                                 *)
macMcuRfErrIsr ==
  /\ Len(mac.fifo) = FifoSize
  /\ mac' = macRxHaltCleanup(mac)
  /\ UNCHANGED <<pc, prompt>>

(* The strobe processor.  It listens before it sends, and does not find    *)
(* the channel clear while a frame comes in.                               *)
Hardware(m) == mac' = m /\ UNCHANGED <<pc, prompt>>

CspBusy == /\ mac.csp = "backoff" /\ mac.on
           /\ Hardware([mac EXCEPT !.csp = "off", !.stopIF = TRUE])
CspSends == /\ mac.csp = "backoff" /\ mac.on
            /\ mac.coming = "none" /\ ~mac.acking
            /\ Hardware([mac EXCEPT !.csp = "air", !.manint = "raised"])
CspSent == /\ mac.csp = "air"
           /\ prompt => mac.manint # "raised"
           /\ Hardware([mac EXCEPT !.csp = "off", !.cspz = "done", !.stopIF = TRUE,
                                   !.sent = TRUE])
AckTimeout == /\ mac.csp = "timer"
              /\ Hardware([mac EXCEPT !.csp = "off", !.stopIF = TRUE])
Csp == CspBusy \/ CspSends \/ CspSent \/ AckTimeout

(* The receiver.                                                           *)
Received(m, part) == [m EXCEPT !.fifo = Append(@, part), !.fifop = TRUE]

FrameBegins(kind) ==
  /\ mac.on /\ mac.csp # "air" /\ ~mac.acking /\ mac.coming = "none"
  /\ Len(mac.fifo) < FifoSize
  /\ prompt => mac.fifo = <<>> /\ mac.state = "start"
  /\ kind = "ack" => mac.sent /\ ~mac.heard
  /\ Hardware([Received(mac, <<kind, "head">>) EXCEPT
                  !.coming = IF kind \in DataKinds THEN kind ELSE "none",
                  !.nack = FALSE,
                  !.heard = @ \/ kind = "ack"])

(* A good frame that asks for it is acknowledged by the radio itself.      *)
FrameEnds ==
  /\ mac.coming # "none" /\ Len(mac.fifo) < FifoSize
  /\ prompt => ~mac.fifop
  /\ Hardware([Received(mac, <<mac.coming, "tail">>) EXCEPT
                  !.coming = "none",
                  !.acking = mac.coming = "data" /\ ~mac.nack])

AckSent == /\ mac.acking
           /\ Hardware([mac EXCEPT !.acking = FALSE, !.ackIF = TRUE])

Air == \/ \E kind \in Kinds : FrameBegins(kind)
       \/ FrameEnds \/ AckSent
-----------------------------------------------------------------------------
(* The calls of the upper half.  It asks for one transmission at a time.   *)
At(p, m, q) == pc = p /\ mac' = m /\ pc' = q /\ UNCHANGED prompt

Transmit(m) ==
  LET a == [Assert(m, m.tx = "none") EXCEPT !.tx = "initialize", !.confirm = "owed",
                                            !.sent = FALSE]
  IN IF m.awake THEN At("idle", a, "prepare")
     ELSE At("idle", txComplete(a, "aborted"), "idle")

(* A new frame has another sequence number: an old acknowledgement that    *)
(* still waits in the FIFO is not its own.                                 *)
Aged(part) == IF part = <<"ack", "head">> THEN <<"stray", "head">> ELSE part

macTxFrame ==
  /\ mac.confirm # "owed"
  /\ \E ackReq \in BOOLEAN :
       Transmit([mac EXCEPT !.ackReq = ackReq, !.heard = FALSE,
                            !.fifo = [i \in DOMAIN @ |-> Aged(@[i])]])
macTxFrameRetransmit ==
  mac.confirm \in {"noAck", "channelAccessFailure"} /\ Transmit(mac)

PrepareFrame == At("prepare", [Prepare(mac) EXCEPT !.nb = 0], "start")

(* The critical section: behind a frame that is being received it waits.   *)
StartFrame ==
  IF mac.rx = "none" /\ ~mac.outAck
  THEN At("start", [mac EXCEPT !.tx = "go"], "cancel")
  ELSE At("start", [mac EXCEPT !.tx = "queued"], "idle")

(* txGo of the main loop is not in a critical section.                     *)
GoCancel == At("cancel", [mac EXCEPT !.ackIM = FALSE], "clear")
GoClear == At("clear", [mac EXCEPT !.outAck = FALSE], "csma")
GoStart == At("csma", GoCsma(mac), "idle")

macRxEnable == mac.awake /\ At("idle", macRxOn([mac EXCEPT !.enable = "on"]), "idle")
macRxSoftEnable ==
  /\ mac.awake /\ mac.enable = "off"
  /\ At("idle", [mac EXCEPT !.enable = "soft"], "idle")
macRxDisable == mac.enable # "off" /\ At("idle", [mac EXCEPT !.enable = "off"], "off")
RequestOff == At("off", macRxOffRequest(mac), "idle")

macRadioSetChannel ==
  /\ mac.awake /\ ~mac.tune
  /\ LET a == [mac EXCEPT !.tune = TRUE] IN
     At("idle", IF mac.tx = "none" THEN macRadioUpdateChannel(a) ELSE a, "idle")

(* macLowLevelReset, with the interrupts off and nothing being sent.       *)
macRxHardDisable ==
  /\ mac.awake /\ mac.tx = "none"
  /\ At("idle", macRxHaltCleanup([Flush(mac) EXCEPT
                   !.enable = "off", !.on = FALSE, !.acking = FALSE]), "idle")

SleepAllowed(m) == m.rx = "none" /\ ~m.outAck /\ m.tx = "none" /\ m.enable = "off"
macSleep ==
  /\ mac.awake /\ SleepAllowed(mac)
  /\ At("idle", [macRxOff(mac) EXCEPT !.awake = FALSE], "idle")
macSleepWakeUp ==
  ~mac.awake /\ At("idle", macRxOnRequest([mac EXCEPT !.awake = TRUE, !.fifop = FALSE]), "idle")

Continues == PrepareFrame \/ StartFrame \/ GoCancel \/ GoClear \/ GoStart \/ RequestOff
Call == \/ macTxFrame \/ macTxFrameRetransmit \/ macRxEnable \/ macRxSoftEnable
        \/ macRxDisable \/ macRadioSetChannel \/ macRxHardDisable \/ macSleep \/ macSleepWakeUp

Next == macMcuRfIsr \/ macMcuRfErrIsr \/ Csp \/ Air \/ Continues \/ Call

Spec == Init /\ [][Next]_vars

(* Interrupts are served, the main loop goes on, the radio finishes what   *)
(* it began.  For the first two weak fairness is written out: their guards *)
(* are known, and TLC need not find out whether the routines have a step.  *)
MacFairness ==
  /\ []<>~RfPending(mac) \/ []<><<macMcuRfIsr>>_vars
  /\ []<>(pc = "idle") \/ []<><<Continues>>_vars
  /\ WF_vars(Csp) /\ WF_vars(FrameEnds) /\ WF_vars(AckSent)

FairSpec == Spec /\ MacFairness
-----------------------------------------------------------------------------
(* The types; between two interrupts none is being served.                 *)
TypeOK == /\ mac \in Mac /\ ~mac.inIsr /\ ~mac.reset
          /\ pc \in {"idle", "prepare", "start", "cancel", "clear", "csma", "off"}
          /\ prompt \in BOOLEAN

(* Every transmission asked for is confirmed once: as long as the low      *)
(* level works on it the upper half is owed an answer, and then no longer, *)
(* although the end of a frame may be noticed by two interrupts.           *)
ConfirmedOnce == mac.confirm # "twice" /\ (mac.confirm = "owed" <=> mac.tx # "none")

(* Success means that the frame was on the air, and if it asked for an     *)
(* acknowledgement that this one came.                                     *)
SuccessIsTrue ==
  mac.confirm = "success" => mac.sent /\ (mac.ackReq => mac.heard)

(* The receiver is on while it is needed - it was enabled, a frame waits   *)
(* for a clear channel, is sent, or for its acknowledgement, or one is     *)
(* received or acknowledged - and off when nothing needs it, also during   *)
(* sleep.                                                                  *)
Needed == \/ mac.enable = "on" /\ mac.awake
          \/ mac.csp # "off"
          \/ mac.tx = "listen"
          \/ RxPhysical(mac)
Unneeded == /\ mac.enable = "off" /\ pc = "idle"
            /\ mac.tx = "none" /\ mac.rx = "none" /\ ~mac.outAck
ReceiverFollows == (Needed => mac.on) /\ (Unneeded \/ ~mac.awake => ~mac.on)

(* No assertion of the code fails: no receive begins within another, no    *)
(* transmission is started or its program loaded while one runs or a frame *)
(* comes in, the channel stays during a transmission.  The receive buffer  *)
(* is there exactly while a frame is read into it, so none is lost.        *)
AssertsHold == mac.ok /\ (mac.buf <=> mac.state = "frame")
                      /\ (mac.rx = "none" <=> mac.state = "start")

(* No transmission is forgotten, however late the interrupts are served:   *)
(* while the upper half waits for an answer the main loop is about to      *)
(* start the frame, the strobe processor works on it or has raised an      *)
(* interrupt that is enabled, or the frame waits behind a receive that is  *)
(* not over, whose end starts it (macTxStartQueuedFrame).                  *)
InHand ==
  mac.confirm = "owed" =>
    \/ pc \in {"prepare", "start", "cancel", "clear", "csma"}
    \/ mac.csp # "off"
    \/ mac.stopIM /\ mac.stopIF
    \/ mac.tx = "queued" /\ RxPhysical(mac)

(* Every transmission is confirmed in the end, if the interrupts are       *)
(* served within the time of a frame.  If they are not, an acknowledgement *)
(* that ended before KeepFrame cleared its flag is waited for in vain      *)
(* (mac_rx.c:762), and a queued transmission until the next frame is kept. *)
Confirmed == prompt /\ mac.confirm = "owed" ~> mac.confirm # "owed"
=============================================================================
