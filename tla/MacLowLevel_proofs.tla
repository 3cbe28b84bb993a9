------------------------- MODULE MacLowLevel_proofs -------------------------
(***************************************************************************)
(* The lower half of the MAC, for any number of backoffs and any size of   *)
(* the receive FIFO, whether or not the interrupts are served in time:     *)
(* every transmission is confirmed once and truthfully, the receiver is on *)
(* while it is needed, and no assertion of the code fails.                 *)
(*                                                                         *)
(* The routines are functions from mac to mac, so the invariant is carried *)
(* through them one by one: a lemma for each routine says what it keeps.   *)
(***************************************************************************)
EXTENDS MacLowLevel, SequenceTheorems, TLAPS

-----------------------------------------------------------------------------
(* The inductive invariant, of a mac m while the main loop is at p.        *)

(* The upper half is owed an answer while a transmission is at work, and   *)
(* is told the truth.                                                      *)
Answers(m) ==
  /\ m.confirm = "owed" <=> m.tx # "none"
  /\ m.confirm # "twice"
  /\ m.confirm = "success" => m.sent /\ (m.ackReq => m.heard)

(* What the main loop does to the transmission.                            *)
Stage(m, p) ==
  /\ p \in {"idle", "prepare", "start", "cancel", "clear", "csma", "off"}
  /\ p \in {"prepare", "start"} => m.tx = "initialize"
  /\ p \in {"cancel", "clear", "csma"} => m.tx = "go"
  /\ p \in {"idle", "off"} => m.tx \in {"none", "queued", "go", "listen"}

(* The strobe processor runs, and its interrupt is awaited, exactly for a  *)
(* frame on its way to the air or an acknowledgement that is waited for.   *)
Running(m, p) == m.tx = "go" /\ p \notin {"cancel", "clear", "csma"}

AtRest(m) == m.csp = "off" /\ ~m.stopIM
Loaded(m) == m.cspz = "busy" /\ ~m.stopIF /\ m.nb <= MaxCsmaBackoffs
Sending(m) ==
  /\ m.nb <= MaxCsmaBackoffs
  /\ \/ m.csp \in {"backoff", "air"} /\ m.cspz = "busy" /\ ~m.stopIF
     \/ m.csp = "off" /\ m.cspz = "busy" /\ m.stopIF
     \/ m.csp = "off" /\ m.cspz = "done" /\ m.stopIF /\ m.sent
Listening(m) ==
  /\ m.sent /\ m.ackReq /\ m.cspz = "ack"
  /\ \/ m.csp = "timer" /\ ~m.stopIF
     \/ m.csp = "off" /\ m.stopIF

Program(m, p) ==
  /\ ~Running(m, p) /\ m.tx # "listen" => AtRest(m)
  /\ p \in {"start", "cancel", "clear", "csma"} => Loaded(m)
  /\ m.tx = "queued" => Loaded(m)
  /\ Running(m, p) => m.on /\ m.stopIM /\ Sending(m)
  /\ m.tx = "listen" => m.on /\ m.stopIM /\ Listening(m)

(* Nothing is received while the receiver is off, and no acknowledgement   *)
(* but one that was heard.                                                 *)
Radio(m) ==
  /\ m.on => m.awake
  /\ ~m.awake => m.enable = "off"
  /\ ~m.on => m.fifo = <<>> /\ m.coming = "none"
  /\ \A i \in DOMAIN m.fifo : m.fifo[i][1] = "ack" => m.heard

Asleep(m, p) == ~m.awake => m.tx = "none" /\ p = "idle"

(* The part of the invariant that holds inside the interrupts, too.        *)
Rest(m, p) ==
  Stage(m, p) /\ Program(m, p) /\ Radio(m) /\ Asleep(m, p) /\ m.ok
Base(m, p) == Answers(m) /\ Rest(m, p)

(* The receiver is off if nothing needs it, on if a frame is received; a   *)
(* frame waits only for a receive that will start it.                      *)
IdleOff(m, p) ==
  /\ m.on /\ p = "idle" => m.enable # "off" \/ m.tx # "none" \/ RxPhysical(m)
  /\ m.tx = "queued" => RxPhysical(m)
BusyOn(m) == RxPhysical(m) => m.on
EnabledOn(m) == m.enable = "on" /\ m.awake => m.on

Receive(m) ==
  /\ m.buf <=> m.state = "frame"
  /\ m.rx = "none" <=> m.state = "start"
  /\ m.rx # "done"

Fifop(m) == m.fifop => m.fifo # <<>>

IInv(m, p) ==
  /\ m \in Mac /\ Base(m, p) /\ IdleOff(m, p) /\ BusyOn(m) /\ EnabledOn(m)
  /\ Receive(m) /\ Fifop(m) /\ ~m.inIsr /\ ~m.reset

-----------------------------------------------------------------------------
(* The receive FIFO.                                                       *)

LEMMA FifoType ==
  ASSUME NEW f
  PROVE  f \in Fifos <=> f \in Seq(Parts) /\ Len(f) <= FifoSize
<1>1. ASSUME f \in Fifos PROVE f \in Seq(Parts) /\ Len(f) <= FifoSize
  <2>1. PICK n \in 0 .. FifoSize : f \in [1 .. n -> Parts]
    BY <1>1 DEF Fifos
  <2>2. f \in Seq(Parts) /\ Len(f) = n
    BY <2>1
  <2> QED
    BY <2>1, <2>2, MacAssumption
<1>2. ASSUME f \in Seq(Parts), Len(f) <= FifoSize PROVE f \in Fifos
  <2>1. Len(f) \in 0 .. FifoSize /\ f \in [1 .. Len(f) -> Parts]
    BY <1>2, MacAssumption
  <2> QED
    BY <2>1 DEF Fifos
<1> QED
  BY <1>1, <1>2

LEMMA EmptyFifo == <<>> \in Fifos
<1>1. <<>> \in Seq(Parts) /\ Len(<<>>) <= FifoSize
  BY MacAssumption
<1> QED
  BY <1>1, FifoType

LEMMA TailFifo ==
  ASSUME NEW f \in Fifos, f # <<>>
  PROVE  /\ Tail(f) \in Fifos
         /\ \A i \in DOMAIN Tail(f) : i + 1 \in DOMAIN f /\ Tail(f)[i] = f[i + 1]
<1>1. f \in Seq(Parts) /\ Len(f) <= FifoSize /\ Len(f) \in Nat \ {0}
  BY FifoType
<1>2. /\ Tail(f) \in Seq(Parts) /\ Len(Tail(f)) = Len(f) - 1
      /\ \A i \in DOMAIN Tail(f) : i + 1 \in DOMAIN f /\ Tail(f)[i] = f[i + 1]
  BY <1>1
<1>3. Len(Tail(f)) <= FifoSize
  BY <1>1, <1>2, MacAssumption
<1> QED
  BY <1>2, <1>3, FifoType

-----------------------------------------------------------------------------
(* What a routine leaves alone, by groups of fields.                       *)
Fix(m, n) ==
  /\ n.ackReq = m.ackReq /\ n.enable = m.enable /\ n.awake = m.awake
  /\ n.sent = m.sent /\ n.heard = m.heard
SameTx(m, n) == n.tx = m.tx /\ n.confirm = m.confirm
SameCsp(m, n) ==
  /\ n.csp = m.csp /\ n.cspz = m.cspz /\ n.nb = m.nb
  /\ n.stopIM = m.stopIM /\ n.stopIF = m.stopIF
SameRx(m, n) ==
  n.rx = m.rx /\ n.outAck = m.outAck /\ n.state = m.state /\ n.buf = m.buf
SameFifo(m, n) ==
  n.fifo = m.fifo /\ n.fifop = m.fifop /\ n.coming = m.coming
SameFlags(m, n) == n.reset = m.reset /\ n.inIsr = m.inIsr /\ n.ok = m.ok

(* One assignment, or several at once: what it changes, and that it leaves *)
(* the rest alone.                                                         *)
LEMMA FlushUpdate ==
  ASSUME NEW m \in Mac, NEW n,
         <<>> \in Fifos,
         n = [m EXCEPT !.fifo = <<>>, !.fifop = FALSE, !.coming = "none"]
  PROVE  /\ n \in Mac /\ Fix(m, n) /\ SameTx(m, n) /\ SameCsp(m, n)
         /\ SameRx(m, n) /\ SameFlags(m, n) /\ n.on = m.on
         /\ n.fifo = <<>> /\ ~n.fifop /\ n.coming = "none"
<1>1. [m EXCEPT !.fifo = <<>>, !.fifop = FALSE, !.coming = "none"] \in Mac
  BY ZenonT(60) DEF Mac
<1>2. n \in Mac
  BY <1>1
<1> QED
  BY <1>2 DEF Mac, Fix, SameTx, SameCsp, SameRx, SameFifo, SameFlags

LEMMA OffUpdate ==
  ASSUME NEW m \in Mac, NEW n,
         n = [m EXCEPT !.on = FALSE, !.acking = FALSE]
  PROVE  /\ n \in Mac /\ Fix(m, n) /\ SameTx(m, n) /\ SameCsp(m, n)
         /\ SameRx(m, n) /\ SameFifo(m, n) /\ SameFlags(m, n) /\ ~n.on
<1>1. [m EXCEPT !.on = FALSE, !.acking = FALSE] \in Mac
  BY ZenonT(60) DEF Mac
<1>2. n \in Mac
  BY <1>1
<1> QED
  BY <1>2 DEF Mac, Fix, SameTx, SameCsp, SameRx, SameFifo, SameFlags

LEMMA OnUpdate ==
  ASSUME NEW m \in Mac, NEW n,
         n = [m EXCEPT !.on = TRUE]
  PROVE  /\ n \in Mac /\ Fix(m, n) /\ SameTx(m, n) /\ SameCsp(m, n)
         /\ SameRx(m, n) /\ SameFifo(m, n) /\ SameFlags(m, n) /\ n.on
<1>1. [m EXCEPT !.on = TRUE] \in Mac
  BY ZenonT(60) DEF Mac
<1>2. n \in Mac
  BY <1>1
<1> QED
  BY <1>2 DEF Mac, Fix, SameTx, SameCsp, SameRx, SameFifo, SameFlags

LEMMA TxUpdate ==
  ASSUME NEW m \in Mac, NEW n,
         NEW v \in TxStates,
         n = [m EXCEPT !.tx = v]
  PROVE  /\ n \in Mac /\ Fix(m, n) /\ SameCsp(m, n) /\ SameRx(m, n)
         /\ SameFifo(m, n) /\ SameFlags(m, n) /\ n.on = m.on /\ n.tx = v
         /\ n.confirm = m.confirm
<1>1. [m EXCEPT !.tx = v] \in Mac
  BY ZenonT(60) DEF Mac
<1>2. n \in Mac
  BY <1>1
<1> QED
  BY <1>2 DEF Mac, Fix, SameTx, SameCsp, SameRx, SameFifo, SameFlags

LEMMA ConfirmUpdate ==
  ASSUME NEW m \in Mac, NEW n,
         NEW v \in Confirms,
         n = [m EXCEPT !.confirm = v]
  PROVE  /\ n \in Mac /\ Fix(m, n) /\ SameCsp(m, n) /\ SameRx(m, n)
         /\ SameFifo(m, n) /\ SameFlags(m, n) /\ n.on = m.on
         /\ n.tx = m.tx /\ n.confirm = v
<1>1. [m EXCEPT !.confirm = v] \in Mac
  BY ZenonT(60) DEF Mac
<1>2. n \in Mac
  BY <1>1
<1> QED
  BY <1>2 DEF Mac, Fix, SameTx, SameCsp, SameRx, SameFifo, SameFlags

LEMMA StartUpdate ==
  ASSUME NEW m \in Mac, NEW n,
         n = [m EXCEPT !.stopIM = TRUE, !.manint = "enabled",
                       !.csp = "backoff"]
  PROVE  /\ n \in Mac /\ Fix(m, n) /\ SameTx(m, n) /\ SameRx(m, n)
         /\ SameFifo(m, n) /\ SameFlags(m, n) /\ n.on = m.on
         /\ n.csp = "backoff" /\ n.stopIM /\ n.cspz = m.cspz
         /\ n.stopIF = m.stopIF /\ n.nb = m.nb
<1>1. [m EXCEPT !.stopIM = TRUE, !.manint = "enabled",
           !.csp = "backoff"] \in Mac
  BY ZenonT(60) DEF Mac
<1>2. n \in Mac
  BY <1>1
<1> QED
  BY <1>2 DEF Mac, Fix, SameTx, SameCsp, SameRx, SameFifo, SameFlags

LEMMA LoadUpdate ==
  ASSUME NEW m \in Mac, NEW n,
         n = [m EXCEPT !.cspz = "busy", !.csp = "off",
                       !.stopIF = FALSE]
  PROVE  /\ n \in Mac /\ Fix(m, n) /\ SameTx(m, n) /\ SameRx(m, n)
         /\ SameFifo(m, n) /\ SameFlags(m, n) /\ n.on = m.on
         /\ n.csp = "off" /\ n.stopIM = m.stopIM /\ n.cspz = "busy"
         /\ ~n.stopIF /\ n.nb = m.nb
<1>1. [m EXCEPT !.cspz = "busy", !.csp = "off",
           !.stopIF = FALSE] \in Mac
  BY ZenonT(60) DEF Mac
<1>2. n \in Mac
  BY <1>1
<1> QED
  BY <1>2 DEF Mac, Fix, SameTx, SameCsp, SameRx, SameFifo, SameFlags

LEMMA BackoffUpdate ==
  ASSUME NEW m \in Mac, NEW n,
         NEW v \in 0 .. MaxCsmaBackoffs + 1,
         n = [m EXCEPT !.nb = v]
  PROVE  /\ n \in Mac /\ Fix(m, n) /\ SameTx(m, n) /\ SameRx(m, n)
         /\ SameFifo(m, n) /\ SameFlags(m, n) /\ n.on = m.on
         /\ n.csp = m.csp /\ n.stopIM = m.stopIM /\ n.cspz = m.cspz
         /\ n.stopIF = m.stopIF /\ n.nb = v
<1>1. [m EXCEPT !.nb = v] \in Mac
  BY ZenonT(60) DEF Mac
<1>2. n \in Mac
  BY <1>1
<1> QED
  BY <1>2 DEF Mac, Fix, SameTx, SameCsp, SameRx, SameFifo, SameFlags

LEMMA TimerUpdate ==
  ASSUME NEW m \in Mac, NEW n,
         n = [m EXCEPT !.cspz = "ack", !.stopIF = FALSE,
                       !.stopIM = TRUE, !.csp = "timer"]
  PROVE  /\ n \in Mac /\ Fix(m, n) /\ SameTx(m, n) /\ SameRx(m, n)
         /\ SameFifo(m, n) /\ SameFlags(m, n) /\ n.on = m.on
         /\ n.csp = "timer" /\ n.stopIM /\ n.cspz = "ack" /\ ~n.stopIF
         /\ n.nb = m.nb
<1>1. [m EXCEPT !.cspz = "ack", !.stopIF = FALSE,
           !.stopIM = TRUE, !.csp = "timer"] \in Mac
  BY ZenonT(60) DEF Mac
<1>2. n \in Mac
  BY <1>1
<1> QED
  BY <1>2 DEF Mac, Fix, SameTx, SameCsp, SameRx, SameFifo, SameFlags

LEMMA CancelUpdate ==
  ASSUME NEW m \in Mac, NEW n,
         n = [m EXCEPT !.stopIM = FALSE, !.csp = "off"]
  PROVE  /\ n \in Mac /\ Fix(m, n) /\ SameTx(m, n) /\ SameRx(m, n)
         /\ SameFifo(m, n) /\ SameFlags(m, n) /\ n.on = m.on
         /\ n.csp = "off" /\ ~n.stopIM /\ n.cspz = m.cspz
         /\ n.stopIF = m.stopIF /\ n.nb = m.nb
<1>1. [m EXCEPT !.stopIM = FALSE, !.csp = "off"] \in Mac
  BY ZenonT(60) DEF Mac
<1>2. n \in Mac
  BY <1>1
<1> QED
  BY <1>2 DEF Mac, Fix, SameTx, SameCsp, SameRx, SameFifo, SameFlags

LEMMA ForceUpdate ==
  ASSUME NEW m \in Mac, NEW n,
         n = [m EXCEPT !.stopIM = FALSE, !.manint = "off"]
  PROVE  /\ n \in Mac /\ Fix(m, n) /\ SameTx(m, n) /\ SameRx(m, n)
         /\ SameFifo(m, n) /\ SameFlags(m, n) /\ n.on = m.on
         /\ n.csp = m.csp /\ ~n.stopIM /\ n.cspz = m.cspz
         /\ n.stopIF = m.stopIF /\ n.nb = m.nb
<1>1. [m EXCEPT !.stopIM = FALSE, !.manint = "off"] \in Mac
  BY ZenonT(60) DEF Mac
<1>2. n \in Mac
  BY <1>1
<1> QED
  BY <1>2 DEF Mac, Fix, SameTx, SameCsp, SameRx, SameFifo, SameFlags

LEMMA StopUpdate ==
  ASSUME NEW m \in Mac, NEW n,
         n = [m EXCEPT !.stopIM = FALSE, !.stopIF = FALSE]
  PROVE  /\ n \in Mac /\ Fix(m, n) /\ SameTx(m, n) /\ SameRx(m, n)
         /\ SameFifo(m, n) /\ SameFlags(m, n) /\ n.on = m.on
         /\ n.csp = m.csp /\ ~n.stopIM /\ n.cspz = m.cspz /\ ~n.stopIF
         /\ n.nb = m.nb
<1>1. [m EXCEPT !.stopIM = FALSE, !.stopIF = FALSE] \in Mac
  BY ZenonT(60) DEF Mac
<1>2. n \in Mac
  BY <1>1
<1> QED
  BY <1>2 DEF Mac, Fix, SameTx, SameCsp, SameRx, SameFifo, SameFlags

LEMMA ManintUpdate ==
  ASSUME NEW m \in Mac, NEW n,
         NEW v \in {"off", "enabled", "raised"},
         n = [m EXCEPT !.manint = v]
  PROVE  /\ n \in Mac /\ Fix(m, n) /\ SameTx(m, n) /\ SameCsp(m, n)
         /\ SameRx(m, n) /\ SameFifo(m, n) /\ SameFlags(m, n)
         /\ n.on = m.on
<1>1. [m EXCEPT !.manint = v] \in Mac
  BY ZenonT(60) DEF Mac
<1>2. n \in Mac
  BY <1>1
<1> QED
  BY <1>2 DEF Mac, Fix, SameTx, SameCsp, SameRx, SameFifo, SameFlags

LEMMA TuneUpdate ==
  ASSUME NEW m \in Mac, NEW n,
         NEW v \in BOOLEAN,
         n = [m EXCEPT !.tune = v]
  PROVE  /\ n \in Mac /\ Fix(m, n) /\ SameTx(m, n) /\ SameCsp(m, n)
         /\ SameRx(m, n) /\ SameFifo(m, n) /\ SameFlags(m, n)
         /\ n.on = m.on
<1>1. [m EXCEPT !.tune = v] \in Mac
  BY ZenonT(60) DEF Mac
<1>2. n \in Mac
  BY <1>1
<1> QED
  BY <1>2 DEF Mac, Fix, SameTx, SameCsp, SameRx, SameFifo, SameFlags

LEMMA AckIMUpdate ==
  ASSUME NEW m \in Mac, NEW n,
         n = [m EXCEPT !.ackIM = FALSE]
  PROVE  /\ n \in Mac /\ Fix(m, n) /\ SameTx(m, n) /\ SameCsp(m, n)
         /\ SameRx(m, n) /\ SameFifo(m, n) /\ SameFlags(m, n)
         /\ n.on = m.on
<1>1. [m EXCEPT !.ackIM = FALSE] \in Mac
  BY ZenonT(60) DEF Mac
<1>2. n \in Mac
  BY <1>1
<1> QED
  BY <1>2 DEF Mac, Fix, SameTx, SameCsp, SameRx, SameFifo, SameFlags

LEMMA OutAckUpdate ==
  ASSUME NEW m \in Mac, NEW n,
         n = [m EXCEPT !.outAck = FALSE]
  PROVE  /\ n \in Mac /\ Fix(m, n) /\ SameTx(m, n) /\ SameCsp(m, n)
         /\ SameFifo(m, n) /\ SameFlags(m, n) /\ n.on = m.on
         /\ n.rx = m.rx /\ ~n.outAck /\ n.state = m.state /\ n.buf = m.buf
<1>1. [m EXCEPT !.outAck = FALSE] \in Mac
  BY ZenonT(60) DEF Mac
<1>2. n \in Mac
  BY <1>1
<1> QED
  BY <1>2 DEF Mac, Fix, SameTx, SameCsp, SameRx, SameFifo, SameFlags

LEMMA AckDoneUpdate ==
  ASSUME NEW m \in Mac, NEW n,
         n = [m EXCEPT !.ackIM = FALSE, !.outAck = FALSE]
  PROVE  /\ n \in Mac /\ Fix(m, n) /\ SameTx(m, n) /\ SameCsp(m, n)
         /\ SameFifo(m, n) /\ SameFlags(m, n) /\ n.on = m.on
         /\ n.rx = m.rx /\ ~n.outAck /\ n.state = m.state /\ n.buf = m.buf
<1>1. [m EXCEPT !.ackIM = FALSE, !.outAck = FALSE] \in Mac
  BY ZenonT(60) DEF Mac
<1>2. n \in Mac
  BY <1>1
<1> QED
  BY <1>2 DEF Mac, Fix, SameTx, SameCsp, SameRx, SameFifo, SameFlags

LEMMA HaltUpdate ==
  ASSUME NEW m \in Mac, NEW n,
         n = [m EXCEPT !.ackIM = FALSE, !.buf = FALSE,
                       !.state = "start", !.rx = "none",
                       !.outAck = FALSE, !.reset = FALSE]
  PROVE  /\ n \in Mac /\ Fix(m, n) /\ SameTx(m, n) /\ SameCsp(m, n)
         /\ SameFifo(m, n) /\ n.on = m.on /\ n.rx = "none" /\ ~n.outAck
         /\ n.state = "start" /\ ~n.buf /\ ~n.reset /\ n.inIsr = m.inIsr
         /\ n.ok = m.ok
<1>1. [m EXCEPT !.ackIM = FALSE, !.buf = FALSE,
           !.state = "start", !.rx = "none",
           !.outAck = FALSE, !.reset = FALSE] \in Mac
  BY ZenonT(60) DEF Mac
<1>2. n \in Mac
  BY <1>1
<1> QED
  BY <1>2 DEF Mac, Fix, SameTx, SameCsp, SameRx, SameFifo, SameFlags

LEMMA ResetUpdate ==
  ASSUME NEW m \in Mac, NEW n,
         n = [m EXCEPT !.reset = TRUE]
  PROVE  /\ n \in Mac /\ Fix(m, n) /\ SameTx(m, n) /\ SameCsp(m, n)
         /\ SameRx(m, n) /\ SameFifo(m, n) /\ n.on = m.on /\ n.reset
         /\ n.inIsr = m.inIsr /\ n.ok = m.ok
<1>1. [m EXCEPT !.reset = TRUE] \in Mac
  BY ZenonT(60) DEF Mac
<1>2. n \in Mac
  BY <1>1
<1> QED
  BY <1>2 DEF Mac, Fix, SameTx, SameCsp, SameRx, SameFifo, SameFlags

LEMMA RxUpdate ==
  ASSUME NEW m \in Mac, NEW n,
         NEW v \in {"none", "started", "done"},
         n = [m EXCEPT !.rx = v]
  PROVE  /\ n \in Mac /\ Fix(m, n) /\ SameTx(m, n) /\ SameCsp(m, n)
         /\ SameFifo(m, n) /\ SameFlags(m, n) /\ n.on = m.on /\ n.rx = v
         /\ n.outAck = m.outAck /\ n.state = m.state /\ n.buf = m.buf
<1>1. [m EXCEPT !.rx = v] \in Mac
  BY ZenonT(60) DEF Mac
<1>2. n \in Mac
  BY <1>1
<1> QED
  BY <1>2 DEF Mac, Fix, SameTx, SameCsp, SameRx, SameFifo, SameFlags

LEMMA StateUpdate ==
  ASSUME NEW m \in Mac, NEW n,
         n = [m EXCEPT !.state = "start"]
  PROVE  /\ n \in Mac /\ Fix(m, n) /\ SameTx(m, n) /\ SameCsp(m, n)
         /\ SameFifo(m, n) /\ SameFlags(m, n) /\ n.on = m.on
         /\ n.rx = m.rx /\ n.outAck = m.outAck /\ n.state = "start"
         /\ n.buf = m.buf
<1>1. [m EXCEPT !.state = "start"] \in Mac
  BY ZenonT(60) DEF Mac
<1>2. n \in Mac
  BY <1>1
<1> QED
  BY <1>2 DEF Mac, Fix, SameTx, SameCsp, SameRx, SameFifo, SameFlags

LEMMA DiscardUpdate ==
  ASSUME NEW m \in Mac, NEW n,
         \/ n = [m EXCEPT !.state = "discard"]
         \/ n = [[m EXCEPT !.nack = TRUE] EXCEPT !.state = "discard"]
  PROVE  /\ n \in Mac /\ Fix(m, n) /\ SameTx(m, n) /\ SameCsp(m, n)
         /\ SameFifo(m, n) /\ SameFlags(m, n) /\ n.on = m.on
         /\ n.rx = m.rx /\ n.outAck = m.outAck /\ n.state = "discard"
         /\ n.buf = m.buf
<1>1. \A k \in Mac : [k EXCEPT !.state = "discard"] \in Mac
  BY ZenonT(60) DEF Mac
<1>2. [m EXCEPT !.nack = TRUE] \in Mac
  BY ZenonT(60) DEF Mac
<1>3. n \in Mac
  BY <1>1, <1>2
<1>4. CASE n = [m EXCEPT !.state = "discard"]
  BY <1>3, <1>4 DEF Mac, Fix, SameTx, SameCsp, SameRx, SameFifo, SameFlags
<1>5. CASE n = [[m EXCEPT !.nack = TRUE] EXCEPT !.state = "discard"]
  BY <1>3, <1>5 DEF Mac, Fix, SameTx, SameCsp, SameRx, SameFifo, SameFlags
<1> QED
  BY <1>4, <1>5

LEMMA KeepUpdate ==
  ASSUME NEW m \in Mac, NEW n,
         NEW v \in BOOLEAN,
         n = [m EXCEPT !.buf = TRUE, !.state = "frame",
                       !.outAck = v]
  PROVE  /\ n \in Mac /\ Fix(m, n) /\ SameTx(m, n) /\ SameCsp(m, n)
         /\ SameFifo(m, n) /\ SameFlags(m, n) /\ n.on = m.on
         /\ n.rx = m.rx /\ n.outAck = v /\ n.state = "frame" /\ n.buf
<1>1. [m EXCEPT !.buf = TRUE, !.state = "frame",
           !.outAck = v] \in Mac
  BY ZenonT(60) DEF Mac
<1>2. n \in Mac
  BY <1>1
<1> QED
  BY <1>2 DEF Mac, Fix, SameTx, SameCsp, SameRx, SameFifo, SameFlags

LEMMA AckIFUpdate ==
  ASSUME NEW m \in Mac, NEW n,
         n = [m EXCEPT !.ackIF = FALSE, !.ackIM = TRUE]
  PROVE  /\ n \in Mac /\ Fix(m, n) /\ SameTx(m, n) /\ SameCsp(m, n)
         /\ SameRx(m, n) /\ SameFifo(m, n) /\ SameFlags(m, n)
         /\ n.on = m.on
<1>1. [m EXCEPT !.ackIF = FALSE, !.ackIM = TRUE] \in Mac
  BY ZenonT(60) DEF Mac
<1>2. n \in Mac
  BY <1>1
<1> QED
  BY <1>2 DEF Mac, Fix, SameTx, SameCsp, SameRx, SameFifo, SameFlags

LEMMA FifoUpdate ==
  ASSUME NEW m \in Mac, NEW n,
         NEW f \in Fifos,
         n = [m EXCEPT !.fifo = f]
  PROVE  /\ n \in Mac /\ Fix(m, n) /\ SameTx(m, n) /\ SameCsp(m, n)
         /\ SameRx(m, n) /\ SameFlags(m, n) /\ n.on = m.on /\ n.fifo = f
         /\ n.fifop = m.fifop /\ n.coming = m.coming
<1>1. [m EXCEPT !.fifo = f] \in Mac
  BY ZenonT(60) DEF Mac
<1>2. n \in Mac
  BY <1>1
<1> QED
  BY <1>2 DEF Mac, Fix, SameTx, SameCsp, SameRx, SameFifo, SameFlags

LEMMA FcsUpdate ==
  ASSUME NEW m \in Mac, NEW n,
         NEW f \in Fifos,
         n = [m EXCEPT !.fifo = f, !.buf = FALSE]
  PROVE  /\ n \in Mac /\ Fix(m, n) /\ SameTx(m, n) /\ SameCsp(m, n)
         /\ SameFlags(m, n) /\ n.on = m.on /\ n.fifo = f
         /\ n.fifop = m.fifop /\ n.coming = m.coming /\ n.rx = m.rx
         /\ n.outAck = m.outAck /\ n.state = m.state /\ ~n.buf
<1>1. [m EXCEPT !.fifo = f, !.buf = FALSE] \in Mac
  BY ZenonT(60) DEF Mac
<1>2. n \in Mac
  BY <1>1
<1> QED
  BY <1>2 DEF Mac, Fix, SameTx, SameCsp, SameRx, SameFifo, SameFlags

LEMMA DropUpdate ==
  ASSUME NEW m \in Mac, NEW n,
         NEW f \in Fifos,
         n = [m EXCEPT !.fifo = f, !.state = "start"]
  PROVE  /\ n \in Mac /\ Fix(m, n) /\ SameTx(m, n) /\ SameCsp(m, n)
         /\ SameFlags(m, n) /\ n.on = m.on /\ n.fifo = f
         /\ n.fifop = m.fifop /\ n.coming = m.coming /\ n.rx = m.rx
         /\ n.outAck = m.outAck /\ n.state = "start" /\ n.buf = m.buf
<1>1. [m EXCEPT !.fifo = f, !.state = "start"] \in Mac
  BY ZenonT(60) DEF Mac
<1>2. n \in Mac
  BY <1>1
<1> QED
  BY <1>2 DEF Mac, Fix, SameTx, SameCsp, SameRx, SameFifo, SameFlags

LEMMA EnterUpdate ==
  ASSUME NEW m \in Mac, NEW n,
         n = [m EXCEPT !.inIsr = TRUE]
  PROVE  /\ n \in Mac /\ Fix(m, n) /\ SameTx(m, n) /\ SameCsp(m, n)
         /\ SameRx(m, n) /\ SameFifo(m, n) /\ n.on = m.on /\ n.inIsr
         /\ n.reset = m.reset /\ n.ok = m.ok
<1>1. [m EXCEPT !.inIsr = TRUE] \in Mac
  BY Zenon DEF Mac
<1>2. n \in Mac
  BY <1>1
<1> QED
  BY <1>2 DEF Mac, Fix, SameTx, SameCsp, SameRx, SameFifo, SameFlags

LEMMA LeaveUpdate ==
  ASSUME NEW m \in Mac, NEW n,
         n = [m EXCEPT !.inIsr = FALSE, !.fifop = m.fifo # <<>>]
  PROVE  /\ n \in Mac /\ Fix(m, n) /\ SameTx(m, n) /\ SameCsp(m, n)
         /\ SameRx(m, n) /\ n.on = m.on /\ ~n.inIsr /\ n.reset = m.reset
         /\ n.ok = m.ok /\ n.fifo = m.fifo /\ n.coming = m.coming
         /\ n.fifop => n.fifo # <<>>
<1> DEFINE v == m.fifo # <<>>
<1>0. v \in BOOLEAN
  OBVIOUS
<1>1. v => m.fifo # <<>>
  OBVIOUS
<1>2. n = [m EXCEPT !.inIsr = FALSE, !.fifop = v]
  OBVIOUS
<1> HIDE DEF v
<1>3. [m EXCEPT !.inIsr = FALSE, !.fifop = v] \in Mac
  BY <1>0, ZenonT(60) DEF Mac
<1>4. n \in Mac
  BY <1>2, <1>3
<1>5. /\ Fix(m, n) /\ SameTx(m, n) /\ SameCsp(m, n) /\ SameRx(m, n)
      /\ n.on = m.on /\ ~n.inIsr /\ n.reset = m.reset /\ n.ok = m.ok
      /\ n.fifo = m.fifo /\ n.coming = m.coming
  BY <1>2, <1>4 DEF Mac, Fix, SameTx, SameCsp, SameRx
<1>6. n.fifop => v
  BY <1>0, <1>2, Zenon DEF Mac
<1> QED
  BY <1>1, <1>4, <1>5, <1>6

(* An assertion that holds leaves no trace.                                *)
LEMMA AssertHolds ==
  ASSUME NEW m \in Mac, m.ok, NEW holds, holds PROVE Assert(m, holds) = m
BY DEF Assert, Mac

-----------------------------------------------------------------------------
(* The receiver on and off.                                                *)

Emptied(n) == n.fifo = <<>> /\ ~n.fifop /\ n.coming = "none"

LEMMA FlushFacts ==
  ASSUME NEW m \in Mac, NEW n, n = Flush(m)
  PROVE  /\ n \in Mac /\ Fix(m, n) /\ SameTx(m, n) /\ SameCsp(m, n)
         /\ SameRx(m, n) /\ SameFlags(m, n) /\ n.on = m.on /\ Emptied(n)
<1>1. n = [m EXCEPT !.fifo = <<>>, !.fifop = FALSE, !.coming = "none"]
  BY DEF Flush
<1> QED
  BY <1>1, EmptyFifo, FlushUpdate, Zenon DEF Emptied

LEMMA OffFacts ==
  ASSUME NEW m \in Mac, NEW n, n = macRxOff(m)
  PROVE  /\ n \in Mac /\ Fix(m, n) /\ SameTx(m, n) /\ SameCsp(m, n)
         /\ SameRx(m, n) /\ SameFlags(m, n) /\ ~n.on
         /\ n = m \/ Emptied(n)
<1>1. CASE ~m.on
  <2>1. n = m
    BY <1>1 DEF macRxOff
  <2> QED
    BY <1>1, <2>1 DEF Fix, SameTx, SameCsp, SameRx, SameFlags
<1>2. CASE m.on
  <2> DEFINE f == Flush(m)
  <2>1. /\ f \in Mac /\ Fix(m, f) /\ SameTx(m, f) /\ SameCsp(m, f)
        /\ SameRx(m, f) /\ SameFlags(m, f) /\ f.on = m.on /\ Emptied(f)
    BY FlushFacts
  <2>2. n = [f EXCEPT !.on = FALSE, !.acking = FALSE]
    BY <1>2 DEF macRxOff
  <2> HIDE DEF f
  <2>3. /\ n \in Mac /\ Fix(f, n) /\ SameTx(f, n) /\ SameCsp(f, n)
        /\ SameRx(f, n) /\ SameFifo(f, n) /\ SameFlags(f, n) /\ ~n.on
    BY <2>1, <2>2, OffUpdate, Zenon
  <2> QED
    BY <2>1, <2>3
       DEF Fix, SameTx, SameCsp, SameRx, SameFifo, SameFlags, Emptied
<1> QED
  BY <1>1, <1>2

LEMMA OffRequestFacts ==
  ASSUME NEW m \in Mac, Radio(m), NEW n, n = macRxOffRequest(m)
  PROVE  /\ n \in Mac /\ Fix(m, n) /\ SameTx(m, n) /\ SameCsp(m, n)
         /\ SameRx(m, n) /\ SameFlags(m, n) /\ Radio(n)
         /\ \/ n = m
            \/ Emptied(n) /\ ~n.on /\ ~RxPhysical(m) /\ ~TxPhysical(m)
         /\ EnabledOn(m) => EnabledOn(n)
         /\ n.on => n.enable # "off" \/ RxPhysical(n) \/ TxPhysical(n)
<1>1. CASE m.enable = "off" /\ ~RxPhysical(m) /\ ~TxPhysical(m)
  <2>1. n = macRxOff(m)
    BY <1>1 DEF macRxOffRequest
  <2>2. /\ n \in Mac /\ Fix(m, n) /\ SameTx(m, n) /\ SameCsp(m, n)
        /\ SameRx(m, n) /\ SameFlags(m, n) /\ ~n.on
        /\ n = m \/ Emptied(n)
    BY <2>1, OffFacts, Zenon
  <2>3. Emptied(n) => Radio(n)
    BY <1>1, <2>2 DEF Radio, Fix, Emptied
  <2> QED
    BY <1>1, <2>2, <2>3 DEF EnabledOn, Fix
<1>2. CASE ~(m.enable = "off" /\ ~RxPhysical(m) /\ ~TxPhysical(m))
  <2>1. n = m
    BY <1>2 DEF macRxOffRequest
  <2> QED
    BY <1>2, <2>1 DEF Fix, SameTx, SameCsp, SameRx, SameFlags
<1> QED
  BY <1>1, <1>2

LEMMA OnFacts ==
  ASSUME NEW m \in Mac, m.awake, Radio(m), NEW n, n = macRxOn(m)
  PROVE  /\ n \in Mac /\ Fix(m, n) /\ SameTx(m, n) /\ SameCsp(m, n)
         /\ SameRx(m, n) /\ SameFifo(m, n) /\ SameFlags(m, n) /\ n.on
         /\ Radio(n)
<1>1. n = [m EXCEPT !.on = TRUE]
  BY DEF macRxOn
<1>2. /\ n \in Mac /\ Fix(m, n) /\ SameTx(m, n) /\ SameCsp(m, n)
      /\ SameRx(m, n) /\ SameFifo(m, n) /\ SameFlags(m, n) /\ n.on
  BY <1>1, OnUpdate, Zenon
<1>3. Radio(n)
  BY <1>2 DEF Radio, Fix, SameFifo
<1> QED
  BY <1>2, <1>3

(* CSMA starts: the receiver listens, and the CSP runs.                    *)
LEMMA CsmaFacts ==
  ASSUME NEW m \in Mac, m.awake, Radio(m), NEW n, n = GoCsma(m)
  PROVE  /\ n \in Mac /\ Fix(m, n) /\ SameTx(m, n) /\ SameRx(m, n)
         /\ SameFifo(m, n) /\ SameFlags(m, n) /\ n.on /\ Radio(n)
         /\ n.csp = "backoff" /\ n.stopIM /\ n.cspz = m.cspz
         /\ n.stopIF = m.stopIF /\ n.nb = m.nb
<1> DEFINE a == macRxOn(m)
<1>1. /\ a \in Mac /\ Fix(m, a) /\ SameTx(m, a) /\ SameCsp(m, a)
      /\ SameRx(m, a) /\ SameFifo(m, a) /\ SameFlags(m, a) /\ a.on /\ Radio(a)
  BY OnFacts
<1>2. n = [a EXCEPT !.stopIM = TRUE, !.manint = "enabled",
                    !.csp = "backoff"]
  BY DEF GoCsma
<1> HIDE DEF a
<1>3. /\ n \in Mac /\ Fix(a, n) /\ SameTx(a, n) /\ SameRx(a, n)
      /\ SameFifo(a, n) /\ SameFlags(a, n) /\ n.on = a.on
      /\ n.csp = "backoff" /\ n.stopIM /\ n.cspz = a.cspz
      /\ n.stopIF = a.stopIF /\ n.nb = a.nb
  BY <1>1, <1>2, StartUpdate, Zenon
<1>4. Radio(n)
  BY <1>1, <1>3 DEF Radio, Fix, SameFifo
<1> QED
  BY <1>1, <1>3, <1>4 DEF Fix, SameTx, SameCsp, SameRx, SameFifo, SameFlags

(* macTxStartQueuedFrame: the frame that waited is on its way.             *)
Moves(m, n) ==
  /\ n.confirm = m.confirm
  /\ n.tx = m.tx \/ (m.tx = "queued" /\ n.tx = "go")

LEMMA QueuedFrameStarts ==
  ASSUME NEW m \in Mac, NEW p, Rest(m, p), m.rx = "none", ~m.outAck,
         NEW n, n = macTxStartQueuedFrame(m)
  PROVE  /\ n \in Mac /\ Fix(m, n) /\ SameRx(m, n) /\ SameFifo(m, n)
         /\ SameFlags(m, n) /\ Moves(m, n) /\ Rest(n, p)
         /\ n = m \/ (n.tx = "go" /\ n.on)
         /\ n.tx # "queued"
<1> DEFINE a == Assert(m, m.rx = "none" /\ ~m.outAck)
<1>0. a = m
  BY AssertHolds DEF Rest
<1>1. CASE m.tx # "queued"
  <2>1. n = m
    BY <1>0, <1>1 DEF macTxStartQueuedFrame
  <2> QED
    BY <1>1, <2>1 DEF Fix, SameRx, SameFifo, SameFlags, Moves
<1>2. CASE m.tx = "queued"
  <2> DEFINE b == [m EXCEPT !.tx = "go"]
             c == [b EXCEPT !.ackIM = FALSE, !.outAck = FALSE]
  <2>1. n = GoCsma(c)
    BY <1>0, <1>2 DEF macTxStartQueuedFrame, txGo
  <2>2. /\ b \in Mac /\ Fix(m, b) /\ SameCsp(m, b) /\ SameRx(m, b)
        /\ SameFifo(m, b) /\ SameFlags(m, b) /\ b.on = m.on
        /\ b.tx = "go" /\ b.confirm = m.confirm
    <3>1. "go" \in TxStates
      BY DEF TxStates
    <3> HIDE DEF b
    <3>2. b = [m EXCEPT !.tx = "go"]
      BY DEF b
    <3> QED
      BY <3>1, <3>2, TxUpdate, Zenon
  <2> HIDE DEF b
  <2>3. /\ c \in Mac /\ Fix(b, c) /\ SameTx(b, c) /\ SameCsp(b, c)
        /\ SameFifo(b, c) /\ SameFlags(b, c) /\ c.on = b.on
        /\ c.rx = b.rx /\ ~c.outAck /\ c.state = b.state /\ c.buf = b.buf
    BY <2>2, AckDoneUpdate, Zenon
  <2> HIDE DEF c
  <2>4. m.awake /\ p \in {"idle", "off"} /\ m.cspz = "busy" /\ ~m.stopIF
        /\ m.nb <= MaxCsmaBackoffs
    BY <1>2 DEF Rest, Asleep, Stage, Program, Loaded
  <2>5. Radio(c) /\ c.awake
    BY <2>2, <2>3, <2>4 DEF Rest, Radio, Fix, SameFifo
  <2>6. /\ n \in Mac /\ Fix(c, n) /\ SameTx(c, n) /\ SameRx(c, n)
        /\ SameFifo(c, n) /\ SameFlags(c, n) /\ n.on /\ Radio(n)
        /\ n.csp = "backoff" /\ n.stopIM /\ n.cspz = c.cspz
        /\ n.stopIF = c.stopIF /\ n.nb = c.nb
    BY <2>1, <2>3, <2>5, CsmaFacts, Zenon
  <2>7. m.outAck = FALSE /\ c.outAck = FALSE
    BY <2>3 DEF Mac
  <2>8. Fix(m, n) /\ SameRx(m, n) /\ SameFifo(m, n) /\ SameFlags(m, n)
    <3>1. Fix(m, n)
      BY <2>2, <2>3, <2>6 DEF Fix
    <3>2. SameRx(m, n)
      BY <2>2, <2>3, <2>6, <2>7 DEF SameRx
    <3>3. SameFifo(m, n)
      BY <2>2, <2>3, <2>6 DEF SameFifo
    <3>4. SameFlags(m, n)
      BY <2>2, <2>3, <2>6 DEF SameFlags
    <3> QED
      BY <3>1, <3>2, <3>3, <3>4
  <2>9. n.tx = "go" /\ n.confirm = m.confirm
    BY <2>2, <2>3, <2>6 DEF SameTx
  <2>10. n.cspz = "busy" /\ ~n.stopIF /\ n.nb <= MaxCsmaBackoffs
    BY <2>2, <2>3, <2>4, <2>6 DEF SameCsp
  <2>11. Stage(n, p) /\ Program(n, p)
    BY <2>4, <2>6, <2>9, <2>10
       DEF Stage, Program, Running, AtRest, Loaded, Sending
  <2>12. Asleep(n, p) /\ n.ok
    BY <2>4, <2>8 DEF Asleep, Rest, Fix, SameFlags
  <2> QED
    BY <1>2, <2>6, <2>8, <2>9, <2>11, <2>12 DEF Rest, Moves
<1> QED
  BY <1>1, <1>2

(* A change that leaves the transmission and the CSP alone keeps the rest. *)
LEMMA RestCarries ==
  ASSUME NEW m, NEW n, NEW p, Rest(m, p), Fix(m, n), SameTx(m, n),
         SameCsp(m, n), SameFlags(m, n), Radio(n),
         n.on = m.on \/ ~TxPhysical(m)
  PROVE  Rest(n, p)
<1>1. Stage(n, p) /\ Asleep(n, p) /\ n.ok
  BY DEF Rest, Stage, Asleep, Fix, SameTx, SameFlags
<1>2. Program(n, p)
  BY DEF Rest, Program, Running, AtRest, Loaded, Sending, Listening,
     TxPhysical, Fix, SameTx, SameCsp
<1> QED
  BY <1>1, <1>2 DEF Rest

(* rxPostRxUpdates, at the end of a receive.                               *)
LEMMA PostRxUpdates ==
  ASSUME NEW m \in Mac, NEW p, Rest(m, p), m.rx = "none", ~m.outAck,
         NEW n, n = rxPostRxUpdates(m)
  PROVE  /\ n \in Mac /\ Fix(m, n) /\ SameRx(m, n) /\ SameFlags(m, n)
         /\ Moves(m, n) /\ Rest(n, p) /\ IdleOff(n, p)
         /\ EnabledOn(m) => EnabledOn(n)
         /\ SameFifo(m, n) \/ Emptied(n)
<1> DEFINE a == macRxOffRequest(m)
<1>1. Radio(m)
  BY DEF Rest
<1>2. /\ a \in Mac /\ Fix(m, a) /\ SameTx(m, a) /\ SameCsp(m, a)
      /\ SameRx(m, a) /\ SameFlags(m, a) /\ Radio(a)
      /\ \/ a = m
         \/ Emptied(a) /\ ~a.on /\ ~RxPhysical(m) /\ ~TxPhysical(m)
      /\ EnabledOn(m) => EnabledOn(a)
      /\ a.on => a.enable # "off" \/ RxPhysical(a) \/ TxPhysical(a)
  BY <1>1, OffRequestFacts
<1>3. n = macTxStartQueuedFrame(a)
  BY DEF rxPostRxUpdates
<1> HIDE DEF a
<1>4. Rest(a, p)
  BY <1>2, RestCarries
<1>5. a.rx = "none" /\ ~a.outAck
  BY <1>2 DEF SameRx
<1>6. /\ n \in Mac /\ Fix(a, n) /\ SameRx(a, n) /\ SameFifo(a, n)
      /\ SameFlags(a, n) /\ Moves(a, n) /\ Rest(n, p)
      /\ n = a \/ (n.tx = "go" /\ n.on)
      /\ n.tx # "queued"
  BY <1>2, <1>3, <1>4, <1>5, QueuedFrameStarts, Zenon
<1>7. Fix(m, n) /\ SameRx(m, n) /\ SameFlags(m, n) /\ Moves(m, n)
  BY <1>2, <1>6 DEF Fix, SameRx, SameFlags, SameTx, Moves
<1>8. IdleOff(n, p)
  BY <1>2, <1>6 DEF IdleOff, TxPhysical
<1>9. EnabledOn(m) => EnabledOn(n)
  BY <1>2, <1>6 DEF EnabledOn
<1>10. SameFifo(m, n) \/ Emptied(n)
  BY <1>2, <1>6 DEF SameFifo, Emptied
<1> QED
  BY <1>6, <1>7, <1>8, <1>9, <1>10

(* rxHaltCleanupFinalStep: nothing is received any more.                   *)
Cleared(n) ==
  /\ n.rx = "none" /\ ~n.outAck /\ n.state = "start" /\ ~n.buf /\ ~n.reset
  /\ Emptied(n)

LEMMA FinalStep ==
  ASSUME NEW m \in Mac, NEW p, Rest(m, p),
         m.rx = "none" /\ ~m.outAck => IdleOff(m, p),
         NEW n, n = rxHaltCleanupFinalStep(m)
  PROVE  /\ n \in Mac /\ Fix(m, n) /\ Moves(m, n) /\ Rest(n, p)
         /\ IdleOff(n, p) /\ Cleared(n) /\ n.inIsr = m.inIsr
         /\ EnabledOn(m) => EnabledOn(n)
<1> DEFINE f == Flush(m)
           a == [f EXCEPT !.ackIM = FALSE, !.buf = FALSE, !.state = "start",
                          !.rx = "none", !.outAck = FALSE, !.reset = FALSE]
<1>1. /\ f \in Mac /\ Fix(m, f) /\ SameTx(m, f) /\ SameCsp(m, f)
      /\ SameRx(m, f) /\ SameFlags(m, f) /\ f.on = m.on /\ Emptied(f)
  BY FlushFacts
<1>2. n = IF m.rx # "none" \/ m.outAck THEN rxPostRxUpdates(a) ELSE a
  BY DEF rxHaltCleanupFinalStep
<1> HIDE DEF f
<1>3. /\ a \in Mac /\ Fix(f, a) /\ SameTx(f, a) /\ SameCsp(f, a)
      /\ SameFifo(f, a) /\ a.on = f.on /\ a.rx = "none" /\ ~a.outAck
      /\ a.state = "start" /\ ~a.buf /\ ~a.reset /\ a.inIsr = f.inIsr
      /\ a.ok = f.ok
  <2> HIDE DEF a
  <2>1. a = [f EXCEPT !.ackIM = FALSE, !.buf = FALSE, !.state = "start",
                      !.rx = "none", !.outAck = FALSE, !.reset = FALSE]
    BY DEF a
  <2> QED
    BY <1>1, <2>1, HaltUpdate, ZenonT(60)
<1> HIDE DEF a
<1>4. /\ Fix(m, a) /\ SameTx(m, a) /\ SameCsp(m, a) /\ a.on = m.on
      /\ Emptied(a) /\ a.ok = m.ok /\ a.inIsr = m.inIsr
  BY <1>1, <1>3 DEF Fix, SameTx, SameCsp, SameFifo, SameFlags, Emptied
<1>5. Radio(a)
  BY <1>4 DEF Rest, Radio, Fix, Emptied
<1>6. Rest(a, p)
  <2>1. Stage(a, p) /\ Asleep(a, p) /\ a.ok
    BY <1>4 DEF Rest, Stage, Asleep, Fix, SameTx
  <2>2. Program(a, p)
    BY <1>4 DEF Rest, Program, Running, AtRest, Loaded, Sending, Listening,
       Fix, SameTx, SameCsp
  <2> QED
    BY <1>5, <2>1, <2>2 DEF Rest
<1>7. CASE m.rx # "none" \/ m.outAck
  <2>1. n = rxPostRxUpdates(a)
    BY <1>2, <1>7
  <2>2. /\ n \in Mac /\ Fix(a, n) /\ SameRx(a, n) /\ SameFlags(a, n)
        /\ Moves(a, n) /\ Rest(n, p) /\ IdleOff(n, p)
        /\ EnabledOn(a) => EnabledOn(n)
        /\ SameFifo(a, n) \/ Emptied(n)
    BY <1>3, <1>6, <2>1, PostRxUpdates, Zenon
  <2>3. Fix(m, n) /\ Moves(m, n)
    BY <1>4, <2>2 DEF Fix, SameTx, Moves
  <2>4. Cleared(n) /\ n.inIsr = m.inIsr
    BY <1>3, <1>4, <2>2 DEF Cleared, Emptied, SameRx, SameFifo, SameFlags
  <2>5. EnabledOn(m) => EnabledOn(n)
    BY <1>4, <2>2 DEF EnabledOn, Fix
  <2> QED
    BY <2>2, <2>3, <2>4, <2>5
<1>8. CASE ~(m.rx # "none" \/ m.outAck)
  <2>1. n = a
    BY <1>2, <1>8
  <2>2. IdleOff(a, p)
    BY <1>3, <1>4, <1>8 DEF IdleOff, RxPhysical, Fix, SameTx
  <2>3. EnabledOn(m) => EnabledOn(a)
    BY <1>4 DEF EnabledOn, Fix
  <2> QED
    BY <1>3, <1>4, <1>6, <2>1, <2>2, <2>3 DEF Moves, SameTx, Cleared
<1> QED
  BY <1>7, <1>8

-----------------------------------------------------------------------------
(* The end of a transmission.                                              *)

(* What may happen to the receiver meanwhile: nothing; or the channel was  *)
(* changed, and what was received is dropped at once or, in the receive    *)
(* interrupt, when that one ends.                                          *)
RxStep(m, n) ==
  /\ n.inIsr = m.inIsr
  /\ \/ /\ SameRx(m, n) /\ n.reset = m.reset /\ (SameFifo(m, n) \/ Emptied(n))
        /\ RxPhysical(m) /\ m.on => n.on /\ SameFifo(m, n)
     \/ m.inIsr /\ SameRx(m, n) /\ n.reset
     \/ ~m.inIsr /\ Cleared(n)

(* What every routine at the end of a transmission keeps.                  *)
Ends(m, n, p) ==
  /\ n \in Mac /\ Fix(m, n) /\ Base(n, p) /\ IdleOff(n, p) /\ RxStep(m, n)
  /\ EnabledOn(m) => EnabledOn(n)

LEMMA NoStep == ASSUME NEW m PROVE RxStep(m, m)
BY DEF RxStep, SameRx, SameFifo

LEMMA OnRequestFacts ==
  ASSUME NEW m \in Mac, NEW p, Rest(m, p), NEW n, n = macRxOnRequest(m),
         IdleOff(m, p)
  PROVE  /\ n \in Mac /\ Fix(m, n) /\ SameTx(m, n) /\ SameRx(m, n)
         /\ SameFifo(m, n) /\ SameFlags(m, n) /\ Rest(n, p) /\ EnabledOn(n)
         /\ IdleOff(n, p)
<1>1. CASE m.enable # "off"
  <2>1. m.awake /\ Radio(m) /\ n = macRxOn(m)
    BY <1>1 DEF Rest, Radio, macRxOnRequest
  <2>2. /\ n \in Mac /\ Fix(m, n) /\ SameTx(m, n) /\ SameCsp(m, n)
        /\ SameRx(m, n) /\ SameFifo(m, n) /\ SameFlags(m, n) /\ n.on
        /\ Radio(n)
    BY <2>1, OnFacts, Zenon
  <2>3. Stage(n, p) /\ Asleep(n, p) /\ n.ok
    BY <2>2 DEF Rest, Stage, Asleep, Fix, SameTx, SameFlags
  <2>4. Program(n, p)
    BY <2>2 DEF Rest, Program, Running, AtRest, Loaded, Sending, Listening,
       Fix, SameTx, SameCsp
  <2> QED
    BY <1>1, <2>2, <2>3, <2>4 DEF Rest, EnabledOn, IdleOff, RxPhysical, Fix, SameTx, SameRx
<1>2. CASE m.enable = "off"
  <2>1. n = m
    BY <1>2 DEF macRxOnRequest
  <2> QED
    BY <1>2, <2>1 DEF Fix, SameTx, SameRx, SameFifo, SameFlags, EnabledOn
<1> QED
  BY <1>1, <1>2

LEMMA ChannelUpdates ==
  ASSUME NEW m \in Mac, NEW p, Rest(m, p), m.tx = "none", IdleOff(m, p),
         NEW n, n = macRadioUpdateChannel(m)
  PROVE  /\ n \in Mac /\ Fix(m, n) /\ SameTx(m, n) /\ Rest(n, p)
         /\ IdleOff(n, p) /\ RxStep(m, n)
         /\ EnabledOn(m) => EnabledOn(n)
<1> DEFINE a == Assert(m, m.tx = "none")
<1>0. a = m
  BY AssertHolds DEF Rest
<1>1. CASE ~m.tune
  <2>1. n = m
    BY <1>0, <1>1 DEF macRadioUpdateChannel
  <2> QED
    BY <2>1, NoStep DEF Fix, SameTx
<1>2. CASE m.tune
  <2> DEFINE b == [m EXCEPT !.tune = FALSE]
             c == macRxOff(b)
             d == macRxHaltCleanup(c)
  <2>1. n = macRxOnRequest(d)
    BY <1>0, <1>2 DEF macRadioUpdateChannel
  <2>2. /\ b \in Mac /\ Fix(m, b) /\ SameTx(m, b) /\ SameCsp(m, b)
        /\ SameRx(m, b) /\ SameFifo(m, b) /\ SameFlags(m, b) /\ b.on = m.on
    <3>1. b = [m EXCEPT !.tune = FALSE]
      OBVIOUS
    <3> HIDE DEF b
    <3> QED
      BY <3>1, TuneUpdate
  <2> HIDE DEF b
  <2>3. /\ c \in Mac /\ Fix(b, c) /\ SameTx(b, c) /\ SameCsp(b, c)
        /\ SameRx(b, c) /\ SameFlags(b, c) /\ ~c.on
        /\ c = b \/ Emptied(c)
    BY <2>2, OffFacts
  <2> HIDE DEF c
  <2>4. /\ Fix(m, c) /\ SameTx(m, c) /\ SameCsp(m, c) /\ SameRx(m, c)
        /\ SameFlags(m, c) /\ Radio(c)
    BY <2>2, <2>3 DEF Fix, SameTx, SameCsp, SameRx, SameFifo, SameFlags,
       Rest, Radio, Emptied
  <2>5. Rest(c, p) /\ IdleOff(c, p)
    BY <2>3, <2>4, RestCarries DEF IdleOff, TxPhysical, SameTx
  <2>6. c.tx = "none" /\ c.confirm = m.confirm /\ c.inIsr = m.inIsr
    BY <2>4 DEF SameTx, SameFlags
  <2>7. CASE m.inIsr
    <3>1. d = [c EXCEPT !.reset = TRUE]
      BY <2>6, <2>7 DEF macRxHaltCleanup
    <3> HIDE DEF d
    <3>2. /\ d \in Mac /\ Fix(c, d) /\ SameTx(c, d) /\ SameCsp(c, d)
          /\ SameRx(c, d) /\ SameFifo(c, d) /\ d.on = c.on
          /\ d.reset /\ d.inIsr = c.inIsr /\ d.ok = c.ok
      BY <2>3, <3>1, ResetUpdate, Zenon
    <3>3. Rest(d, p) /\ IdleOff(d, p)
      <4>1. Radio(d)
        BY <2>4, <3>2 DEF Radio, Fix, SameFifo
      <4>2. Stage(d, p) /\ Asleep(d, p) /\ d.ok
        BY <2>5, <3>2 DEF Rest, Stage, Asleep, Fix, SameTx
      <4>3. Program(d, p)
        BY <2>5, <2>6, <3>2 DEF Rest, Program, Running, AtRest, Loaded,
           SameTx, SameCsp
      <4> QED
        BY <2>3, <2>6, <3>2, <4>1, <4>2, <4>3 DEF Rest, IdleOff, SameTx
    <3>4. /\ n \in Mac /\ Fix(d, n) /\ SameTx(d, n) /\ SameRx(d, n)
          /\ SameFifo(d, n) /\ SameFlags(d, n) /\ Rest(n, p) /\ EnabledOn(n)
          /\ IdleOff(n, p)
      BY <2>1, <3>2, <3>3, OnRequestFacts, Zenon
    <3>5. Fix(m, n) /\ SameTx(m, n) /\ SameRx(m, n)
      BY <2>4, <3>2, <3>4 DEF Fix, SameTx, SameRx
    <3>6. n.reset /\ n.inIsr = m.inIsr
      BY <2>4, <3>2, <3>4 DEF SameFlags
    <3> QED
      BY <2>7, <3>4, <3>5, <3>6 DEF RxStep
  <2>8. CASE ~m.inIsr
    <3>1. d = rxHaltCleanupFinalStep(c)
      BY <2>6, <2>8 DEF macRxHaltCleanup
    <3> HIDE DEF d
    <3>2. /\ d \in Mac /\ Fix(c, d) /\ Moves(c, d) /\ Rest(d, p)
          /\ IdleOff(d, p) /\ Cleared(d) /\ d.inIsr = c.inIsr
      BY <2>3, <2>5, <3>1, FinalStep
    <3>3. /\ n \in Mac /\ Fix(d, n) /\ SameTx(d, n) /\ SameRx(d, n)
          /\ SameFifo(d, n) /\ SameFlags(d, n) /\ Rest(n, p) /\ EnabledOn(n)
          /\ IdleOff(n, p)
      BY <2>1, <3>2, OnRequestFacts, Zenon
    <3>4. Fix(m, n) /\ SameTx(m, n)
      BY <2>4, <2>6, <3>2, <3>3 DEF Fix, SameTx, Moves
    <3>5. Cleared(n) /\ n.inIsr = m.inIsr
      BY <2>6, <3>2, <3>3 DEF Cleared, Emptied, SameRx, SameFifo, SameFlags
    <3> QED
      BY <2>8, <3>3, <3>4, <3>5 DEF RxStep
  <2> QED
    BY <2>7, <2>8
<1> QED
  BY <1>1, <1>2

(* txComplete: the upper half is told, once, and truthfully.               *)
LEMMA Completes ==
  ASSUME NEW m \in Mac, NEW p \in {"idle", "off"}, Radio(m), m.ok, AtRest(m),
         m.confirm = "owed", ~m.awake => p = "idle",
         NEW status \in {"success", "noAck", "channelAccessFailure", "aborted"},
         status = "success" => m.sent /\ (m.ackReq => m.heard),
         NEW n, n = txComplete(m, status)
  PROVE  Ends(m, n, p) /\ n.tx = "none"
<1> DEFINE a == [m EXCEPT !.tx = "none"]
           b == macRxOffRequest(a)
           c == macRadioUpdateChannel(b)
<1>1. n = macTxCompleteCallback(c, status)
  BY DEF txComplete
<1>2. /\ a \in Mac /\ Fix(m, a) /\ SameCsp(m, a) /\ SameRx(m, a)
      /\ SameFifo(m, a) /\ SameFlags(m, a) /\ a.on = m.on
      /\ a.tx = "none" /\ a.confirm = m.confirm
  <2>1. "none" \in TxStates /\ a = [m EXCEPT !.tx = "none"]
    BY DEF TxStates
  <2> HIDE DEF a
  <2> QED
    BY <2>1, TxUpdate, Zenon
<1> HIDE DEF a
<1>3. Radio(a)
  BY <1>2 DEF Radio, Fix, SameFifo
<1>4. Rest(a, p)
  <2>1. Stage(a, p) /\ Asleep(a, p) /\ a.ok
    BY <1>2 DEF Stage, Asleep, Fix, SameFlags
  <2>2. Program(a, p)
    BY <1>2 DEF Program, Running, AtRest, SameCsp
  <2> QED
    BY <1>3, <2>1, <2>2 DEF Rest
<1>5. /\ b \in Mac /\ Fix(a, b) /\ SameTx(a, b) /\ SameCsp(a, b)
      /\ SameRx(a, b) /\ SameFlags(a, b) /\ Radio(b)
      /\ \/ b = a
         \/ Emptied(b) /\ ~b.on /\ ~RxPhysical(a) /\ ~TxPhysical(a)
      /\ EnabledOn(a) => EnabledOn(b)
      /\ b.on => b.enable # "off" \/ RxPhysical(b) \/ TxPhysical(b)
  BY <1>2, <1>3, OffRequestFacts
<1> HIDE DEF b
<1>6. Rest(b, p)
  BY <1>4, <1>5, RestCarries
<1>7. b.tx = "none" /\ b.confirm = "owed"
  BY <1>2, <1>5 DEF SameTx
<1>8. IdleOff(b, p)
  BY <1>5, <1>7 DEF IdleOff, TxPhysical
<1>9. /\ c \in Mac /\ Fix(b, c) /\ SameTx(b, c) /\ Rest(c, p)
      /\ IdleOff(c, p) /\ RxStep(b, c)
      /\ EnabledOn(b) => EnabledOn(c)
  BY <1>5, <1>6, <1>7, <1>8, ChannelUpdates
<1> HIDE DEF c
<1>10. c.tx = "none" /\ c.confirm = "owed"
  BY <1>7, <1>9 DEF SameTx
<1>11. n = [c EXCEPT !.confirm = status]
  BY <1>1, <1>10 DEF macTxCompleteCallback
<1>12. /\ n \in Mac /\ Fix(c, n) /\ SameCsp(c, n) /\ SameRx(c, n)
       /\ SameFifo(c, n) /\ SameFlags(c, n) /\ n.on = c.on
       /\ n.tx = c.tx /\ n.confirm = status
  <2>1. status \in Confirms
    BY DEF Confirms
  <2> QED
    BY <1>9, <1>11, <2>1, ConfirmUpdate
<1>13. Fix(m, n)
  BY <1>2, <1>5, <1>9, <1>12 DEF Fix
<1>14. Answers(n)
  BY <1>10, <1>12, <1>13 DEF Answers, Fix
<1>15. Rest(n, p)
  <2>1. Radio(n)
    BY <1>9, <1>12 DEF Rest, Radio, Fix, SameFifo
  <2>3. Stage(n, p) /\ Asleep(n, p) /\ n.ok
    BY <1>9, <1>12 DEF Rest, Stage, Asleep, Fix, SameFlags
  <2>4. Program(n, p)
    BY <1>9, <1>10, <1>12 DEF Rest, Program, Running, AtRest, SameCsp
  <2> QED
    BY <2>1, <2>3, <2>4 DEF Rest
<1>16. IdleOff(n, p) /\ (EnabledOn(m) => EnabledOn(n))
  <2>1. IdleOff(n, p)
    BY <1>9, <1>12 DEF IdleOff, RxPhysical, Fix, SameRx
  <2>2. EnabledOn(m) => EnabledOn(a)
    BY <1>2 DEF EnabledOn, Fix
  <2>3. EnabledOn(c) => EnabledOn(n)
    BY <1>12 DEF EnabledOn, Fix
  <2> QED
    BY <1>5, <1>9, <2>1, <2>2, <2>3
<1>17. RxStep(m, n)
  <2>1. b.inIsr = m.inIsr /\ SameRx(m, b) /\ b.reset = m.reset
    BY <1>2, <1>5 DEF SameRx, SameFlags
  <2>2. SameFifo(m, b) \/ Emptied(b)
    BY <1>2, <1>5 DEF SameFifo
  <2>3. RxPhysical(m) /\ m.on => b.on /\ SameFifo(m, b)
    BY <1>2, <1>5 DEF RxPhysical, SameRx, SameFifo
  <2>4. RxPhysical(m) <=> RxPhysical(b)
    BY <2>1 DEF RxPhysical, SameRx
  <2>5. RxStep(m, c)
    BY <1>9, <2>1, <2>2, <2>3, <2>4 DEF RxStep, SameRx, SameFifo, Emptied
  <2> QED
    BY <1>12, <2>5 DEF RxStep, SameRx, SameFifo, SameFlags, Emptied, Cleared
<1> QED
  BY <1>10, <1>12, <1>13, <1>14, <1>15, <1>16, <1>17 DEF Ends, Base

(* What the callbacks rely on: a frame on its way has been dealt with by   *)
(* the CSP, which has nothing left to do.                                  *)
AtEnd(m, p) ==
  /\ m \in Mac /\ p \in {"idle", "off"} /\ Radio(m) /\ m.ok /\ m.on
  /\ AtRest(m) /\ m.confirm = "owed"

(* macTxDoneCallback: the frame was on the air.                            *)
LEMMA DoneCallback ==
  ASSUME NEW m, NEW p, AtEnd(m, p), m.tx = "go", m.sent,
         NEW n, n = macTxDoneCallback(m)
  PROVE  Ends(m, n, p)
<1>0. m \in Mac /\ m.awake /\ p \in {"idle", "off"}
  BY DEF AtEnd, Radio
<1>1. CASE ~m.ackReq
  <2> DEFINE a == [m EXCEPT !.tx = "done"]
  <2>1. n = txComplete(a, "success")
    BY <1>1 DEF macTxDoneCallback
  <2>2. /\ a \in Mac /\ Fix(m, a) /\ SameCsp(m, a) /\ SameRx(m, a)
        /\ SameFifo(m, a) /\ SameFlags(m, a) /\ a.on = m.on
        /\ a.tx = "done" /\ a.confirm = m.confirm
    <3>1. "done" \in TxStates /\ a = [m EXCEPT !.tx = "done"]
      BY DEF TxStates
    <3> HIDE DEF a
    <3> QED
      BY <1>0, <3>1, TxUpdate, Zenon
  <2> HIDE DEF a
  <2>3. /\ Radio(a) /\ a.ok /\ AtRest(a) /\ a.confirm = "owed" /\ a.awake
        /\ a.sent /\ ~a.ackReq
    BY <1>0, <1>1, <2>2 DEF AtEnd, Radio, AtRest, Fix, SameCsp, SameFifo,
       SameFlags
  <2>4. Ends(a, n, p)
    BY <1>0, <2>1, <2>2, <2>3, Completes
  <2>5. RxStep(m, n)
    BY <2>2, <2>4 DEF Ends, RxStep, RxPhysical, SameRx, SameFifo, SameFlags
  <2> QED
    BY <2>2, <2>4, <2>5 DEF Ends, Fix, EnabledOn
<1>2. CASE m.ackReq
  <2> DEFINE a == [m EXCEPT !.tx = "listen"]
             b == Assert(a, ~a.stopIM)
  <2>1. n = [b EXCEPT !.cspz = "ack", !.stopIF = FALSE,
                      !.stopIM = TRUE, !.csp = "timer"]
    BY <1>2 DEF macTxDoneCallback, RequestAckTimeout
  <2>2. /\ a \in Mac /\ Fix(m, a) /\ SameCsp(m, a) /\ SameRx(m, a)
        /\ SameFifo(m, a) /\ SameFlags(m, a) /\ a.on = m.on
        /\ a.tx = "listen" /\ a.confirm = m.confirm
    <3>1. "listen" \in TxStates /\ a = [m EXCEPT !.tx = "listen"]
      BY DEF TxStates
    <3> HIDE DEF a
    <3> QED
      BY <1>0, <3>1, TxUpdate, Zenon
  <2> HIDE DEF a
  <2>3. ~a.stopIM /\ a.ok
    BY <2>2 DEF AtEnd, AtRest, SameCsp, SameFlags
  <2>4. b = a
    BY <2>2, <2>3, AssertHolds
  <2> HIDE DEF b
  <2>5. /\ n \in Mac /\ Fix(a, n) /\ SameTx(a, n) /\ SameRx(a, n)
        /\ SameFifo(a, n) /\ SameFlags(a, n) /\ n.on = a.on
        /\ n.csp = "timer" /\ n.stopIM /\ n.cspz = "ack" /\ ~n.stopIF
        /\ n.nb = a.nb
    BY <2>1, <2>2, <2>4, TimerUpdate, Zenon
  <2>6. /\ Fix(m, n) /\ SameRx(m, n) /\ SameFifo(m, n) /\ SameFlags(m, n)
        /\ n.on /\ n.tx = "listen" /\ n.confirm = "owed"
    BY <2>2, <2>5 DEF AtEnd, Fix, SameTx, SameRx, SameFifo, SameFlags
  <2>7. Radio(n)
    BY <2>6 DEF AtEnd, Radio, Fix, SameFifo
  <2>8. Stage(n, p) /\ Program(n, p) /\ Asleep(n, p) /\ n.ok
    BY <1>0, <1>2, <2>5, <2>6
       DEF AtEnd, Stage, Program, Running, Listening, Asleep, Fix, SameFlags
  <2>9. Answers(n)
    BY <2>6 DEF Answers
  <2>10. IdleOff(n, p) /\ EnabledOn(n)
    BY <2>6 DEF IdleOff, EnabledOn
  <2>11. RxStep(m, n)
    BY <2>6 DEF RxStep, SameFlags
  <2> QED
    BY <2>5, <2>6, <2>7, <2>8, <2>9, <2>10, <2>11 DEF Ends, Base, Rest
<1> QED
  BY <1>0, <1>1, <1>2

(* macTxChannelBusyCallback: the frame is tried again, or given up.        *)
LEMMA ChannelBusyCallback ==
  ASSUME NEW m, NEW p, AtEnd(m, p), m.tx = "go", m.nb <= MaxCsmaBackoffs,
         NEW n, n = macTxChannelBusyCallback(m)
  PROVE  Ends(m, n, p)
<1> DEFINE a == [m EXCEPT !.tx = "channelBusy"]
           b == macRxOffRequest(a)
           c == [b EXCEPT !.nb = @ + 1]
<1>0. m \in Mac /\ m.awake /\ p \in {"idle", "off"}
  BY DEF AtEnd, Radio
<1>1. n = IF m.nb >= MaxCsmaBackoffs
          THEN txComplete(c, "channelAccessFailure")
          ELSE GoCsma([Prepare(c) EXCEPT !.tx = "go"])
  BY DEF macTxChannelBusyCallback
<1>2. /\ a \in Mac /\ Fix(m, a) /\ SameCsp(m, a) /\ SameRx(m, a)
      /\ SameFifo(m, a) /\ SameFlags(m, a) /\ a.on = m.on
      /\ a.tx = "channelBusy" /\ a.confirm = m.confirm
  <2>1. "channelBusy" \in TxStates /\ a = [m EXCEPT !.tx = "channelBusy"]
    BY DEF TxStates
  <2> HIDE DEF a
  <2> QED
    BY <1>0, <2>1, TxUpdate, Zenon
<1> HIDE DEF a
<1>3. Radio(a)
  BY <1>2 DEF AtEnd, Radio, Fix, SameFifo
<1>4. /\ b \in Mac /\ Fix(a, b) /\ SameTx(a, b) /\ SameCsp(a, b)
      /\ SameRx(a, b) /\ SameFlags(a, b) /\ Radio(b)
      /\ \/ b = a
         \/ Emptied(b) /\ ~b.on /\ ~RxPhysical(a) /\ ~TxPhysical(a)
      /\ EnabledOn(a) => EnabledOn(b)
  BY <1>2, <1>3, OffRequestFacts
<1> HIDE DEF b
<1>5. b.nb = m.nb /\ m.nb \in 0 .. MaxCsmaBackoffs /\ MaxCsmaBackoffs \in Nat
  <2>1. m.nb \in Nat
    BY <1>0, MacAssumption DEF Mac
  <2>2. b.nb = m.nb
    BY <1>2, <1>4 DEF SameCsp
  <2> QED
    BY <2>1, <2>2, MacAssumption
<1>6. /\ c \in Mac /\ Fix(b, c) /\ SameTx(b, c) /\ SameRx(b, c)
      /\ SameFifo(b, c) /\ SameFlags(b, c) /\ c.on = b.on
      /\ c.csp = b.csp /\ c.stopIM = b.stopIM /\ c.cspz = b.cspz
      /\ c.stopIF = b.stopIF /\ c.nb = m.nb + 1
  <2> DEFINE v == m.nb + 1
  <2>1. v \in 0 .. MaxCsmaBackoffs + 1
    BY <1>5
  <2>2. c = [b EXCEPT !.nb = v]
    BY <1>5
  <2> HIDE DEF c, v
  <2>3. /\ c \in Mac /\ Fix(b, c) /\ SameTx(b, c) /\ SameRx(b, c)
        /\ SameFifo(b, c) /\ SameFlags(b, c) /\ c.on = b.on
        /\ c.csp = b.csp /\ c.stopIM = b.stopIM /\ c.cspz = b.cspz
        /\ c.stopIF = b.stopIF /\ c.nb = v
    BY <1>4, <2>1, <2>2, BackoffUpdate
  <2> QED
    BY <2>3 DEF v
<1> HIDE DEF c
<1>7. /\ Fix(m, c) /\ SameRx(m, c) /\ SameFlags(m, c)
      /\ c.csp = "off" /\ ~c.stopIM /\ c.confirm = "owed" /\ c.ok /\ c.awake
      /\ c.cspz = m.cspz
      /\ SameFifo(m, c) \/ Emptied(c)
      /\ RxPhysical(m) => c.on /\ SameFifo(m, c)
      /\ EnabledOn(m) => EnabledOn(c)
  <2>1. /\ Fix(m, c) /\ SameRx(m, c) /\ SameFlags(m, c)
        /\ c.csp = "off" /\ ~c.stopIM /\ c.confirm = "owed" /\ c.ok
        /\ c.awake /\ c.cspz = m.cspz
    BY <1>0, <1>2, <1>4, <1>6
       DEF AtEnd, AtRest, Fix, SameTx, SameCsp, SameRx, SameFlags
  <2>2. RxPhysical(a) <=> RxPhysical(m)
    BY <1>2 DEF RxPhysical, SameRx
  <2>3. EnabledOn(m) => EnabledOn(a)
    BY <1>2 DEF EnabledOn, Fix
  <2>4. EnabledOn(b) => EnabledOn(c)
    BY <1>6 DEF EnabledOn, Fix
  <2>5. SameFifo(m, c) \/ Emptied(c)
    BY <1>2, <1>4, <1>6 DEF SameFifo, Emptied
  <2>6. RxPhysical(m) => c.on /\ SameFifo(m, c)
    BY <1>2, <1>4, <1>6, <2>2 DEF SameFifo, AtEnd
  <2> QED
    BY <1>4, <2>1, <2>3, <2>4, <2>5, <2>6
<1>8. Radio(c)
  BY <1>4, <1>6 DEF Radio, Fix, SameFifo
<1>9. CASE m.nb >= MaxCsmaBackoffs
  <2>1. n = txComplete(c, "channelAccessFailure")
    BY <1>1, <1>9
  <2>2. Ends(c, n, p)
    BY <1>0, <1>6, <1>7, <1>8, <2>1, Completes DEF AtRest
  <2>3. RxStep(m, n)
    BY <1>7, <2>2
       DEF Ends, RxStep, RxPhysical, SameRx, SameFifo, SameFlags, Emptied
  <2> QED
    BY <1>7, <2>2, <2>3 DEF Ends, Fix
<1>10. CASE ~(m.nb >= MaxCsmaBackoffs)
  <2> DEFINE d == [c EXCEPT !.cspz = "busy", !.csp = "off",
                            !.stopIF = FALSE]
             e == [d EXCEPT !.tx = "go"]
  <2>1. n = GoCsma(e)
    <3>1. Assert(c, ~c.stopIM) = c
      BY <1>6, <1>7, AssertHolds
    <3> QED
      BY <1>1, <1>10, <3>1 DEF Prepare
  <2>2. /\ d \in Mac /\ Fix(c, d) /\ SameTx(c, d) /\ SameRx(c, d)
        /\ SameFifo(c, d) /\ SameFlags(c, d) /\ d.on = c.on
        /\ d.csp = "off" /\ d.stopIM = c.stopIM /\ d.cspz = "busy"
        /\ ~d.stopIF /\ d.nb = c.nb
    <3>1. d = [c EXCEPT !.cspz = "busy", !.csp = "off", !.stopIF = FALSE]
      OBVIOUS
    <3> HIDE DEF d
    <3> QED
      BY <1>6, <3>1, LoadUpdate, Zenon
  <2> HIDE DEF d
  <2>3. /\ e \in Mac /\ Fix(d, e) /\ SameCsp(d, e) /\ SameRx(d, e)
        /\ SameFifo(d, e) /\ SameFlags(d, e) /\ e.on = d.on
        /\ e.tx = "go" /\ e.confirm = d.confirm
    <3>1. "go" \in TxStates /\ e = [d EXCEPT !.tx = "go"]
      BY DEF TxStates
    <3> HIDE DEF e
    <3> QED
      BY <2>2, <3>1, TxUpdate, Zenon
  <2> HIDE DEF e
  <2>4. Radio(e) /\ e.awake
    BY <1>7, <1>8, <2>2, <2>3 DEF Radio, Fix, SameFifo
  <2>5. /\ n \in Mac /\ Fix(e, n) /\ SameTx(e, n) /\ SameRx(e, n)
        /\ SameFifo(e, n) /\ SameFlags(e, n) /\ n.on /\ Radio(n)
        /\ n.csp = "backoff" /\ n.stopIM /\ n.cspz = e.cspz
        /\ n.stopIF = e.stopIF /\ n.nb = e.nb
    BY <2>1, <2>3, <2>4, CsmaFacts
  <2>6. /\ Fix(c, n) /\ SameRx(c, n) /\ SameFifo(c, n) /\ SameFlags(c, n)
        /\ n.tx = "go" /\ n.confirm = "owed" /\ n.cspz = "busy"
        /\ ~n.stopIF /\ n.nb = m.nb + 1
    <3>1. Fix(c, n)
      BY <2>2, <2>3, <2>5 DEF Fix
    <3>2. SameRx(c, n)
      BY <2>2, <2>3, <2>5 DEF SameRx
    <3>3. SameFifo(c, n)
      BY <2>2, <2>3, <2>5 DEF SameFifo
    <3>4. SameFlags(c, n)
      BY <2>2, <2>3, <2>5 DEF SameFlags
    <3>5. n.tx = "go" /\ n.confirm = "owed"
      BY <1>7, <2>2, <2>3, <2>5 DEF SameTx
    <3>6. n.cspz = "busy" /\ ~n.stopIF /\ n.nb = m.nb + 1
      BY <1>6, <2>2, <2>3, <2>5 DEF SameCsp
    <3> QED
      BY <3>1, <3>2, <3>3, <3>4, <3>5, <3>6
  <2>7. n.nb <= MaxCsmaBackoffs
    BY <1>5, <1>10, <2>6
  <2>8. Stage(n, p) /\ Program(n, p)
    BY <1>0, <2>5, <2>6, <2>7
       DEF Stage, Program, Running, AtRest, Loaded, Sending
  <2>9. Asleep(n, p) /\ n.ok
    BY <1>7, <2>6 DEF Asleep, Fix, SameFlags
  <2>10. Answers(n) /\ IdleOff(n, p) /\ EnabledOn(n)
    BY <2>5, <2>6 DEF Answers, IdleOff, EnabledOn
  <2>11. RxStep(m, n)
    BY <1>7, <2>5, <2>6 DEF RxStep, RxPhysical, SameRx, SameFifo, SameFlags,
       Emptied
  <2>12. Fix(m, n)
    BY <1>7, <2>6 DEF Fix
  <2> QED
    BY <2>5, <2>8, <2>9, <2>10, <2>11, <2>12 DEF Ends, Base, Rest
<1> QED
  BY <1>9, <1>10

(* The wait for an acknowledgement ends.                                   *)
LEMMA ListenEnds ==
  ASSUME NEW m \in Mac, NEW p \in {"idle", "off"}, Radio(m), m.ok, m.on,
         m.tx = "listen", m.confirm = "owed", m.sent,
         NEW status \in {"success", "noAck"}, status = "success" => m.heard,
         NEW n, n = AckEnds(m, status)
  PROVE  Ends(m, n, p)
<1> DEFINE a == [m EXCEPT !.tx = "postAck"]
           b == [a EXCEPT !.stopIM = FALSE, !.csp = "off"]
<1>1. n = txComplete(b, status)
  BY DEF AckEnds, CancelAckTimeout
<1>2. /\ a \in Mac /\ Fix(m, a) /\ SameCsp(m, a) /\ SameRx(m, a)
      /\ SameFifo(m, a) /\ SameFlags(m, a) /\ a.on = m.on
      /\ a.tx = "postAck" /\ a.confirm = m.confirm
  <2>1. "postAck" \in TxStates /\ a = [m EXCEPT !.tx = "postAck"]
    BY DEF TxStates
  <2> HIDE DEF a
  <2> QED
    BY <2>1, TxUpdate, Zenon
<1> HIDE DEF a
<1>3. /\ b \in Mac /\ Fix(a, b) /\ SameTx(a, b) /\ SameRx(a, b)
      /\ SameFifo(a, b) /\ SameFlags(a, b) /\ b.on = a.on
      /\ b.csp = "off" /\ ~b.stopIM
  <2>1. b = [a EXCEPT !.stopIM = FALSE, !.csp = "off"]
    OBVIOUS
  <2> HIDE DEF b
  <2> QED
    BY <1>2, <2>1, CancelUpdate, Zenon
<1> HIDE DEF b
<1>4. /\ Fix(m, b) /\ SameRx(m, b) /\ SameFifo(m, b) /\ SameFlags(m, b)
      /\ b.on = m.on /\ b.confirm = "owed" /\ b.ok
  BY <1>2, <1>3 DEF Fix, SameTx, SameRx, SameFifo, SameFlags
<1>5. Radio(b) /\ b.awake /\ AtRest(b)
  BY <1>3, <1>4 DEF Radio, Fix, SameFifo, AtRest
<1>6. status = "success" => b.sent /\ (b.ackReq => b.heard)
  BY <1>4 DEF Fix
<1>7. Ends(b, n, p)
  BY <1>1, <1>3, <1>4, <1>5, <1>6, Completes
<1>8. RxStep(m, n)
  BY <1>4, <1>7 DEF Ends, RxStep, RxPhysical, SameRx, SameFifo, SameFlags
<1> QED
  BY <1>4, <1>7, <1>8 DEF Ends, Fix, EnabledOn

(* An acknowledgement ends a transmission only if one is waited for.       *)
LEMMA AckEndsIt ==
  ASSUME NEW m \in Mac, NEW p, Base(m, p), IdleOff(m, p),
         NEW status \in {"success", "noAck"},
         m.tx = "listen" /\ status = "success" => m.heard,
         NEW n, n = AckEnds(m, status)
  PROVE  Ends(m, n, p)
<1>1. CASE m.tx # "listen"
  <2>1. n = m
    BY <1>1 DEF AckEnds
  <2> QED
    BY <2>1, NoStep DEF Ends, Fix
<1>2. CASE m.tx = "listen"
  <2>1. /\ m.confirm = "owed" /\ m.sent /\ m.on /\ m.ok /\ Radio(m)
        /\ p \in {"idle", "off"}
    BY <1>2 DEF Base, Answers, Rest, Program, Listening, Stage
  <2> QED
    BY <1>2, <2>1, ListenEnds
<1> QED
  BY <1>1, <1>2

(* A frame whose program has ended, but whose interrupt has not come yet.  *)
LEMMA TxDoneIsForced ==
  ASSUME NEW m \in Mac, NEW p, Base(m, p), IdleOff(m, p),
         NEW n, n = macCspForceTxDoneIfPending(m)
  PROVE  Ends(m, n, p)
<1>1. CASE ~(m.cspz = "done" /\ m.stopIM)
  <2>1. n = m
    BY <1>1 DEF macCspForceTxDoneIfPending
  <2> QED
    BY <2>1, NoStep DEF Ends, Fix
<1>2. CASE m.cspz = "done" /\ m.stopIM
  <2> DEFINE a == [m EXCEPT !.stopIM = FALSE, !.manint = "off"]
  <2>1. n = macTxDoneCallback(a)
    BY <1>2 DEF macCspForceTxDoneIfPending
  <2>2. /\ a \in Mac /\ Fix(m, a) /\ SameTx(m, a) /\ SameRx(m, a)
        /\ SameFifo(m, a) /\ SameFlags(m, a) /\ a.on = m.on
        /\ a.csp = m.csp /\ ~a.stopIM /\ a.cspz = m.cspz
        /\ a.stopIF = m.stopIF /\ a.nb = m.nb
    <3>1. a = [m EXCEPT !.stopIM = FALSE, !.manint = "off"]
      OBVIOUS
    <3> HIDE DEF a
    <3> QED
      BY <3>1, ForceUpdate, Zenon
  <2> HIDE DEF a
  <2>3. Running(m, p) /\ Sending(m) /\ m.on
    BY <1>2 DEF Base, Rest, Program, AtRest, Listening
  <2>4. m.csp = "off" /\ m.sent /\ m.tx = "go" /\ p \in {"idle", "off"}
    BY <1>2, <2>3 DEF Sending, Running, Base, Rest, Stage
  <2>5. m.confirm = "owed" /\ m.ok /\ Radio(m)
    BY <2>4 DEF Base, Answers, Rest
  <2>6. AtEnd(a, p) /\ a.tx = "go" /\ a.sent
    BY <2>2, <2>3, <2>4, <2>5
       DEF AtEnd, AtRest, Radio, Fix, SameTx, SameFifo, SameFlags
  <2>7. Ends(a, n, p)
    BY <2>1, <2>6, DoneCallback
  <2>8. RxStep(m, n)
    BY <2>2, <2>7 DEF Ends, RxStep, RxPhysical, SameRx, SameFifo, SameFlags
  <2> QED
    BY <2>2, <2>7, <2>8 DEF Ends, Fix, EnabledOn
<1> QED
  BY <1>1, <1>2

(* The interrupt of the CSP: it was sent, or not, or not acknowledged.     *)
LEMMA TxStopIsr ==
  ASSUME NEW m \in Mac, NEW p, Base(m, p), IdleOff(m, p), m.stopIF, m.stopIM,
         NEW n, n = macCspTxStopIsr(m)
  PROVE  Ends(m, n, p)
<1> DEFINE a == [m EXCEPT !.stopIM = FALSE, !.stopIF = FALSE]
<1>1. /\ a \in Mac /\ Fix(m, a) /\ SameTx(m, a) /\ SameRx(m, a)
      /\ SameFifo(m, a) /\ SameFlags(m, a) /\ a.on = m.on
      /\ a.csp = m.csp /\ ~a.stopIM /\ a.cspz = m.cspz
      /\ ~a.stopIF /\ a.nb = m.nb
  <2>1. a = [m EXCEPT !.stopIM = FALSE, !.stopIF = FALSE]
    OBVIOUS
  <2> HIDE DEF a
  <2> QED
    BY <2>1, StopUpdate, Zenon
<1>2. /\ m.cspz = "done" => n = macTxDoneCallback(a)
      /\ m.cspz = "busy" => n = macTxChannelBusyCallback(a)
      /\ m.cspz = "ack" => n = macTxAckNotReceivedCallback(a)
  BY DEF macCspTxStopIsr
<1> HIDE DEF a
<1>3. \/ Running(m, p) /\ Sending(m) /\ m.on
      \/ m.tx = "listen" /\ Listening(m) /\ m.on
  BY DEF Base, Rest, Program, AtRest
<1>4. m.csp = "off" /\ m.tx \in {"go", "listen"} /\ p \in {"idle", "off"}
  BY <1>3 DEF Sending, Listening, Running, Base, Rest, Stage
<1>5. m.confirm = "owed" /\ m.ok /\ Radio(m)
  BY <1>4 DEF Base, Answers, Rest
<1>6. AtEnd(a, p) /\ a.tx = m.tx
  BY <1>1, <1>3, <1>4, <1>5
     DEF AtEnd, AtRest, Radio, Fix, SameTx, SameFifo, SameFlags
<1>7. CASE m.cspz = "done"
  <2>1. m.tx = "go" /\ m.sent
    BY <1>3, <1>7 DEF Running, Sending, Listening
  <2>2. a.tx = "go" /\ a.sent
    BY <1>1, <2>1 DEF Fix, SameTx
  <2> QED
    <3>1. Ends(a, n, p)
      BY <1>2, <1>6, <1>7, <2>2, DoneCallback
    <3>2. RxStep(m, n)
      BY <1>1, <3>1 DEF Ends, RxStep, RxPhysical, SameRx, SameFifo, SameFlags
    <3> QED
      BY <1>1, <3>1, <3>2 DEF Ends, Fix, EnabledOn
<1>8. CASE m.cspz = "busy"
  <2>1. m.tx = "go" /\ m.nb <= MaxCsmaBackoffs
    BY <1>3, <1>8 DEF Running, Sending, Listening
  <2>2. a.tx = "go" /\ a.nb <= MaxCsmaBackoffs
    BY <1>1, <2>1 DEF SameTx
  <2> QED
    <3>1. Ends(a, n, p)
      BY <1>2, <1>6, <1>8, <2>2, ChannelBusyCallback
    <3>2. RxStep(m, n)
      BY <1>1, <3>1 DEF Ends, RxStep, RxPhysical, SameRx, SameFifo, SameFlags
    <3> QED
      BY <1>1, <3>1, <3>2 DEF Ends, Fix, EnabledOn
<1>9. CASE m.cspz = "ack"
  <2>1. m.tx = "listen" /\ m.sent
    BY <1>3, <1>9 DEF Running, Sending, Listening
  <2>2. n = AckEnds(a, "noAck")
    BY <1>2, <1>9 DEF macTxAckNotReceivedCallback
  <2>3. /\ Radio(a) /\ a.ok /\ a.on /\ a.tx = "listen" /\ a.confirm = "owed"
        /\ a.sent
    BY <1>1, <1>6, <2>1 DEF AtEnd, Fix
  <2> QED
    <3>1. Ends(a, n, p)
      BY <1>1, <1>4, <2>2, <2>3, ListenEnds
    <3>2. RxStep(m, n)
      BY <1>1, <3>1 DEF Ends, RxStep, RxPhysical, SameRx, SameFifo, SameFlags
    <3> QED
      BY <1>1, <3>1, <3>2 DEF Ends, Fix, EnabledOn
<1>10. m.cspz \in {"busy", "done", "ack"}
  BY DEF Mac
<1> QED
  BY <1>7, <1>8, <1>9, <1>10

-----------------------------------------------------------------------------
(* The receive interrupt.                                                  *)

LEMMA BaseCarries ==
  ASSUME NEW m, NEW n, NEW p, Base(m, p), Fix(m, n), SameTx(m, n),
         SameCsp(m, n), n.ok = m.ok, Radio(n), n.on = m.on
  PROVE  Base(n, p)
<1>1. Stage(n, p) /\ Asleep(n, p) /\ n.ok
  BY DEF Base, Rest, Stage, Asleep, Fix, SameTx
<1>2. Program(n, p)
  BY DEF Base, Rest, Program, Running, AtRest, Loaded, Sending, Listening,
     Fix, SameTx, SameCsp
<1>3. Answers(n)
  BY DEF Base, Answers, Fix, SameTx
<1> QED
  BY <1>1, <1>2, <1>3 DEF Base, Rest

(* What holds when the service routine returns, reset or not.              *)
Served(m, p) ==
  /\ m \in Mac /\ Base(m, p) /\ IdleOff(m, p) /\ EnabledOn(m) /\ Receive(m)
  /\ m.reset \/ BusyOn(m)

LEMMA RxDoneServes ==
  ASSUME NEW m \in Mac, NEW p, Base(m, p), EnabledOn(m), m.inIsr,
         m.state = "start", ~m.buf, m.outAck => m.on \/ m.reset,
         NEW n, n = rxDone(m)
  PROVE  Served(n, p) /\ n.inIsr
<1> DEFINE a == [m EXCEPT !.rx = "none"]
<1>1. n = IF m.outAck THEN a ELSE rxPostRxUpdates(a)
  BY DEF rxDone
<1>2. /\ a \in Mac /\ Fix(m, a) /\ SameTx(m, a) /\ SameCsp(m, a)
      /\ SameFifo(m, a) /\ SameFlags(m, a) /\ a.on = m.on /\ a.rx = "none"
      /\ a.outAck = m.outAck /\ a.state = m.state /\ a.buf = m.buf
  <2>1. a = [m EXCEPT !.rx = "none"]
    OBVIOUS
  <2> HIDE DEF a
  <2> QED
    BY <2>1, RxUpdate
<1> HIDE DEF a
<1>3. Base(a, p) /\ EnabledOn(a)
  <2>1. Radio(a)
    BY <1>2 DEF Base, Rest, Radio, Fix, SameFifo
  <2>2. a.ok = m.ok
    BY <1>2 DEF SameFlags
  <2> QED
    BY <1>2, <2>1, <2>2, BaseCarries DEF EnabledOn, Fix
<1>4. CASE m.outAck
  <2>1. n = a
    BY <1>1, <1>4
  <2>2. IdleOff(a, p) /\ (a.reset \/ BusyOn(a))
    BY <1>2, <1>4 DEF IdleOff, BusyOn, RxPhysical, SameFlags
  <2>3. Receive(a) /\ a.inIsr
    BY <1>2 DEF Receive, SameFlags
  <2> QED
    BY <1>2, <1>3, <2>1, <2>2, <2>3 DEF Served
<1>5. CASE ~m.outAck
  <2>1. n = rxPostRxUpdates(a) /\ ~a.outAck /\ Rest(a, p)
    BY <1>1, <1>2, <1>3, <1>5 DEF Base
  <2>2. /\ n \in Mac /\ Fix(a, n) /\ SameRx(a, n) /\ SameFlags(a, n)
        /\ Moves(a, n) /\ Rest(n, p) /\ IdleOff(n, p)
        /\ EnabledOn(a) => EnabledOn(n)
    BY <1>2, <2>1, PostRxUpdates
  <2>3. Answers(n)
    BY <1>3, <2>2 DEF Base, Answers, Fix, Moves
  <2>4. Receive(n) /\ BusyOn(n) /\ n.inIsr
    BY <1>2, <2>1, <2>2
       DEF Receive, BusyOn, RxPhysical, SameRx, SameFlags
  <2> QED
    BY <1>3, <2>2, <2>3, <2>4 DEF Served, Base
<1> QED
  BY <1>4, <1>5

(* The first bytes of a frame have been read.                              *)
Starts(m, p) ==
  /\ m \in Mac /\ Base(m, p) /\ EnabledOn(m) /\ m.inIsr
  /\ m.rx = "started" /\ ~m.outAck /\ m.state = "start" /\ ~m.buf
  /\ m.on \/ m.reset

LEMMA EndsWithin ==
  ASSUME NEW m, NEW p, Starts(m, p), NEW n, Ends(m, n, p)
  PROVE  Starts(n, p)
<1>1. /\ n \in Mac /\ Base(n, p) /\ (EnabledOn(m) => EnabledOn(n))
      /\ SameRx(m, n) /\ n.inIsr = m.inIsr
  BY DEF Ends, Starts, RxStep
<1>2. n.on \/ n.reset
  BY DEF Ends, Starts, RxStep, RxPhysical
<1> QED
  BY <1>1, <1>2 DEF Starts, SameRx

LEMMA StartsIdle == ASSUME NEW m, NEW p, Starts(m, p) PROVE IdleOff(m, p)
BY DEF Starts, IdleOff, RxPhysical

LEMMA AckServes ==
  ASSUME NEW m, NEW p, Starts(m, p), NEW kind, kind = "ack" => m.heard,
         NEW sound, NEW n, n = HandleAck(m, kind, sound)
  PROVE  Served(n, p) /\ n.inIsr
<1> DEFINE seqn == IF kind = "ack" THEN "success" ELSE "noAck"
           a == IF m.tx # "listen" THEN m
                ELSE IF sound THEN AckEnds(m, seqn) ELSE AckEnds(m, "noAck")
<1>1. n = rxDone(a)
  BY DEF HandleAck, macTxAckReceivedCallback, macTxAckNotReceivedCallback
<1>2. m \in Mac /\ Base(m, p) /\ IdleOff(m, p)
  BY StartsIdle DEF Starts
<1>3. Ends(m, AckEnds(m, seqn), p)
  <2>1. seqn \in {"success", "noAck"} /\ (seqn = "success" => m.heard)
    OBVIOUS
  <2> HIDE DEF seqn
  <2> QED
    BY <1>2, <2>1, AckEndsIt
<1>4. Ends(m, AckEnds(m, "noAck"), p)
  BY <1>2, AckEndsIt
<1>5. Starts(a, p)
  <2>1. Starts(AckEnds(m, seqn), p) /\ Starts(AckEnds(m, "noAck"), p)
    BY <1>3, <1>4, EndsWithin
  <2> QED
    BY <2>1
<1> HIDE DEF a
<1> QED
  BY <1>1, <1>5, RxDoneServes DEF Starts

LEMMA KeptServes ==
  ASSUME NEW m, NEW p, Starts(m, p), NEW kind, NEW n, n = KeepFrame(m, kind)
  PROVE  Served(n, p) /\ n.inIsr
<1> DEFINE v == kind # "plain"
           a == [m EXCEPT !.buf = TRUE, !.state = "frame", !.outAck = v]
<1>0. m \in Mac /\ v \in BOOLEAN
  BY DEF Starts
<1>1. n = IF a.outAck THEN [a EXCEPT !.ackIF = FALSE, !.ackIM = TRUE] ELSE a
  BY DEF KeepFrame
<1>2. /\ a \in Mac /\ Fix(m, a) /\ SameTx(m, a) /\ SameCsp(m, a)
      /\ SameFifo(m, a) /\ SameFlags(m, a) /\ a.on = m.on /\ a.rx = m.rx
      /\ a.outAck = v /\ a.state = "frame" /\ a.buf
  <2>1. a = [m EXCEPT !.buf = TRUE, !.state = "frame", !.outAck = v]
    OBVIOUS
  <2> HIDE DEF a, v
  <2> QED
    BY <1>0, <2>1, KeepUpdate, ZenonT(60)
<1> HIDE DEF a, v
<1>3. /\ n \in Mac /\ Fix(a, n) /\ SameTx(a, n) /\ SameCsp(a, n)
      /\ SameRx(a, n) /\ SameFifo(a, n) /\ SameFlags(a, n) /\ n.on = a.on
  <2>1. CASE a.outAck
    BY <1>1, <1>2, <2>1, AckIFUpdate, Zenon
  <2>2. CASE ~a.outAck
    <3>1. n = a
      BY <1>1, <2>2
    <3> QED
      BY <1>2, <3>1 DEF Fix, SameTx, SameCsp, SameRx, SameFifo, SameFlags
  <2> QED
    BY <2>1, <2>2
<1>4. /\ Fix(m, n) /\ SameTx(m, n) /\ SameCsp(m, n) /\ SameFifo(m, n)
      /\ SameFlags(m, n)
  BY <1>2, <1>3 DEF Fix, SameTx, SameCsp, SameFifo, SameFlags
<1>5. n.on = m.on /\ n.rx = "started" /\ n.state = "frame" /\ n.buf
  BY <1>2, <1>3 DEF SameRx, Starts
<1>6. Base(n, p) /\ EnabledOn(n)
  <2>1. Radio(n)
    BY <1>4, <1>5 DEF Starts, Base, Rest, Radio, Fix, SameFifo
  <2>2. n.ok = m.ok
    BY <1>4 DEF SameFlags
  <2> QED
    BY <1>4, <1>5, <2>1, <2>2, BaseCarries DEF EnabledOn, Fix, Starts
<1>7. IdleOff(n, p) /\ Receive(n) /\ (n.reset \/ BusyOn(n)) /\ n.inIsr
  BY <1>4, <1>5
     DEF IdleOff, RxPhysical, Receive, BusyOn, SameFlags, Starts
<1> QED
  BY <1>3, <1>6, <1>7 DEF Served

LEMMA DiscardServes ==
  ASSUME NEW m, NEW p, Starts(m, p), NEW n,
         n = rxDiscardFrame(m) \/ n = rxDiscardFrame([m EXCEPT !.nack = TRUE])
  PROVE  Served(n, p) /\ n.inIsr
<1>1. /\ m \in Mac
      /\ \/ n = [m EXCEPT !.state = "discard"]
         \/ n = [[m EXCEPT !.nack = TRUE] EXCEPT !.state = "discard"]
  BY Zenon DEF Starts, rxDiscardFrame
<1>2. /\ n \in Mac /\ Fix(m, n) /\ SameTx(m, n) /\ SameCsp(m, n)
      /\ SameFifo(m, n) /\ SameFlags(m, n) /\ n.on = m.on /\ n.rx = m.rx
      /\ n.outAck = m.outAck /\ n.state = "discard" /\ n.buf = m.buf
  BY <1>1, DiscardUpdate, Zenon
<1>3. Base(n, p) /\ EnabledOn(n)
  <2>1. Radio(n)
    BY <1>2 DEF Starts, Base, Rest, Radio, Fix, SameFifo
  <2>2. n.ok = m.ok
    BY <1>2 DEF SameFlags
  <2> QED
    BY <1>2, <2>1, <2>2, BaseCarries DEF EnabledOn, Fix, Starts
<1>4. IdleOff(n, p) /\ Receive(n) /\ (n.reset \/ BusyOn(n)) /\ n.inIsr
  BY <1>2 DEF IdleOff, RxPhysical, Receive, BusyOn, SameFlags, Starts
<1> QED
  BY <1>2, <1>3, <1>4 DEF Served

(* rxStartIsr.  The FIFO holds the beginning of a frame, so the receiver   *)
(* is on; only an acknowledgement that was heard is taken for the one that *)
(* is waited for.                                                          *)
LEMMA FrameStarts ==
  ASSUME NEW m \in Mac, NEW p, Base(m, p), EnabledOn(m), m.inIsr,
         m.rx = "none", m.state = "start", ~m.buf, m.fifo # <<>>,
         NEW sound, NEW memory, NEW n, n = rxStartIsr(m, sound, memory)
  PROVE  Served(n, p) /\ n.inIsr
<1> DEFINE s == Assert(m, m.rx = "none")
           a == [s EXCEPT !.rx = "started"]
           d == macCspForceTxDoneIfPending(a)
           b == [d EXCEPT !.ackIM = FALSE, !.outAck = FALSE]
           f == IF b.fifo = <<>> THEN b.fifo ELSE Tail(b.fifo)
           c == [b EXCEPT !.fifo = f]
           kind == Head(m.fifo)[1]
<1>0. s = m
  BY AssertHolds DEF Base, Rest
<1>1. m.on /\ m.ok
  BY DEF Base, Rest, Radio
<1>2. n = IF kind \in AckKinds THEN HandleAck(c, kind, sound)
          ELSE HandleFrame(c, kind, sound, memory)
  BY <1>1 DEF rxStartIsr
<1>3. kind = "ack" => m.heard
  <2>1. m.fifo \in Seq(Parts)
    BY FifoType DEF Mac
  <2>2. 1 \in DOMAIN m.fifo /\ Head(m.fifo) = m.fifo[1]
    BY <2>1
  <2> QED
    BY <2>2 DEF Base, Rest, Radio
<1> HIDE DEF kind
<1>4. /\ a \in Mac /\ Fix(m, a) /\ SameTx(m, a) /\ SameCsp(m, a)
      /\ SameFifo(m, a) /\ SameFlags(m, a) /\ a.on = m.on /\ a.rx = "started"
      /\ a.outAck = m.outAck /\ a.state = m.state /\ a.buf = m.buf
  <2>1. a = [m EXCEPT !.rx = "started"]
    BY <1>0
  <2> HIDE DEF a
  <2> QED
    BY <2>1, RxUpdate
<1> HIDE DEF a
<1>5. Base(a, p) /\ EnabledOn(a) /\ IdleOff(a, p)
  <2>1. Radio(a)
    BY <1>4 DEF Base, Rest, Radio, Fix, SameFifo
  <2>2. a.ok = m.ok
    BY <1>4 DEF SameFlags
  <2> QED
    BY <1>4, <2>1, <2>2, BaseCarries DEF EnabledOn, Fix, IdleOff, RxPhysical
<1>6. Ends(a, d, p)
  BY <1>4, <1>5, TxDoneIsForced
<1> HIDE DEF d
<1>7. /\ d \in Mac /\ Fix(a, d) /\ Base(d, p) /\ EnabledOn(d) /\ d.inIsr
      /\ SameRx(a, d) /\ (d.on \/ d.reset)
  BY <1>1, <1>4, <1>5, <1>6 DEF Ends, RxStep, RxPhysical, SameFlags
<1>8. /\ b \in Mac /\ Fix(d, b) /\ SameTx(d, b) /\ SameCsp(d, b)
      /\ SameFifo(d, b) /\ SameFlags(d, b) /\ b.on = d.on
      /\ b.rx = d.rx /\ ~b.outAck /\ b.state = d.state /\ b.buf = d.buf
  <2>1. b = [d EXCEPT !.ackIM = FALSE, !.outAck = FALSE]
    OBVIOUS
  <2> HIDE DEF b
  <2> QED
    BY <1>7, <2>1, AckDoneUpdate
<1> HIDE DEF b
<1>9. b.fifo \in Fifos
  BY <1>8 DEF Mac
<1>10. /\ f \in Fifos
       /\ b.fifo = <<>> => f = <<>>
       /\ \A i \in DOMAIN f : \E j \in DOMAIN b.fifo : f[i] = b.fifo[j]
  <2>1. CASE b.fifo = <<>>
    BY <1>9, <2>1
  <2>2. CASE b.fifo # <<>>
    <3>1. /\ Tail(b.fifo) \in Fifos
          /\ \A i \in DOMAIN Tail(b.fifo) :
               i + 1 \in DOMAIN b.fifo /\ Tail(b.fifo)[i] = b.fifo[i + 1]
      BY <1>9, <2>2, TailFifo
    <3>2. f = Tail(b.fifo)
      BY <2>2
    <3> QED
      BY <2>2, <3>1, <3>2
  <2> QED
    BY <2>1, <2>2
<1> HIDE DEF f
<1>11. /\ c \in Mac /\ Fix(b, c) /\ SameTx(b, c) /\ SameCsp(b, c)
       /\ SameRx(b, c) /\ SameFlags(b, c) /\ c.on = b.on /\ c.fifo = f
       /\ c.fifop = b.fifop /\ c.coming = b.coming
  <2>1. c = [b EXCEPT !.fifo = f]
    OBVIOUS
  <2> HIDE DEF c
  <2> QED
    BY <1>8, <1>10, <2>1, FifoUpdate
<1> HIDE DEF c
<1>12. Fix(d, c) /\ SameTx(d, c) /\ SameCsp(d, c) /\ SameFlags(d, c) /\ c.on = d.on
  BY <1>8, <1>11 DEF Fix, SameTx, SameCsp, SameFlags
<1>13. Base(c, p)
  <2>1. Radio(b)
    BY <1>7, <1>8 DEF Base, Rest, Radio, Fix, SameFifo
  <2>2. Radio(c)
    BY <1>10, <1>11, <2>1 DEF Radio, Fix
  <2>3. c.ok = d.ok
    BY <1>12 DEF SameFlags
  <2> QED
    BY <1>7, <1>12, <2>2, <2>3, BaseCarries
<1>14. Starts(c, p)
  <2>1. c.rx = "started" /\ ~c.outAck /\ c.state = "start" /\ ~c.buf
    BY <1>4, <1>7, <1>8, <1>11 DEF SameRx
  <2>2. EnabledOn(c) /\ c.inIsr /\ (c.on \/ c.reset)
    BY <1>7, <1>12 DEF EnabledOn, Fix, SameFlags
  <2> QED
    BY <1>11, <1>13, <2>1, <2>2 DEF Starts
<1>15. kind = "ack" => c.heard
  BY <1>3, <1>4, <1>7, <1>12 DEF Fix
<1>16. CASE kind \in AckKinds
  <2>1. n = HandleAck(c, kind, sound)
    BY <1>2, <1>16
  <2> QED
    BY <1>14, <1>15, <2>1, AckServes
<1>17. CASE kind \notin AckKinds
  <2> DEFINE e == AckEnds(c, "noAck")
  <2>1. n = IF ~sound THEN rxDiscardFrame(e)
            ELSE IF memory THEN KeepFrame(e, kind)
            ELSE rxDiscardFrame([e EXCEPT !.nack = TRUE])
    BY <1>2, <1>17 DEF HandleFrame, macTxAckNotReceivedCallback
  <2>2. Ends(c, e, p)
    BY <1>13, <1>14, StartsIdle, AckEndsIt DEF Starts
  <2>3. Starts(e, p)
    BY <1>14, <2>2, EndsWithin
  <2> HIDE DEF e
  <2>4. CASE sound /\ memory
    BY <2>1, <2>3, <2>4, KeptServes
  <2>5. CASE ~(sound /\ memory)
    BY <2>1, <2>3, <2>5, DiscardServes
  <2> QED
    BY <2>4, <2>5
<1> QED
  BY <1>16, <1>17

(* Bytes leave the FIFO: what the radio promises of it remains.            *)
LEMMA TailRadio ==
  ASSUME NEW m \in Mac, NEW n, Radio(m), Fix(m, n), n.on = m.on,
         n.coming = m.coming, m.fifo # <<>>, n.fifo = Tail(m.fifo)
  PROVE  Radio(n)
<1>1. m.fifo \in Fifos
  BY DEF Mac
<1>2. \A i \in DOMAIN n.fifo :
        i + 1 \in DOMAIN m.fifo /\ n.fifo[i] = m.fifo[i + 1]
  BY <1>1, TailFifo
<1> QED
  BY <1>2 DEF Radio, Fix

(* rxFcsIsr: the rest of a frame that was kept.                            *)
LEMMA FrameKept ==
  ASSUME NEW m \in Mac, NEW p, Base(m, p), EnabledOn(m), BusyOn(m), m.inIsr,
         m.rx = "started", m.state = "frame", m.fifo # <<>>,
         NEW n, n = rxFcsIsr(m)
  PROVE  Served(n, p) /\ n.inIsr
<1> DEFINE f == Tail(m.fifo)
           a == [m EXCEPT !.fifo = f, !.buf = FALSE]
           d == [a EXCEPT !.rx = "done"]
           good == macRxOffRequest(d)
           bad == [a EXCEPT !.ackIM = FALSE, !.outAck = FALSE]
           b == IF Head(m.fifo)[1] = "bad" THEN bad ELSE good
           c == [b EXCEPT !.state = "start"]
<1>1. n = rxDone(c)
  BY DEF rxFcsIsr
<1>2. m.on /\ f \in Fifos
  <2>1. m.fifo \in Fifos
    BY DEF Mac
  <2> QED
    BY <2>1, TailFifo DEF BusyOn, RxPhysical
<1>3. /\ a \in Mac /\ Fix(m, a) /\ SameTx(m, a) /\ SameCsp(m, a)
      /\ SameFlags(m, a) /\ a.on = m.on /\ a.fifo = f
      /\ a.fifop = m.fifop /\ a.coming = m.coming /\ a.rx = m.rx
      /\ a.outAck = m.outAck /\ a.state = m.state /\ ~a.buf
  <2>1. a = [m EXCEPT !.fifo = f, !.buf = FALSE]
    OBVIOUS
  <2> HIDE DEF a, f
  <2> QED
    BY <1>2, <2>1, FcsUpdate, ZenonT(60)
<1>4. Base(a, p) /\ EnabledOn(a)
  <2>1. Radio(a)
    BY <1>3, TailRadio DEF Base, Rest
  <2>2. a.ok = m.ok
    BY <1>3 DEF SameFlags
  <2> QED
    BY <1>3, <2>1, <2>2, BaseCarries DEF EnabledOn, Fix
<1> HIDE DEF a, f
(* What both ways have in common.                                          *)
<1> DEFINE Way(x) == /\ x \in Mac /\ Base(x, p) /\ EnabledOn(x) /\ ~x.buf
                     /\ x.inIsr /\ (x.outAck => x.on)
<1>5. Way(bad)
  <2>1. /\ bad \in Mac /\ Fix(a, bad) /\ SameTx(a, bad) /\ SameCsp(a, bad)
        /\ SameFifo(a, bad) /\ SameFlags(a, bad) /\ bad.on = a.on
        /\ bad.rx = a.rx /\ ~bad.outAck /\ bad.state = a.state /\ bad.buf = a.buf
    <3>1. bad = [a EXCEPT !.ackIM = FALSE, !.outAck = FALSE]
      OBVIOUS
    <3> HIDE DEF bad
    <3> QED
      BY <1>3, <3>1, AckDoneUpdate
  <2> HIDE DEF bad
  <2>2. Radio(bad) /\ bad.ok = a.ok
    BY <1>4, <2>1 DEF Base, Rest, Radio, Fix, SameFifo, SameFlags
  <2>3. Base(bad, p) /\ EnabledOn(bad)
    BY <1>4, <2>1, <2>2, BaseCarries DEF EnabledOn, Fix
  <2>4. ~bad.buf /\ bad.inIsr
    BY <1>3, <2>1 DEF SameFlags
  <2> QED
    BY <2>1, <2>3, <2>4
<1>6. Way(good)
  <2>1. /\ d \in Mac /\ Fix(a, d) /\ SameTx(a, d) /\ SameCsp(a, d)
        /\ SameFifo(a, d) /\ SameFlags(a, d) /\ d.on = a.on /\ d.rx = "done"
        /\ d.outAck = a.outAck /\ d.state = a.state /\ d.buf = a.buf
    <3>1. d = [a EXCEPT !.rx = "done"]
      OBVIOUS
    <3> HIDE DEF d
    <3> QED
      BY <1>3, <3>1, RxUpdate
  <2> HIDE DEF d
  <2>2. Radio(d) /\ d.ok = a.ok
    BY <1>4, <2>1 DEF Base, Rest, Radio, Fix, SameFifo, SameFlags
  <2>3. Base(d, p) /\ EnabledOn(d)
    BY <1>4, <2>1, <2>2, BaseCarries DEF EnabledOn, Fix
  <2>4. /\ good \in Mac /\ Fix(d, good) /\ SameTx(d, good) /\ SameCsp(d, good)
        /\ SameRx(d, good) /\ SameFlags(d, good) /\ Radio(good)
        /\ \/ good = d
           \/ Emptied(good) /\ ~good.on /\ ~RxPhysical(d) /\ ~TxPhysical(d)
        /\ EnabledOn(d) => EnabledOn(good)
    BY <2>1, <2>2, OffRequestFacts
  <2> HIDE DEF good
  <2>5. Rest(good, p)
    BY <2>3, <2>4, RestCarries DEF Base
  <2>6. Answers(good)
    BY <2>3, <2>4 DEF Base, Answers, Fix, SameTx
  <2>7. ~good.buf /\ good.inIsr /\ (good.outAck => good.on)
    BY <1>2, <1>3, <2>1, <2>4 DEF SameRx, SameFlags, RxPhysical
  <2> QED
    BY <2>3, <2>4, <2>5, <2>6, <2>7 DEF Base
<1> HIDE DEF good, bad, d
<1>7. Way(b)
  BY <1>5, <1>6
<1> HIDE DEF b
<1>8. /\ c \in Mac /\ Fix(b, c) /\ SameTx(b, c) /\ SameCsp(b, c)
      /\ SameFifo(b, c) /\ SameFlags(b, c) /\ c.on = b.on
      /\ c.rx = b.rx /\ c.outAck = b.outAck /\ c.state = "start"
      /\ c.buf = b.buf
  <2>1. c = [b EXCEPT !.state = "start"]
    OBVIOUS
  <2> HIDE DEF c
  <2> QED
    BY <1>7, <2>1, StateUpdate
<1> HIDE DEF c
<1>9. Base(c, p) /\ EnabledOn(c)
  <2>1. Radio(c) /\ c.ok = b.ok
    BY <1>7, <1>8 DEF Base, Rest, Radio, Fix, SameFifo, SameFlags
  <2> QED
    BY <1>7, <1>8, <2>1, BaseCarries DEF EnabledOn, Fix
<1>10. c.inIsr /\ ~c.buf /\ (c.outAck => c.on)
  BY <1>7, <1>8 DEF SameFlags
<1> QED
  BY <1>1, <1>8, <1>9, <1>10, RxDoneServes

(* rxDiscardIsr: the rest of a frame that was not.                         *)
LEMMA FrameDropped ==
  ASSUME NEW m \in Mac, NEW p, Base(m, p), EnabledOn(m), BusyOn(m), m.inIsr,
         ~m.buf, m.fifo # <<>>, NEW n, n = rxDiscardIsr(m)
  PROVE  Served(n, p) /\ n.inIsr
<1> DEFINE f == Tail(m.fifo)
           a == [m EXCEPT !.fifo = f, !.state = "start"]
<1>1. n = rxDone(a)
  BY DEF rxDiscardIsr
<1>2. f \in Fifos
  <2>1. m.fifo \in Fifos
    BY DEF Mac
  <2> QED
    BY <2>1, TailFifo
<1>3. /\ a \in Mac /\ Fix(m, a) /\ SameTx(m, a) /\ SameCsp(m, a)
      /\ SameFlags(m, a) /\ a.on = m.on /\ a.fifo = f
      /\ a.fifop = m.fifop /\ a.coming = m.coming /\ a.rx = m.rx
      /\ a.outAck = m.outAck /\ a.state = "start" /\ a.buf = m.buf
  <2>1. a = [m EXCEPT !.fifo = f, !.state = "start"]
    OBVIOUS
  <2> HIDE DEF a, f
  <2>2. ASSUME NEW g \in Fifos, NEW x,
               x = [m EXCEPT !.fifo = g, !.state = "start"]
        PROVE  /\ x \in Mac /\ Fix(m, x) /\ SameTx(m, x) /\ SameCsp(m, x)
               /\ SameFlags(m, x) /\ x.on = m.on /\ x.fifo = g
               /\ x.fifop = m.fifop /\ x.coming = m.coming /\ x.rx = m.rx
               /\ x.outAck = m.outAck /\ x.state = "start" /\ x.buf = m.buf
    BY <2>2, DropUpdate, ZenonT(60)
  <2> QED
    BY <1>2, <2>1, <2>2, ZenonT(60)
<1>4. Base(a, p) /\ EnabledOn(a)
  <2>1. Radio(a)
    BY <1>3, TailRadio DEF Base, Rest
  <2>2. a.ok = m.ok
    BY <1>3 DEF SameFlags
  <2> QED
    BY <1>3, <2>1, <2>2, BaseCarries DEF EnabledOn, Fix
<1> HIDE DEF a, f
<1>5. a.inIsr /\ ~a.buf /\ (a.outAck => a.on)
  BY <1>3 DEF SameFlags, BusyOn, RxPhysical
<1> QED
  BY <1>1, <1>3, <1>4, <1>5, RxDoneServes

(* macRxThresholdIsr.  A reset asked for within it is done at its end.     *)
LEMMA ThresholdIsr ==
  ASSUME NEW m, NEW p, IInv(m, p), m.fifop, NEW sound, NEW memory,
         NEW n, n = macRxThresholdIsr(m, sound, memory)
  PROVE  IInv(n, p)
<1> DEFINE i == [m EXCEPT !.inIsr = TRUE]
           j == CASE m.state = "start"   -> rxStartIsr(i, sound, memory)
                  [] m.state = "frame"   -> rxFcsIsr(i)
                  [] m.state = "discard" -> rxDiscardIsr(i)
           k == [j EXCEPT !.inIsr = FALSE, !.fifop = j.fifo # <<>>]
<1>1. n = IF j.reset THEN rxHaltCleanupFinalStep(k) ELSE k
  BY DEF macRxThresholdIsr
<1>2. /\ m \in Mac /\ Base(m, p) /\ BusyOn(m) /\ EnabledOn(m)
      /\ Receive(m) /\ m.fifo # <<>>
  BY DEF IInv, Fifop
<1>3. /\ i \in Mac /\ Fix(m, i) /\ SameTx(m, i) /\ SameCsp(m, i)
      /\ SameRx(m, i) /\ SameFifo(m, i) /\ i.on = m.on /\ i.inIsr
      /\ i.reset = m.reset /\ i.ok = m.ok
  <2>1. i = [m EXCEPT !.inIsr = TRUE]
    OBVIOUS
  <2> HIDE DEF i
  <2> QED
    BY <1>2, <2>1, EnterUpdate
<1>4. /\ m.state = "start"   => j = rxStartIsr(i, sound, memory)
      /\ m.state = "frame"   => j = rxFcsIsr(i)
      /\ m.state = "discard" => j = rxDiscardIsr(i)
  OBVIOUS
<1> HIDE DEF i, j
<1>5. /\ Base(i, p) /\ EnabledOn(i) /\ BusyOn(i) /\ Receive(i)
      /\ i.fifo # <<>> /\ i.state = m.state
  <2>1. Radio(i)
    BY <1>2, <1>3 DEF Base, Rest, Radio, Fix, SameFifo
  <2>2. Base(i, p)
    BY <1>2, <1>3, <2>1, BaseCarries
  <2> QED
    BY <1>2, <1>3, <2>2
       DEF EnabledOn, BusyOn, RxPhysical, Receive, Fix, SameRx, SameFifo
<1>6. i.rx \in {"none", "started", "done"} /\ m.state \in {"start", "frame", "discard"}
  BY <1>2, <1>3 DEF Mac
<1>7. Served(j, p) /\ j.inIsr
  <2>1. CASE m.state = "start"
    <3>1. i.rx = "none" /\ i.state = "start" /\ ~i.buf
      BY <1>5, <2>1 DEF Receive
    <3> QED
      BY <1>3, <1>4, <1>5, <2>1, <3>1, FrameStarts
  <2>2. CASE m.state = "frame"
    <3>1. i.rx = "started" /\ i.state = "frame"
      BY <1>5, <1>6, <2>2 DEF Receive
    <3> QED
      BY <1>3, <1>4, <1>5, <2>2, <3>1, FrameKept
  <2>3. CASE m.state = "discard"
    <3>1. ~i.buf
      BY <1>5, <2>3 DEF Receive
    <3> QED
      BY <1>3, <1>4, <1>5, <2>3, <3>1, FrameDropped
  <2> QED
    BY <1>6, <2>1, <2>2, <2>3
<1>10. j \in Mac
  BY <1>7 DEF Served
<1>11. /\ k \in Mac /\ Fix(j, k) /\ SameTx(j, k) /\ SameCsp(j, k)
       /\ SameRx(j, k) /\ k.on = j.on /\ ~k.inIsr /\ k.reset = j.reset
       /\ k.ok = j.ok /\ k.fifo = j.fifo /\ k.coming = j.coming
       /\ k.fifop => k.fifo # <<>>
  <2>1. k = [j EXCEPT !.inIsr = FALSE, !.fifop = j.fifo # <<>>]
    OBVIOUS
  <2> HIDE DEF k
  <2> QED
    BY <1>10, <2>1, LeaveUpdate, Zenon
<1> HIDE DEF k
<1>12. Base(k, p)
  <2>1. Radio(k)
    BY <1>7, <1>11 DEF Served, Base, Rest, Radio, Fix
  <2> QED
    BY <1>7, <1>11, <2>1, BaseCarries DEF Served
<1>13. IdleOff(k, p) /\ EnabledOn(k) /\ Receive(k) /\ Fifop(k)
  BY <1>7, <1>11
     DEF Served, IdleOff, EnabledOn, Receive, RxPhysical, Fix, SameTx, SameRx, Fifop
<1>14. CASE j.reset
  <2>1. n = rxHaltCleanupFinalStep(k) /\ Rest(k, p)
    BY <1>1, <1>12, <1>14 DEF Base
  <2>2. /\ n \in Mac /\ Fix(k, n) /\ Moves(k, n) /\ Rest(n, p)
        /\ IdleOff(n, p) /\ Cleared(n) /\ n.inIsr = k.inIsr
        /\ EnabledOn(k) => EnabledOn(n)
    BY <1>11, <1>13, <2>1, FinalStep
  <2>3. Answers(n)
    BY <1>12, <2>2 DEF Base, Answers, Fix, Moves
  <2>4. BusyOn(n) /\ Receive(n) /\ Fifop(n) /\ ~n.inIsr /\ ~n.reset
    BY <1>11, <2>2 DEF Cleared, Emptied, BusyOn, RxPhysical, Receive, Fifop
  <2> QED
    BY <1>13, <2>2, <2>3, <2>4 DEF IInv, Base
<1>15. CASE ~j.reset
  <2>1. n = k
    BY <1>1, <1>15
  <2>2. BusyOn(k)
    BY <1>7, <1>11, <1>15 DEF Served, BusyOn, RxPhysical, SameRx
  <2> QED
    BY <1>11, <1>12, <1>13, <1>15, <2>1, <2>2 DEF IInv
<1> QED
  BY <1>14, <1>15

-----------------------------------------------------------------------------
(* The interrupts.                                                         *)

(* What a routine called outside the receive interrupt finds there.        *)
Outside(m) ==
  /\ BusyOn(m) /\ EnabledOn(m) /\ Receive(m) /\ Fifop(m)
  /\ ~m.inIsr /\ ~m.reset

LEMMA EndsOutside ==
  ASSUME NEW m, NEW p, Outside(m), NEW n, Ends(m, n, p)
  PROVE  IInv(n, p)
<1>1. /\ n \in Mac /\ Base(n, p) /\ IdleOff(n, p) /\ EnabledOn(n)
      /\ ~n.inIsr
  BY DEF Ends, Outside, RxStep
<1>2. \/ /\ SameRx(m, n) /\ n.reset = m.reset /\ (SameFifo(m, n) \/ Emptied(n))
         /\ RxPhysical(m) /\ m.on => n.on
      \/ Cleared(n)
  BY DEF Ends, Outside, RxStep
<1>3. BusyOn(n) /\ Receive(n) /\ Fifop(n) /\ ~n.reset
  BY <1>2 DEF Outside, BusyOn, RxPhysical, Receive, Fifop, SameRx, SameFifo,
     Emptied, Cleared
<1> QED
  BY <1>1, <1>3 DEF IInv

(* macRxAckTxDoneCallback: the acknowledgement of a received frame is sent. *)
LEMMA AckTxDone ==
  ASSUME NEW m, NEW p, IInv(m, p), NEW n, n = macRxAckTxDoneCallback(m)
  PROVE  IInv(n, p)
<1> DEFINE a == [m EXCEPT !.ackIM = FALSE, !.outAck = FALSE]
<1>0. m \in Mac
  BY DEF IInv
<1>1. n = IF m.rx = "none" THEN rxPostRxUpdates(a) ELSE a
  BY DEF macRxAckTxDoneCallback
<1>2. /\ a \in Mac /\ Fix(m, a) /\ SameTx(m, a) /\ SameCsp(m, a)
      /\ SameFifo(m, a) /\ SameFlags(m, a) /\ a.on = m.on
      /\ a.rx = m.rx /\ ~a.outAck /\ a.state = m.state /\ a.buf = m.buf
  <2>1. a = [m EXCEPT !.ackIM = FALSE, !.outAck = FALSE]
    OBVIOUS
  <2> HIDE DEF a
  <2> QED
    BY <1>0, <2>1, AckDoneUpdate
<1> HIDE DEF a
<1>3. Base(a, p)
  <2>1. Radio(a) /\ a.ok = m.ok
    BY <1>2 DEF IInv, Base, Rest, Radio, Fix, SameFifo, SameFlags
  <2> QED
    BY <1>2, <2>1, BaseCarries DEF IInv
<1>4. /\ EnabledOn(a) /\ BusyOn(a) /\ Receive(a) /\ Fifop(a)
      /\ ~a.inIsr /\ ~a.reset
  BY <1>2 DEF IInv, EnabledOn, BusyOn, RxPhysical, Receive, Fifop, Fix,
     SameFifo, SameFlags
<1>5. CASE m.rx = "none"
  <2>1. n = rxPostRxUpdates(a) /\ a.rx = "none" /\ Rest(a, p)
    BY <1>1, <1>2, <1>3, <1>5 DEF Base
  <2>2. /\ n \in Mac /\ Fix(a, n) /\ SameRx(a, n) /\ SameFlags(a, n)
        /\ Moves(a, n) /\ Rest(n, p) /\ IdleOff(n, p)
        /\ EnabledOn(a) => EnabledOn(n)
        /\ SameFifo(a, n) \/ Emptied(n)
    BY <1>2, <2>1, PostRxUpdates
  <2>3. Answers(n)
    BY <1>3, <2>2 DEF Base, Answers, Fix, Moves
  <2>4. BusyOn(n) /\ Receive(n) /\ Fifop(n) /\ ~n.inIsr /\ ~n.reset
    BY <1>2, <1>4, <2>1, <2>2
       DEF BusyOn, RxPhysical, Receive, Fifop, SameRx, SameFifo, SameFlags,
       Emptied
  <2> QED
    BY <1>4, <2>2, <2>3, <2>4 DEF IInv, Base
<1>6. CASE m.rx # "none"
  <2>1. n = a
    BY <1>1, <1>6
  <2>2. m.rx = "started"
    BY <1>0, <1>6 DEF IInv, Receive, Mac
  <2>3. IdleOff(a, p)
    BY <1>2, <2>2 DEF IdleOff, RxPhysical
  <2> QED
    BY <1>2, <1>3, <1>4, <2>1, <2>3 DEF IInv
<1> QED
  BY <1>5, <1>6

(* A change beside the receive path that keeps the program of the CSP and  *)
(* the promises of the radio.                                              *)
LEMMA BesideCarries ==
  ASSUME NEW m, NEW p, IInv(m, p), NEW n \in Mac,
         n.enable = m.enable, n.awake = m.awake, SameTx(m, n), SameRx(m, n),
         SameFlags(m, n), n.on = m.on,
         Program(n, p), Radio(n), Answers(n), Fifop(n)
  PROVE  IInv(n, p)
<1>1. Stage(n, p) /\ Asleep(n, p) /\ n.ok
  BY DEF IInv, Base, Rest, Stage, Asleep, SameTx, SameFlags
<1>2. IdleOff(n, p) /\ BusyOn(n) /\ EnabledOn(n)
  BY DEF IInv, IdleOff, BusyOn, EnabledOn, RxPhysical, SameTx, SameRx
<1>3. Receive(n) /\ ~n.inIsr /\ ~n.reset
  BY DEF IInv, Receive, SameRx, SameFlags
<1> QED
  BY <1>1, <1>2, <1>3 DEF IInv, Base, Rest

LEMMA ProgramCarries ==
  ASSUME NEW m, NEW n, NEW p, Program(m, p), n.tx = m.tx, SameCsp(m, n),
         n.on = m.on, n.ackReq = m.ackReq, n.sent = m.sent
  PROVE  Program(n, p)
BY DEF Program, Running, AtRest, Loaded, Sending, Listening, SameCsp

LEMMA FirstSourceServed ==
  ASSUME NEW m, NEW p, IInv(m, p), NEW n, n = FirstSource(m)
  PROVE  IInv(n, p)
<1>0. m \in Mac /\ Base(m, p) /\ IdleOff(m, p)
  BY DEF IInv
<1>1. CASE m.manint = "raised"
  <2>1. n = [m EXCEPT !.manint = "off"]
    BY <1>1 DEF FirstSource
  <2>2. /\ n \in Mac /\ Fix(m, n) /\ SameTx(m, n) /\ SameCsp(m, n)
        /\ SameRx(m, n) /\ SameFifo(m, n) /\ SameFlags(m, n)
        /\ n.on = m.on
    <3>1. "off" \in {"off", "enabled", "raised"}
      OBVIOUS
    <3> QED
      BY <1>0, <2>1, <3>1, ManintUpdate, Zenon
  <2>3. Program(n, p)
    BY <1>0, <2>2, ProgramCarries DEF Base, Rest, Fix, SameTx
  <2>4. Radio(n) /\ Answers(n) /\ Fifop(n)
    BY <2>2 DEF IInv, Base, Rest, Radio, Answers, Fifop, Fix, SameTx, SameFifo
  <2> QED
    BY <2>2, <2>3, <2>4, BesideCarries DEF Fix
<1>2. CASE m.manint # "raised" /\ m.stopIF /\ m.stopIM
  <2>1. n = macCspTxStopIsr(m)
    BY <1>2 DEF FirstSource
  <2> QED
    BY <1>0, <1>2, <2>1, TxStopIsr, EndsOutside DEF IInv, Outside
<1>3. CASE m.manint # "raised" /\ ~(m.stopIF /\ m.stopIM) /\ m.ackIF /\ m.ackIM
  <2>1. n = macRxAckTxDoneCallback(m)
    BY <1>3 DEF FirstSource
  <2> QED
    BY <2>1, AckTxDone
<1>4. CASE m.manint # "raised" /\ ~(m.stopIF /\ m.stopIM) /\ ~(m.ackIF /\ m.ackIM)
  <2>1. n = m
    BY <1>4 DEF FirstSource
  <2> QED
    BY <2>1
<1> QED
  BY <1>1, <1>2, <1>3, <1>4

LEMMA RfIsrStep ==
  ASSUME IInv(mac, pc), macMcuRfIsr
  PROVE  IInv(mac, pc)' /\ prompt' = prompt
<1>1. PICK sound \in BOOLEAN, memory \in BOOLEAN :
        mac' = IF FirstSource(mac).fifop
               THEN macRxThresholdIsr(FirstSource(mac), sound, memory)
               ELSE FirstSource(mac)
  BY DEF macMcuRfIsr
<1>2. pc' = pc /\ prompt' = prompt
  BY DEF macMcuRfIsr
<1> DEFINE a == FirstSource(mac)
<1>3. IInv(a, pc)
  BY FirstSourceServed
<1>4. mac' = IF a.fifop THEN macRxThresholdIsr(a, sound, memory) ELSE a
  BY <1>1
<1> HIDE DEF a
<1>5. CASE a.fifop
  <2>1. mac' = macRxThresholdIsr(a, sound, memory)
    BY <1>4, <1>5
  <2>2. \A n : n = macRxThresholdIsr(a, sound, memory) => IInv(n, pc)
    BY <1>3, <1>5, ThresholdIsr
  <2>3. IInv(mac', pc)
    BY <2>1, <2>2
  <2> QED
    BY <1>2, <2>3
<1>6. CASE ~a.fifop
  <2>1. mac' = a
    BY <1>4, <1>6
  <2> QED
    BY <1>2, <1>3, <2>1
<1> QED
  BY <1>5, <1>6

LEMMA ErrIsrStep ==
  ASSUME IInv(mac, pc), macMcuRfErrIsr
  PROVE  IInv(mac, pc)' /\ prompt' = prompt
<1>1. ASSUME NEW m, NEW p, IInv(m, p), NEW n, n = macRxHaltCleanup(m)
      PROVE  IInv(n, p)
  <2>1. n = rxHaltCleanupFinalStep(m) /\ m \in Mac /\ Rest(m, p) /\ IdleOff(m, p)
    BY <1>1 DEF IInv, Base, macRxHaltCleanup
  <2>2. /\ n \in Mac /\ Fix(m, n) /\ Moves(m, n) /\ Rest(n, p)
        /\ IdleOff(n, p) /\ Cleared(n) /\ n.inIsr = m.inIsr
        /\ EnabledOn(m) => EnabledOn(n)
    BY <2>1, FinalStep
  <2>3. Answers(n)
    BY <1>1, <2>2 DEF IInv, Base, Answers, Fix, Moves
  <2>4. BusyOn(n) /\ Receive(n) /\ Fifop(n) /\ ~n.inIsr /\ ~n.reset
    BY <1>1, <2>2
       DEF IInv, Cleared, Emptied, BusyOn, RxPhysical, Receive, Fifop
  <2> QED
    BY <1>1, <2>2, <2>3, <2>4 DEF IInv, Base
<1>2. mac' = macRxHaltCleanup(mac) /\ pc' = pc /\ prompt' = prompt
  BY DEF macMcuRfErrIsr
<1>3. \A n : n = macRxHaltCleanup(mac) => IInv(n, pc)
  BY <1>1
<1>4. IInv(mac', pc)
  BY <1>2, <1>3
<1> QED
  BY <1>2, <1>4

-----------------------------------------------------------------------------
(* The hardware.                                                           *)

(* The CSP raises its interrupt: the channel was busy, or the time for an  *)
(* acknowledgement is over.                                                *)
LEMMA CspStops ==
  ASSUME NEW m, NEW p, IInv(m, p), m.csp \in {"backoff", "timer"},
         NEW n, n = [m EXCEPT !.csp = "off", !.stopIF = TRUE]
  PROVE  IInv(n, p)
<1>1. m \in Mac
  BY DEF IInv
<1>2. [m EXCEPT !.csp = "off", !.stopIF = TRUE] \in Mac
  BY <1>1, ZenonT(60) DEF Mac
<1>3. n \in Mac
  BY <1>2
<1>4. /\ Fix(m, n) /\ SameTx(m, n) /\ SameRx(m, n) /\ SameFifo(m, n)
      /\ SameFlags(m, n) /\ n.on = m.on
      /\ n.csp = "off" /\ n.cspz = m.cspz /\ n.nb = m.nb
      /\ n.stopIM = m.stopIM /\ n.stopIF
  BY <1>1 DEF Mac, Fix, SameTx, SameRx, SameFifo, SameFlags
<1>5. Program(n, p)
  <2>1. Program(m, p)
    BY DEF IInv, Base, Rest
  <2>2. Running(m, p) \/ m.tx = "listen"
    BY <2>1 DEF Program, AtRest
  <2>3. n.tx = m.tx /\ n.sent = m.sent /\ n.ackReq = m.ackReq
    BY <1>4 DEF Fix, SameTx
  <2>4. m.tx = "go" => p \notin {"start", "cancel", "clear", "csma"}
    BY <2>2 DEF Running, IInv, Base, Rest, Stage
  <2>5. CASE m.tx = "go"
    <3>1. Running(m, p) /\ m.on /\ m.stopIM /\ Sending(m)
      BY <2>1, <2>2, <2>5 DEF Program
    <3>2. Sending(n)
      BY <1>4, <3>1 DEF Sending
    <3> QED
      BY <1>4, <2>3, <2>4, <2>5, <3>1, <3>2 DEF Program, Running
  <2>6. CASE m.tx = "listen"
    <3>1. m.on /\ m.stopIM /\ Listening(m)
      BY <2>1, <2>6 DEF Program
    <3>2. Listening(n)
      BY <1>4, <2>3, <3>1 DEF Listening
    <3>3. p \notin {"start", "cancel", "clear", "csma"}
      BY <2>6 DEF IInv, Base, Rest, Stage
    <3> QED
      BY <1>4, <2>3, <2>6, <3>1, <3>2, <3>3 DEF Program, Running
  <2> QED
    BY <2>2, <2>5, <2>6 DEF Running
<1>6. Radio(n) /\ Answers(n) /\ Fifop(n)
  BY <1>4 DEF IInv, Base, Rest, Radio, Answers, Fifop, Fix, SameTx, SameFifo
<1> QED
  BY <1>3, <1>4, <1>5, <1>6, BesideCarries DEF Fix

LEMMA CspSendsKeeps ==
  ASSUME NEW m, NEW p, IInv(m, p), m.csp = "backoff",
         NEW n, n = [m EXCEPT !.csp = "air", !.manint = "raised"]
  PROVE  IInv(n, p)
<1>1. m \in Mac
  BY DEF IInv
<1>2. [m EXCEPT !.csp = "air", !.manint = "raised"] \in Mac
  BY <1>1, ZenonT(60) DEF Mac
<1>3. n \in Mac
  BY <1>2
<1>4. /\ Fix(m, n) /\ SameTx(m, n) /\ SameRx(m, n) /\ SameFifo(m, n)
      /\ SameFlags(m, n) /\ n.on = m.on
      /\ n.csp = "air" /\ n.cspz = m.cspz /\ n.nb = m.nb
      /\ n.stopIM = m.stopIM /\ n.stopIF = m.stopIF
  BY <1>1 DEF Mac, Fix, SameTx, SameRx, SameFifo, SameFlags
<1>5. Program(n, p)
  <2>1. Program(m, p)
    BY DEF IInv, Base, Rest
  <2>2. Running(m, p) /\ m.tx # "listen"
    BY <2>1 DEF Program, AtRest, Running, Listening
  <2> QED
    BY <1>4, <2>1, <2>2 DEF Program, Running, Loaded, Sending, SameTx
<1>6. Radio(n) /\ Answers(n) /\ Fifop(n)
  BY <1>4 DEF IInv, Base, Rest, Radio, Answers, Fifop, Fix, SameTx, SameFifo
<1> QED
  BY <1>3, <1>4, <1>5, <1>6, BesideCarries DEF Fix

LEMMA CspSentKeeps ==
  ASSUME NEW m, NEW p, IInv(m, p), m.csp = "air",
         NEW n, n = [m EXCEPT !.csp = "off", !.cspz = "done",
                              !.stopIF = TRUE, !.sent = TRUE]
  PROVE  IInv(n, p)
<1>1. m \in Mac
  BY DEF IInv
<1>2. [m EXCEPT !.csp = "off", !.cspz = "done", !.stopIF = TRUE,
                !.sent = TRUE] \in Mac
  BY <1>1, ZenonT(60) DEF Mac
<1>3. n \in Mac
  BY <1>2
<1>4. /\ n.ackReq = m.ackReq /\ n.enable = m.enable /\ n.awake = m.awake
      /\ n.heard = m.heard /\ n.sent
      /\ SameTx(m, n) /\ SameRx(m, n) /\ SameFifo(m, n)
      /\ SameFlags(m, n) /\ n.on = m.on
      /\ n.csp = "off" /\ n.cspz = "done" /\ n.nb = m.nb
      /\ n.stopIM = m.stopIM /\ n.stopIF
  BY <1>1 DEF Mac, SameTx, SameRx, SameFifo, SameFlags
<1>5. Program(n, p)
  <2>1. Program(m, p)
    BY DEF IInv, Base, Rest
  <2>2. Running(m, p) /\ m.tx # "listen"
    BY <2>1 DEF Program, AtRest, Running, Listening
  <2>3. p \notin {"start", "cancel", "clear", "csma"} /\ m.tx = "go"
    BY <2>2 DEF Running, IInv, Base, Rest, Stage
  <2> QED
    BY <1>4, <2>1, <2>2, <2>3 DEF Program, Running, Sending, SameTx
<1>6. Radio(n) /\ Answers(n) /\ Fifop(n)
  BY <1>4 DEF IInv, Base, Rest, Radio, Answers, Fifop, SameTx, SameFifo
<1> QED
  BY <1>3, <1>4, <1>5, <1>6, BesideCarries

(* More is received.  What is taken for the acknowledgement was heard.     *)
LEMMA FifoGrows ==
  ASSUME NEW m, NEW p, IInv(m, p), m.on, Len(m.fifo) < FifoSize,
         NEW part \in Parts, NEW n \in Mac,
         n.fifo = Append(m.fifo, part),
         n.ackReq = m.ackReq, n.enable = m.enable, n.awake = m.awake,
         n.sent = m.sent, m.heard => n.heard, part[1] = "ack" => n.heard,
         SameTx(m, n), SameCsp(m, n), SameRx(m, n), SameFlags(m, n),
         n.on = m.on
  PROVE  IInv(n, p)
<1>1. m.fifo \in Seq(Parts) /\ Len(m.fifo) \in Nat
  <2>1. m.fifo \in Fifos
    BY DEF IInv, Mac
  <2> QED
    BY <2>1, FifoType
<1>2. /\ n.fifo # <<>>
      /\ \A i \in DOMAIN n.fifo :
           \/ i \in DOMAIN m.fifo /\ n.fifo[i] = m.fifo[i]
           \/ n.fifo[i] = part
  BY <1>1
<1>3. Radio(n)
  <2>1. Radio(m)
    BY DEF IInv, Base, Rest
  <2> QED
    BY <1>2, <2>1 DEF Radio
<1>4. Program(n, p)
  BY ProgramCarries DEF IInv, Base, Rest, SameTx
<1>5. Answers(n) /\ Fifop(n)
  BY <1>2 DEF IInv, Base, Answers, Fifop, SameTx
<1> QED
  BY <1>3, <1>4, <1>5, BesideCarries

LEMMA AppendFifo ==
  ASSUME NEW f \in Fifos, Len(f) < FifoSize, NEW part \in Parts
  PROVE  Append(f, part) \in Fifos
<1>1. f \in Seq(Parts) /\ Len(f) \in Nat
  BY FifoType
<1>2. Append(f, part) \in Seq(Parts) /\ Len(Append(f, part)) = Len(f) + 1
  BY <1>1
<1>3. Len(Append(f, part)) <= FifoSize
  BY <1>1, <1>2, MacAssumption
<1>4. \A g : g \in Seq(Parts) /\ Len(g) <= FifoSize => g \in Fifos
  BY FifoType
<1> QED
  BY <1>2, <1>3, <1>4

Coming == {"none"} \cup DataKinds
Hears(m, kind) == m.heard \/ kind = "ack"

LEMMA BeginUpdate ==
  ASSUME NEW m \in Mac, NEW n, NEW f \in Fifos, NEW kind,
         NEW c \in Coming,
         n = [m EXCEPT !.fifo = f, !.fifop = TRUE, !.coming = c,
                       !.nack = FALSE, !.heard = Hears(m, kind)]
  PROVE  /\ n \in Mac
         /\ n.ackReq = m.ackReq /\ n.enable = m.enable /\ n.awake = m.awake
         /\ n.sent = m.sent /\ n.on = m.on
         /\ SameTx(m, n) /\ SameCsp(m, n) /\ SameRx(m, n) /\ SameFlags(m, n)
<1>1. Hears(m, kind) \in BOOLEAN
  BY DEF Hears
<1>2. [m EXCEPT !.fifo = f, !.fifop = TRUE, !.coming = c,
                !.nack = FALSE, !.heard = Hears(m, kind)] \in Mac
  BY <1>1, ZenonT(60) DEF Mac, Coming
<1>3. n \in Mac
  BY <1>2
<1> QED
  BY <1>3 DEF Mac, SameTx, SameCsp, SameRx, SameFlags

LEMMA FrameBeginsKeeps ==
  ASSUME NEW m, NEW p, IInv(m, p), Len(m.fifo) < FifoSize,
         NEW kind \in Kinds, NEW c \in Coming,
         NEW f, f = Append(m.fifo, <<kind, "head">>),
         NEW n, n = [m EXCEPT !.fifo = f, !.fifop = TRUE, !.coming = c,
                              !.nack = FALSE, !.heard = Hears(m, kind)]
  PROVE  m.on => IInv(n, p)
<1> DEFINE part == <<kind, "head">>
<1>1. m \in Mac /\ m.fifo \in Fifos
  BY DEF IInv, Mac
<1>2. part \in Parts /\ part[1] = kind
  BY DEF Parts
<1>3. f = Append(m.fifo, part)
  OBVIOUS
<1> HIDE DEF part
<1>4. f \in Fifos
  BY <1>1, <1>2, <1>3, AppendFifo
<1>5. /\ n \in Mac
      /\ n.ackReq = m.ackReq /\ n.enable = m.enable /\ n.awake = m.awake
      /\ n.sent = m.sent /\ n.on = m.on
      /\ SameTx(m, n) /\ SameCsp(m, n) /\ SameRx(m, n) /\ SameFlags(m, n)
  BY <1>1, <1>4, BeginUpdate, Zenon
<1>6. n.fifo = f /\ n.heard = Hears(m, kind)
  BY <1>1, Zenon DEF Mac
<1>7. n.fifo = Append(m.fifo, part) /\ (part[1] = "ack" => n.heard)
  BY <1>2, <1>3, <1>6 DEF Hears
<1>8. m.heard => n.heard
  BY <1>6 DEF Hears
<1> QED
  BY <1>2, <1>5, <1>7, <1>8, FifoGrows

LEMMA FrameEndsKeeps ==
  ASSUME NEW m, NEW p, IInv(m, p), m.coming # "none", Len(m.fifo) < FifoSize,
         NEW n, n = [m EXCEPT !.fifo = Append(@, <<m.coming, "tail">>),
                              !.fifop = TRUE, !.coming = "none",
                              !.acking = m.coming = "data" /\ ~m.nack]
  PROVE  IInv(n, p)
<1> DEFINE part == <<m.coming, "tail">>
           f == Append(m.fifo, part)
           h == m.coming = "data" /\ ~m.nack
<1>1. m \in Mac /\ m.coming \in DataKinds
  BY DEF IInv, Mac
<1>2. /\ m.on /\ part \in Parts /\ part[1] = m.coming /\ part[1] # "ack"
      /\ h \in BOOLEAN
  BY <1>1 DEF IInv, Base, Rest, Radio, Parts, Kinds, DataKinds
<1>3. m.fifo \in Fifos
  BY <1>1 DEF Mac
<1>4. n = [m EXCEPT !.fifo = f, !.fifop = TRUE, !.coming = "none",
                    !.acking = h]
  BY <1>1
<1> HIDE DEF part, h
<1>5. f \in Fifos
  BY <1>2, <1>3, AppendFifo
<1>6. f = Append(m.fifo, part)
  OBVIOUS
<1> HIDE DEF f
<1>7. [m EXCEPT !.fifo = f, !.fifop = TRUE, !.coming = "none",
                !.acking = h] \in Mac
  BY <1>1, <1>2, <1>5, ZenonT(60) DEF Mac
<1>8. n \in Mac
  BY <1>4, <1>7
<1>9. /\ n.fifo = f /\ n.heard = m.heard
      /\ n.ackReq = m.ackReq /\ n.enable = m.enable /\ n.awake = m.awake
      /\ n.sent = m.sent /\ SameTx(m, n) /\ SameCsp(m, n) /\ SameRx(m, n)
      /\ SameFlags(m, n) /\ n.on = m.on
  <2>1. /\ n.fifo = f /\ n.heard = m.heard
        /\ n.ackReq = m.ackReq /\ n.enable = m.enable /\ n.awake = m.awake
        /\ n.sent = m.sent /\ n.on = m.on
    BY <1>1, <1>4, ZenonT(60) DEF Mac
  <2>2. SameTx(m, n) /\ SameCsp(m, n)
    BY <1>1, <1>4 DEF Mac, SameTx, SameCsp
  <2>3. SameRx(m, n) /\ SameFlags(m, n)
    BY <1>1, <1>4 DEF Mac, SameRx, SameFlags
  <2> QED
    BY <2>1, <2>2, <2>3
<1> QED
  BY <1>2, <1>6, <1>8, <1>9, FifoGrows, ZenonT(60)

LEMMA AckSentKeeps ==
  ASSUME NEW m, NEW p, IInv(m, p),
         NEW n, n = [m EXCEPT !.acking = FALSE, !.ackIF = TRUE]
  PROVE  IInv(n, p)
<1>1. m \in Mac
  BY DEF IInv
<1>2. [m EXCEPT !.acking = FALSE, !.ackIF = TRUE] \in Mac
  BY <1>1, ZenonT(60) DEF Mac
<1>3. n \in Mac
  BY <1>2
<1>4. /\ Fix(m, n) /\ SameTx(m, n) /\ SameCsp(m, n) /\ SameRx(m, n)
      /\ SameFifo(m, n) /\ SameFlags(m, n) /\ n.on = m.on
  BY <1>1 DEF Mac, Fix, SameTx, SameCsp, SameRx, SameFifo, SameFlags
<1>5. Program(n, p)
  BY <1>4, ProgramCarries DEF IInv, Base, Rest, Fix, SameTx
<1>6. Radio(n) /\ Answers(n) /\ Fifop(n)
  BY <1>4 DEF IInv, Base, Rest, Radio, Answers, Fifop, Fix, SameTx, SameFifo
<1> QED
  BY <1>3, <1>4, <1>5, <1>6, BesideCarries DEF Fix

LEMMA HardwareStep ==
  ASSUME IInv(mac, pc), Csp \/ Air
  PROVE  IInv(mac, pc)' /\ prompt' = prompt
<1>1. /\ \A n : mac.csp \in {"backoff", "timer"} /\ n = [mac EXCEPT !.csp = "off", !.stopIF = TRUE]
                => IInv(n, pc)
      /\ \A n : mac.csp = "backoff" /\ n = [mac EXCEPT !.csp = "air", !.manint = "raised"]
                => IInv(n, pc)
      /\ \A n : mac.csp = "air" /\ n = [mac EXCEPT !.csp = "off", !.cspz = "done",
                                                   !.stopIF = TRUE, !.sent = TRUE]
                => IInv(n, pc)
  BY CspStops, CspSendsKeeps, CspSentKeeps
<1>2. CASE Csp
  <2>1. IInv(mac', pc) /\ pc' = pc /\ prompt' = prompt
    BY <1>1, <1>2 DEF Csp, CspBusy, CspSends, CspSent, AckTimeout, Hardware
  <2> QED
    BY <2>1
<1>3. CASE \E kind \in Kinds : FrameBegins(kind)
  <2>1. PICK kind \in Kinds : FrameBegins(kind)
    BY <1>3
  <2> DEFINE c == IF kind \in DataKinds THEN kind ELSE "none"
             f == Append(mac.fifo, <<kind, "head">>)
  <2>2. c \in Coming
    BY DEF Coming
  <2>3. /\ mac' = [mac EXCEPT !.fifo = f, !.fifop = TRUE, !.coming = c,
                              !.nack = FALSE, !.heard = Hears(mac, kind)]
        /\ mac.on /\ Len(mac.fifo) < FifoSize /\ pc' = pc /\ prompt' = prompt
    BY <2>1 DEF FrameBegins, Hardware, Received, Hears
  <2>4. f = Append(mac.fifo, <<kind, "head">>)
    OBVIOUS
  <2> HIDE DEF c, f
  <2>5. \A n : n = [mac EXCEPT !.fifo = f, !.fifop = TRUE, !.coming = c,
                               !.nack = FALSE, !.heard = Hears(mac, kind)]
              => IInv(n, pc)
    BY <2>2, <2>3, <2>4, FrameBeginsKeeps
  <2>6. IInv(mac', pc)
    BY <2>3, <2>5
  <2> QED
    BY <2>3, <2>6
<1>4. CASE FrameEnds
  <2>1. /\ mac' = [mac EXCEPT !.fifo = Append(@, <<mac.coming, "tail">>),
                              !.fifop = TRUE, !.coming = "none",
                              !.acking = mac.coming = "data" /\ ~mac.nack]
        /\ mac.coming # "none" /\ Len(mac.fifo) < FifoSize
        /\ pc' = pc /\ prompt' = prompt
    BY <1>4 DEF FrameEnds, Hardware, Received
  <2>2. \A n : n = [mac EXCEPT !.fifo = Append(@, <<mac.coming, "tail">>),
                              !.fifop = TRUE, !.coming = "none",
                              !.acking = mac.coming = "data" /\ ~mac.nack]
               => IInv(n, pc)
    BY <2>1, FrameEndsKeeps
  <2>3. IInv(mac', pc)
    BY <2>1, <2>2
  <2> QED
    BY <2>1, <2>3
<1>5. CASE AckSent
  <2>1. /\ mac' = [mac EXCEPT !.acking = FALSE, !.ackIF = TRUE]
        /\ pc' = pc /\ prompt' = prompt
    BY <1>5 DEF AckSent, Hardware
  <2>2. \A n : n = [mac EXCEPT !.acking = FALSE, !.ackIF = TRUE] => IInv(n, pc)
    BY AckSentKeeps
  <2>3. IInv(mac', pc)
    BY <2>1, <2>2
  <2> QED
    BY <2>1, <2>3
<1> QED
  BY <1>2, <1>3, <1>4, <1>5 DEF Air

-----------------------------------------------------------------------------
(* The calls of the upper half.                                            *)

(* A new transmission: it waits to be prepared, or is refused in sleep.    *)
LEMMA TransmitKeeps ==
  ASSUME NEW m \in Mac, Radio(m), AtRest(m), m.ok, m.tx = "none", Outside(m),
         NEW n, n = [m EXCEPT !.tx = "initialize", !.confirm = "owed",
                              !.sent = FALSE]
  PROVE  /\ m.awake => IInv(n, "prepare")
         /\ ~m.awake => IInv(txComplete(n, "aborted"), "idle")
<1>1. "initialize" \in TxStates /\ "owed" \in Confirms
  BY DEF TxStates, Confirms
<1>2. [m EXCEPT !.tx = "initialize", !.confirm = "owed", !.sent = FALSE] \in Mac
  BY <1>1, ZenonT(60) DEF Mac
<1>3. n \in Mac
  BY <1>2
<1>4. /\ n.enable = m.enable /\ n.awake = m.awake /\ n.heard = m.heard
      /\ n.tx = "initialize" /\ n.confirm = "owed"
      /\ SameCsp(m, n) /\ SameRx(m, n) /\ SameFifo(m, n) /\ SameFlags(m, n)
      /\ n.on = m.on
  BY DEF Mac, SameCsp, SameRx, SameFifo, SameFlags
<1>5. Radio(n) /\ AtRest(n) /\ n.ok /\ Outside(n)
  BY <1>4 DEF Radio, AtRest, Outside, BusyOn, EnabledOn, Receive, Fifop,
     RxPhysical, SameCsp, SameRx, SameFifo, SameFlags
<1>6. ASSUME m.awake PROVE IInv(n, "prepare")
  <2>1. Stage(n, "prepare") /\ Asleep(n, "prepare")
    BY <1>4, <1>6 DEF Stage, Asleep
  <2>2. Program(n, "prepare")
    BY <1>4, <1>5 DEF Program, Running
  <2>3. Answers(n) /\ IdleOff(n, "prepare")
    BY <1>4 DEF Answers, IdleOff
  <2> QED
    BY <1>3, <1>5, <2>1, <2>2, <2>3 DEF IInv, Base, Rest, Outside
<1>7. ASSUME ~m.awake PROVE IInv(txComplete(n, "aborted"), "idle")
  <2>1. Ends(n, txComplete(n, "aborted"), "idle")
    BY <1>3, <1>4, <1>5, Completes
  <2> QED
    BY <1>5, <2>1, EndsOutside
<1> QED
  BY <1>6, <1>7

(* No old acknowledgement is taken for that of a new frame.                *)
LEMMA AgedFifo ==
  ASSUME NEW f \in Fifos, NEW g, g = [i \in DOMAIN f |-> Aged(f[i])]
  PROVE  /\ g \in Fifos /\ (g = <<>> <=> f = <<>>)
         /\ \A i \in DOMAIN g : g[i][1] # "ack"
<1>1. f \in Seq(Parts) /\ Len(f) \in Nat /\ Len(f) <= FifoSize
  BY FifoType
<1>2. DOMAIN f = 1 .. Len(f) /\ \A i \in 1 .. Len(f) : f[i] \in Parts
  BY <1>1
<1>3. ASSUME NEW part \in Parts PROVE Aged(part) \in Parts /\ Aged(part)[1] # "ack"
  BY DEF Parts, Kinds, DataKinds, AckKinds, Aged
<1>4. g \in [1 .. Len(f) -> Parts]
  BY <1>2, <1>3
<1>5. g \in Seq(Parts) /\ Len(g) = Len(f)
  BY <1>1, <1>4
<1>6. \A i \in DOMAIN g : g[i][1] # "ack"
  BY <1>2, <1>3
<1>7. g = <<>> <=> f = <<>>
  BY <1>1, <1>5
<1> QED
  BY <1>1, <1>5, <1>6, <1>7, FifoType

(* Between two calls nothing is on its way unless the CSP has it.          *)
LEMMA IdleFacts ==
  ASSUME NEW m, IInv(m, "idle")
  PROVE  /\ m \in Mac /\ Radio(m) /\ m.ok /\ Outside(m)
         /\ m.confirm = "owed" <=> m.tx # "none"
         /\ m.tx = "none" => AtRest(m)
BY DEF IInv, Base, Rest, Outside, Answers, Program, Running

LEMMA TxFrameStep ==
  ASSUME IInv(mac, pc), macTxFrame
  PROVE  IInv(mac, pc)' /\ prompt' = prompt
<1> DEFINE f == [i \in DOMAIN mac.fifo |-> Aged(mac.fifo[i])]
<1>1. PICK r \in BOOLEAN :
        Transmit([mac EXCEPT !.ackReq = r, !.heard = FALSE, !.fifo = f])
  BY DEF macTxFrame
<1> DEFINE m == [mac EXCEPT !.ackReq = r, !.heard = FALSE, !.fifo = f]
           n == [m EXCEPT !.tx = "initialize", !.confirm = "owed",
                          !.sent = FALSE]
<1>2. pc = "idle" /\ mac.confirm # "owed"
  BY <1>1 DEF macTxFrame, Transmit, At
<1>3. /\ mac \in Mac /\ Radio(mac) /\ mac.ok /\ Outside(mac)
      /\ mac.tx = "none" /\ AtRest(mac)
  BY <1>2, IdleFacts
<1>4. /\ f \in Fifos /\ (f = <<>> <=> mac.fifo = <<>>)
      /\ \A i \in DOMAIN f : f[i][1] # "ack"
  <2>1. mac.fifo \in Fifos
    BY <1>3 DEF Mac
  <2>2. f = [i \in DOMAIN mac.fifo |-> Aged(mac.fifo[i])]
    OBVIOUS
  <2> HIDE DEF f
  <2> QED
    BY <2>1, <2>2, AgedFifo
<1>5. Transmit(m)
  BY <1>1
<1> HIDE DEF f
<1>6. m \in Mac
  BY <1>3, <1>4, ZenonT(60) DEF Mac
<1>7. /\ m.enable = mac.enable /\ m.awake = mac.awake /\ m.fifo = f
      /\ m.tx = mac.tx /\ SameCsp(mac, m) /\ SameRx(mac, m)
      /\ SameFlags(mac, m) /\ m.on = mac.on
      /\ m.fifop = mac.fifop /\ m.coming = mac.coming
  BY <1>3 DEF Mac, SameCsp, SameRx, SameFlags
<1> HIDE DEF m
<1>8. Radio(m) /\ AtRest(m) /\ m.ok /\ Outside(m) /\ m.tx = "none"
  BY <1>3, <1>4, <1>7 DEF Radio, AtRest, Outside, BusyOn, EnabledOn, Receive,
     Fifop, RxPhysical, SameCsp, SameRx, SameFlags
<1>9. /\ m.awake => IInv(n, "prepare")
      /\ ~m.awake => IInv(txComplete(n, "aborted"), "idle")
  BY <1>6, <1>8, TransmitKeeps
<1>10. Assert(m, m.tx = "none") = m
  BY <1>6, <1>8, AssertHolds
<1>11. /\ prompt' = prompt
       /\ \/ m.awake /\ mac' = n /\ pc' = "prepare"
          \/ ~m.awake /\ mac' = txComplete(n, "aborted") /\ pc' = "idle"
  BY <1>5, <1>10 DEF Transmit, At
<1> HIDE DEF n
<1> QED
  BY <1>9, <1>11

LEMMA RetransmitStep ==
  ASSUME IInv(mac, pc), macTxFrameRetransmit
  PROVE  IInv(mac, pc)' /\ prompt' = prompt
<1> DEFINE n == [mac EXCEPT !.tx = "initialize", !.confirm = "owed",
                            !.sent = FALSE]
<1>1. pc = "idle" /\ mac.confirm # "owed" /\ Transmit(mac)
  BY DEF macTxFrameRetransmit, Transmit, At
<1>2. /\ mac \in Mac /\ Radio(mac) /\ mac.ok /\ Outside(mac)
      /\ mac.tx = "none" /\ AtRest(mac)
  BY <1>1, IdleFacts
<1>3. /\ mac.awake => IInv(n, "prepare")
      /\ ~mac.awake => IInv(txComplete(n, "aborted"), "idle")
  BY <1>2, TransmitKeeps
<1>4. Assert(mac, mac.tx = "none") = mac
  BY <1>2, AssertHolds
<1>5. /\ prompt' = prompt
      /\ \/ mac.awake /\ mac' = n /\ pc' = "prepare"
         \/ ~mac.awake /\ mac' = txComplete(n, "aborted") /\ pc' = "idle"
  BY <1>1, <1>4 DEF Transmit, At
<1> HIDE DEF n
<1> QED
  BY <1>3, <1>5

(* The frame is prepared: the program of the CSP is loaded.                *)
LEMMA PrepareStep ==
  ASSUME IInv(mac, pc), PrepareFrame
  PROVE  IInv(mac, pc)' /\ prompt' = prompt
<1> DEFINE m == mac
           n == [m EXCEPT !.cspz = "busy", !.csp = "off", !.stopIF = FALSE,
                          !.nb = 0]
<1>0. pc = "prepare" /\ pc' = "start" /\ prompt' = prompt
  BY DEF PrepareFrame, At
<1>1. /\ m \in Mac /\ m.ok /\ Radio(m) /\ Answers(m) /\ m.tx = "initialize"
      /\ AtRest(m) /\ m.awake
  BY <1>0 DEF IInv, Base, Rest, Stage, Program, Running, Asleep
<1>2. Assert(m, ~m.stopIM) = m
  BY <1>1, AssertHolds DEF AtRest
<1>3. mac' = n
  BY <1>2 DEF PrepareFrame, At, Prepare
<1>4. 0 \in 0 .. MaxCsmaBackoffs + 1 /\ 0 <= MaxCsmaBackoffs
  BY MacAssumption
<1>5. n \in Mac
  BY <1>1, <1>4, ZenonT(60) DEF Mac
<1>6. /\ Fix(m, n) /\ SameTx(m, n) /\ SameRx(m, n) /\ SameFifo(m, n)
      /\ SameFlags(m, n) /\ n.on = m.on /\ n.stopIM = m.stopIM
      /\ n.csp = "off" /\ n.cspz = "busy" /\ ~n.stopIF /\ n.nb = 0
  BY <1>1, ZenonT(60) DEF Mac, Fix, SameTx, SameRx, SameFifo, SameFlags
<1> HIDE DEF m, n
<1>7. Stage(n, "start") /\ Asleep(n, "start") /\ Program(n, "start")
  BY <1>1, <1>4, <1>6
     DEF Stage, Asleep, Program, Running, AtRest, Loaded, Fix, SameTx
<1>8. /\ Radio(n) /\ Answers(n) /\ n.ok /\ IdleOff(n, "start")
  BY <1>1, <1>6 DEF Radio, Answers, IdleOff, Fix, SameTx, SameFifo, SameFlags
<1>9. BusyOn(n) /\ EnabledOn(n) /\ Receive(n) /\ Fifop(n) /\ ~n.inIsr /\ ~n.reset
  BY <1>6 DEF m, IInv, BusyOn, EnabledOn, RxPhysical, Receive, Fifop, Fix,
     SameRx, SameFifo, SameFlags
<1>10. IInv(n, "start")
  BY <1>5, <1>7, <1>8, <1>9 DEF IInv, Base, Rest
<1> QED
  BY <1>0, <1>3, <1>10

(* The main loop goes on, with a change of the transmission alone.         *)
LEMMA LoopCarries ==
  ASSUME NEW m, NEW p, IInv(m, p), NEW n \in Mac, NEW q,
         Fix(m, n), n.confirm = m.confirm, SameCsp(m, n), SameFifo(m, n),
         SameFlags(m, n), n.on = m.on,
         n.rx = m.rx, n.state = m.state, n.buf = m.buf, n.outAck => m.outAck,
         n.tx # "none", m.tx # "none", m.awake,
         Stage(n, q), Program(n, q), IdleOff(n, q)
  PROVE  IInv(n, q)
<1>1. Answers(n) /\ Radio(n) /\ Asleep(n, q) /\ n.ok
  BY DEF IInv, Base, Rest, Answers, Radio, Asleep, Fix, SameFifo, SameFlags
<1>2. BusyOn(n) /\ EnabledOn(n) /\ Receive(n) /\ Fifop(n) /\ ~n.inIsr /\ ~n.reset
  BY DEF IInv, BusyOn, EnabledOn, RxPhysical, Receive, Fifop, Fix, SameFifo,
     SameFlags
<1> QED
  BY <1>1, <1>2 DEF IInv, Base, Rest

LEMMA StartStep ==
  ASSUME IInv(mac, pc), StartFrame
  PROVE  IInv(mac, pc)' /\ prompt' = prompt
<1>0. pc = "start" /\ prompt' = prompt
  BY DEF StartFrame, At
<1>1. /\ mac \in Mac /\ mac.tx = "initialize" /\ AtRest(mac) /\ Loaded(mac)
      /\ mac.awake
  BY <1>0 DEF IInv, Base, Rest, Stage, Program, Running, Asleep
<1>2. ASSUME NEW v \in {"go", "queued"}, NEW n, n = [mac EXCEPT !.tx = v],
             v = "queued" => mac.rx # "none" \/ mac.outAck
      PROVE  IInv(n, IF v = "go" THEN "cancel" ELSE "idle")
  <2>1. v \in TxStates
    BY DEF TxStates
  <2>2. /\ n \in Mac /\ Fix(mac, n) /\ SameCsp(mac, n) /\ SameRx(mac, n)
        /\ SameFifo(mac, n) /\ SameFlags(mac, n) /\ n.on = mac.on /\ n.tx = v
        /\ n.confirm = mac.confirm
    BY <1>1, <1>2, <2>1, TxUpdate, Zenon
  <2>3. ASSUME NEW q, q = IF v = "go" THEN "cancel" ELSE "idle"
        PROVE  IInv(n, q)
    <3>1. Stage(n, q) /\ IdleOff(n, q)
      <4>1. v = "queued" => RxPhysical(n)
        BY <1>1, <1>2, <2>2 DEF IInv, Receive, RxPhysical, SameRx, Mac
      <4> QED
        BY <2>2, <2>3, <4>1 DEF Stage, IdleOff
    <3>2. Program(n, q)
      BY <1>1, <2>2, <2>3 DEF Program, Running, AtRest, Loaded, SameCsp
    <3> QED
      BY <1>1, <2>2, <3>1, <3>2, LoopCarries DEF SameRx
  <2> QED
    BY <2>3
<1>3. \/ mac' = [mac EXCEPT !.tx = "go"] /\ pc' = "cancel"
      \/ /\ mac' = [mac EXCEPT !.tx = "queued"] /\ pc' = "idle"
         /\ mac.rx # "none" \/ mac.outAck
  BY DEF StartFrame, At
<1>4. /\ \A n : n = [mac EXCEPT !.tx = "go"] => IInv(n, "cancel")
      /\ \A n : n = [mac EXCEPT !.tx = "queued"] /\ (mac.rx # "none" \/ mac.outAck)
                => IInv(n, "idle")
  BY <1>2
<1> QED
  BY <1>0, <1>3, <1>4

(* txGo, in three steps, with the receive interrupt in between.            *)
LEMMA GoFacts ==
  ASSUME NEW m, NEW p \in {"cancel", "clear", "csma"}, IInv(m, p)
  PROVE  m \in Mac /\ m.tx = "go" /\ AtRest(m) /\ Loaded(m) /\ m.awake /\ Radio(m)
BY DEF IInv, Base, Rest, Stage, Program, Running, Asleep

LEMMA GoStep ==
  ASSUME IInv(mac, pc), GoCancel \/ GoClear
  PROVE  IInv(mac, pc)' /\ prompt' = prompt
<1>0. prompt' = prompt
  BY DEF GoCancel, GoClear, At
<1>1. ASSUME NEW n, n = [mac EXCEPT !.ackIM = FALSE], pc = "cancel"
      PROVE  IInv(n, "clear")
  <2>1. /\ mac \in Mac /\ mac.tx = "go" /\ AtRest(mac) /\ Loaded(mac)
        /\ mac.awake
    BY <1>1, GoFacts
  <2>2. /\ n \in Mac /\ Fix(mac, n) /\ SameTx(mac, n) /\ SameCsp(mac, n)
        /\ SameRx(mac, n) /\ SameFifo(mac, n) /\ SameFlags(mac, n)
        /\ n.on = mac.on
    BY <1>1, <2>1, AckIMUpdate, Zenon
  <2>3. Stage(n, "clear") /\ Program(n, "clear") /\ IdleOff(n, "clear")
    BY <2>1, <2>2 DEF Stage, Program, Running, AtRest, Loaded, IdleOff, SameTx,
       SameCsp
  <2> QED
    BY <2>1, <2>2, <2>3, LoopCarries DEF SameTx, SameRx
<1>2. ASSUME NEW n, n = [mac EXCEPT !.outAck = FALSE], pc = "clear"
      PROVE  IInv(n, "csma")
  <2>1. /\ mac \in Mac /\ mac.tx = "go" /\ AtRest(mac) /\ Loaded(mac)
        /\ mac.awake
    BY <1>2, GoFacts
  <2>2. /\ n \in Mac /\ Fix(mac, n) /\ SameTx(mac, n) /\ SameCsp(mac, n)
        /\ SameFifo(mac, n) /\ SameFlags(mac, n) /\ n.on = mac.on
        /\ n.rx = mac.rx /\ ~n.outAck /\ n.state = mac.state /\ n.buf = mac.buf
    BY <1>2, <2>1, OutAckUpdate, Zenon
  <2>3. Stage(n, "csma") /\ Program(n, "csma") /\ IdleOff(n, "csma")
    BY <2>1, <2>2 DEF Stage, Program, Running, AtRest, Loaded, IdleOff, SameTx,
       SameCsp
  <2> QED
    BY <2>1, <2>2, <2>3, LoopCarries DEF SameTx
<1>3. \/ pc = "cancel" /\ mac' = [mac EXCEPT !.ackIM = FALSE] /\ pc' = "clear"
      \/ pc = "clear" /\ mac' = [mac EXCEPT !.outAck = FALSE] /\ pc' = "csma"
  BY DEF GoCancel, GoClear, At
<1> QED
  BY <1>0, <1>1, <1>2, <1>3

LEMMA CsmaStep ==
  ASSUME IInv(mac, pc), GoStart
  PROVE  IInv(mac, pc)' /\ prompt' = prompt
<1>0. pc = "csma" /\ mac' = GoCsma(mac) /\ pc' = "idle" /\ prompt' = prompt
  BY DEF GoStart, At
<1>1. ASSUME NEW n, n = GoCsma(mac) PROVE IInv(n, "idle")
  <2>1. /\ mac \in Mac /\ mac.tx = "go" /\ AtRest(mac) /\ Loaded(mac)
        /\ mac.awake /\ Radio(mac)
    BY <1>0, GoFacts
  <2>2. /\ n \in Mac /\ Fix(mac, n) /\ SameTx(mac, n) /\ SameRx(mac, n)
        /\ SameFifo(mac, n) /\ SameFlags(mac, n) /\ n.on /\ Radio(n)
        /\ n.csp = "backoff" /\ n.stopIM /\ n.cspz = mac.cspz
        /\ n.stopIF = mac.stopIF /\ n.nb = mac.nb
    BY <1>1, <2>1, CsmaFacts, Zenon
  <2>3. Stage(n, "idle") /\ Program(n, "idle") /\ Asleep(n, "idle")
    BY <2>1, <2>2
       DEF Stage, Program, Running, Loaded, Sending, Asleep, Fix, SameTx
  <2>4. Answers(n) /\ n.ok /\ IdleOff(n, "idle")
    BY <2>1, <2>2 DEF IInv, Base, Rest, Answers, IdleOff, Fix, SameTx, SameFlags
  <2>5. /\ BusyOn(n) /\ EnabledOn(n) /\ Receive(n) /\ Fifop(n)
        /\ ~n.inIsr /\ ~n.reset
    BY <2>2 DEF IInv, BusyOn, EnabledOn, Receive, Fifop, SameRx, SameFifo,
       SameFlags
  <2> QED
    BY <2>2, <2>3, <2>4, <2>5 DEF IInv, Base, Rest
<1> QED
  BY <1>0, <1>1

(* Between the calls, a change of the receiver alone.                      *)
LEMMA ReceiverCarries ==
  ASSUME NEW m, NEW p \in {"idle", "off"}, IInv(m, p), NEW n \in Mac,
         NEW q \in {"idle", "off"},
         n.ackReq = m.ackReq, n.sent = m.sent, n.heard = m.heard,
         SameTx(m, n), SameCsp(m, n), SameRx(m, n), SameFlags(m, n),
         n.on = m.on \/ m.tx = "none", Radio(n), Asleep(n, q),
         IdleOff(n, q), BusyOn(n), EnabledOn(n), Fifop(n)
  PROVE  IInv(n, q)
<1>1. Answers(n) /\ n.ok /\ Stage(n, q)
  BY DEF IInv, Base, Rest, Answers, Stage, SameTx, SameFlags
<1>2. Program(n, q)
  BY DEF IInv, Base, Rest, Program, Running, AtRest, Loaded, Sending,
     Listening, SameTx, SameCsp
<1>3. Receive(n) /\ ~n.inIsr /\ ~n.reset
  BY DEF IInv, Receive, SameRx, SameFlags
<1> QED
  BY <1>1, <1>2, <1>3 DEF IInv, Base, Rest

LEMMA RequestOffStep ==
  ASSUME IInv(mac, pc), RequestOff
  PROVE  IInv(mac, pc)' /\ prompt' = prompt
<1>0. /\ pc = "off" /\ mac' = macRxOffRequest(mac) /\ pc' = "idle"
      /\ prompt' = prompt
  BY DEF RequestOff, At
<1>1. ASSUME NEW n, n = macRxOffRequest(mac) PROVE IInv(n, "idle")
  <2>1. /\ mac \in Mac /\ Radio(mac) /\ BusyOn(mac) /\ EnabledOn(mac)
        /\ Fifop(mac) /\ mac.awake
    BY <1>0 DEF IInv, Base, Rest, Asleep
  <2>2. /\ n \in Mac /\ Fix(mac, n) /\ SameTx(mac, n) /\ SameCsp(mac, n)
        /\ SameRx(mac, n) /\ SameFlags(mac, n) /\ Radio(n)
        /\ \/ n = mac
           \/ Emptied(n) /\ ~n.on /\ ~RxPhysical(mac) /\ ~TxPhysical(mac)
        /\ EnabledOn(mac) => EnabledOn(n)
        /\ n.on => n.enable # "off" \/ RxPhysical(n) \/ TxPhysical(n)
    BY <1>1, <2>1, OffRequestFacts, Zenon
  <2>3. IdleOff(n, "idle") /\ Asleep(n, "idle")
    <3>1. mac.tx = "queued" => RxPhysical(mac)
      BY DEF IInv, IdleOff
    <3> QED
      BY <2>1, <2>2, <3>1 DEF IdleOff, TxPhysical, RxPhysical, Asleep, Fix, SameTx, SameRx
  <2>4. BusyOn(n) /\ Fifop(n)
    BY <2>1, <2>2 DEF BusyOn, RxPhysical, Fifop, Emptied, SameRx
  <2>6. CASE n = mac \/ mac.tx = "none"
    BY <1>0, <2>1, <2>2, <2>3, <2>4, <2>6, ReceiverCarries DEF Fix
  <2>7. CASE mac.tx = "queued" /\ ~n.on
    <3>1. Answers(n) /\ n.ok /\ Stage(n, "idle")
      BY <1>0, <2>2 DEF IInv, Base, Rest, Answers, Stage, Fix, SameTx, SameFlags
    <3>2. Program(n, "idle")
      BY <1>0, <2>2, <2>7 DEF IInv, Base, Rest, Program, Running, AtRest,
         Loaded, SameTx, SameCsp
    <3>3. Receive(n) /\ ~n.inIsr /\ ~n.reset
      BY <2>2 DEF IInv, Receive, SameRx, SameFlags
    <3> QED
      BY <2>1, <2>2, <2>3, <2>4, <3>1, <3>2, <3>3 DEF IInv, Base, Rest
  <2>8. mac.tx \in {"none", "queued", "go", "listen"}
    BY <1>0 DEF IInv, Base, Rest, Stage
  <2> QED
    BY <2>2, <2>6, <2>7, <2>8 DEF TxPhysical
<1> QED
  BY <1>0, <1>1

LEMMA EnableKeeps ==
  ASSUME NEW m, IInv(m, "idle"), NEW n \in Mac,
         n.ackReq = m.ackReq, n.sent = m.sent, n.heard = m.heard,
         n.awake, n.enable \in {"on", "soft"}, n.enable = "on" => n.on,
         m.on => n.on,
         SameTx(m, n), SameCsp(m, n), SameRx(m, n), SameFlags(m, n),
         SameFifo(m, n)
  PROVE  IInv(n, "idle")
<1>1. Radio(n) /\ Asleep(n, "idle")
  BY DEF IInv, Base, Rest, Radio, Asleep, SameFifo
<1>2. IdleOff(n, "idle") /\ BusyOn(n) /\ EnabledOn(n) /\ Fifop(n)
  BY DEF IInv, IdleOff, BusyOn, EnabledOn, Fifop, RxPhysical, SameTx, SameRx, SameFifo
<1>3. Answers(n) /\ n.ok /\ Stage(n, "idle")
  BY DEF IInv, Base, Rest, Answers, Stage, SameTx, SameFlags
<1>4. Program(n, "idle")
  BY DEF IInv, Base, Rest, Program, Running, AtRest, Loaded, Sending,
     Listening, SameTx, SameCsp
<1>5. Receive(n) /\ ~n.inIsr /\ ~n.reset
  BY DEF IInv, Receive, SameRx, SameFlags
<1> QED
  BY <1>1, <1>2, <1>3, <1>4, <1>5 DEF IInv, Base, Rest

LEMMA EnableStep ==
  ASSUME IInv(mac, pc), macRxEnable \/ macRxSoftEnable
  PROVE  IInv(mac, pc)' /\ prompt' = prompt
<1>0. pc = "idle" /\ pc' = "idle" /\ prompt' = prompt /\ mac.awake
  BY DEF macRxEnable, macRxSoftEnable, At
<1>1. mac \in Mac /\ IInv(mac, "idle")
  BY <1>0 DEF IInv
<1>2. ASSUME NEW n, n = [mac EXCEPT !.enable = "on", !.on = TRUE]
      PROVE  IInv(n, "idle")
  <2>1. [mac EXCEPT !.enable = "on", !.on = TRUE] \in Mac
    BY <1>1, ZenonT(60) DEF Mac
  <2>2. n \in Mac
    BY <1>2, <2>1
  <2>3. /\ n.ackReq = mac.ackReq /\ n.sent = mac.sent /\ n.heard = mac.heard
        /\ n.awake = mac.awake /\ n.enable = "on" /\ n.on
        /\ SameTx(mac, n) /\ SameCsp(mac, n) /\ SameRx(mac, n)
        /\ SameFlags(mac, n) /\ SameFifo(mac, n)
    BY <1>1, <1>2 DEF Mac, SameTx, SameCsp, SameRx, SameFlags, SameFifo
  <2> QED
    BY <1>0, <1>1, <2>2, <2>3, EnableKeeps
<1>3. ASSUME NEW n, n = [mac EXCEPT !.enable = "soft"]
      PROVE  IInv(n, "idle")
  <2>1. [mac EXCEPT !.enable = "soft"] \in Mac
    BY <1>1, ZenonT(60) DEF Mac
  <2>2. n \in Mac
    BY <1>3, <2>1
  <2>3. /\ n.ackReq = mac.ackReq /\ n.sent = mac.sent /\ n.heard = mac.heard
        /\ n.awake = mac.awake /\ n.enable = "soft" /\ n.on = mac.on
        /\ SameTx(mac, n) /\ SameCsp(mac, n) /\ SameRx(mac, n)
        /\ SameFlags(mac, n) /\ SameFifo(mac, n)
    BY <1>1, <1>3 DEF Mac, SameTx, SameCsp, SameRx, SameFlags, SameFifo
  <2> QED
    BY <1>0, <1>1, <2>2, <2>3, EnableKeeps
<1>4. \/ mac' = [mac EXCEPT !.enable = "on", !.on = TRUE]
      \/ mac' = [mac EXCEPT !.enable = "soft"]
  <2>1. [[mac EXCEPT !.enable = "on"] EXCEPT !.on = TRUE]
        = [mac EXCEPT !.enable = "on", !.on = TRUE]
    OBVIOUS
  <2> QED
    BY <2>1 DEF macRxEnable, macRxSoftEnable, At, macRxOn
<1> QED
  BY <1>0, <1>2, <1>3, <1>4

(* Disabled, but the receiver stays on for now.                            *)
LEMMA DisableStep ==
  ASSUME IInv(mac, pc), macRxDisable
  PROVE  IInv(mac, pc)' /\ prompt' = prompt
<1>0. /\ pc = "idle" /\ mac' = [mac EXCEPT !.enable = "off"] /\ pc' = "off"
      /\ prompt' = prompt /\ mac.enable # "off"
  BY DEF macRxDisable, At
<1>1. ASSUME NEW n, n = [mac EXCEPT !.enable = "off"] PROVE IInv(n, "off")
  <2>1. mac \in Mac /\ IInv(mac, "idle") /\ mac.awake
    BY <1>0 DEF IInv, Base, Rest, Radio
  <2>2. [mac EXCEPT !.enable = "off"] \in Mac
    BY <2>1, ZenonT(60) DEF Mac
  <2>3. n \in Mac
    BY <1>1, <2>2
  <2>4. /\ n.ackReq = mac.ackReq /\ n.sent = mac.sent /\ n.heard = mac.heard
        /\ n.awake /\ n.enable = "off" /\ n.on = mac.on
        /\ SameTx(mac, n) /\ SameCsp(mac, n) /\ SameRx(mac, n)
        /\ SameFlags(mac, n) /\ SameFifo(mac, n)
    BY <1>1, <2>1 DEF Mac, SameTx, SameCsp, SameRx, SameFlags, SameFifo
  <2>5. Radio(n) /\ Asleep(n, "off")
    BY <2>1, <2>4 DEF IInv, Base, Rest, Radio, Asleep, SameFifo
  <2>6. IdleOff(n, "off") /\ BusyOn(n) /\ EnabledOn(n) /\ Fifop(n)
    BY <2>1, <2>4 DEF IInv, IdleOff, BusyOn, EnabledOn, Fifop, RxPhysical,
       SameTx, SameRx, SameFifo
  <2> QED
    BY <2>1, <2>3, <2>4, <2>5, <2>6, ReceiverCarries
<1> QED
  BY <1>0, <1>1

LEMMA SetChannelStep ==
  ASSUME IInv(mac, pc), macRadioSetChannel
  PROVE  IInv(mac, pc)' /\ prompt' = prompt
<1> DEFINE a == [mac EXCEPT !.tune = TRUE]
<1>0. /\ pc = "idle" /\ pc' = "idle" /\ prompt' = prompt
      /\ mac' = IF mac.tx = "none" THEN macRadioUpdateChannel(a) ELSE a
  BY DEF macRadioSetChannel, At
<1>1. mac \in Mac /\ IInv(mac, "idle")
  BY <1>0 DEF IInv
<1>2. /\ a \in Mac /\ Fix(mac, a) /\ SameTx(mac, a) /\ SameCsp(mac, a)
      /\ SameRx(mac, a) /\ SameFifo(mac, a) /\ SameFlags(mac, a)
      /\ a.on = mac.on
  <2>1. a = [mac EXCEPT !.tune = TRUE] /\ TRUE \in BOOLEAN
    OBVIOUS
  <2> HIDE DEF a
  <2> QED
    BY <1>1, <2>1, TuneUpdate, Zenon
<1> HIDE DEF a
<1>3. IInv(a, "idle")
  <2>1. Program(a, "idle")
    BY <1>1, <1>2, ProgramCarries DEF IInv, Base, Rest, Fix, SameTx
  <2>2. Radio(a) /\ Answers(a) /\ Fifop(a)
    BY <1>1, <1>2 DEF IInv, Base, Rest, Radio, Answers, Fifop, Fix, SameTx, SameFifo
  <2> QED
    BY <1>1, <1>2, <2>1, <2>2, BesideCarries DEF Fix
<1>4. CASE mac.tx # "none"
  BY <1>0, <1>3, <1>4
<1>5. CASE mac.tx = "none"
  <2>1. ASSUME NEW n, n = macRadioUpdateChannel(a) PROVE IInv(n, "idle")
    <3>1. /\ a.tx = "none" /\ Rest(a, "idle") /\ IdleOff(a, "idle")
          /\ Answers(a) /\ Outside(a)
      BY <1>2, <1>3, <1>5 DEF IInv, Base, Outside, SameTx
    <3>2. /\ n \in Mac /\ Fix(a, n) /\ SameTx(a, n) /\ Rest(n, "idle")
          /\ IdleOff(n, "idle") /\ RxStep(a, n)
          /\ EnabledOn(a) => EnabledOn(n)
      BY <1>2, <2>1, <3>1, ChannelUpdates, Zenon
    <3>3. Answers(n)
      BY <3>1, <3>2 DEF Answers, Fix, SameTx
    <3>4. Ends(a, n, "idle")
      BY <3>2, <3>3 DEF Ends, Base
    <3> QED
      BY <3>1, <3>4, EndsOutside
  <2>2. mac' = macRadioUpdateChannel(a)
    BY <1>0, <1>5
  <2> QED
    BY <1>0, <2>1, <2>2
<1> QED
  BY <1>4, <1>5

(* Everything off, and what was being received is dropped.                 *)
LEMMA HardDisableStep ==
  ASSUME IInv(mac, pc), macRxHardDisable
  PROVE  IInv(mac, pc)' /\ prompt' = prompt
<1> DEFINE f == Flush(mac)
           a == [f EXCEPT !.enable = "off", !.on = FALSE, !.acking = FALSE]
<1>0. /\ pc = "idle" /\ pc' = "idle" /\ prompt' = prompt
      /\ mac.tx = "none" /\ mac.awake /\ mac' = macRxHaltCleanup(a)
  BY DEF macRxHardDisable, At
<1>1. /\ mac \in Mac /\ Rest(mac, "idle") /\ Answers(mac) /\ ~mac.inIsr
  BY <1>0 DEF IInv, Base
<1>2. /\ f \in Mac /\ Fix(mac, f) /\ SameTx(mac, f) /\ SameCsp(mac, f)
      /\ SameRx(mac, f) /\ SameFlags(mac, f) /\ f.on = mac.on /\ Emptied(f)
  BY <1>1, FlushFacts
<1> HIDE DEF f
<1>3. a \in Mac
  BY <1>2, ZenonT(60) DEF Mac
<1>4. /\ a.ackReq = f.ackReq /\ a.sent = f.sent /\ a.heard = f.heard
      /\ a.awake = f.awake /\ a.enable = "off" /\ ~a.on
      /\ SameTx(f, a) /\ SameCsp(f, a) /\ SameFifo(f, a) /\ SameFlags(f, a)
  BY <1>2 DEF Mac, SameTx, SameCsp, SameFifo, SameFlags
<1> HIDE DEF a
<1>5. /\ a.ackReq = mac.ackReq /\ a.sent = mac.sent /\ a.heard = mac.heard
      /\ a.awake /\ SameTx(mac, a) /\ SameCsp(mac, a) /\ SameFlags(mac, a)
      /\ Emptied(a)
  BY <1>0, <1>2, <1>4
     DEF Fix, SameTx, SameCsp, SameFifo, SameFlags, Emptied
<1>6. Radio(a) /\ Asleep(a, "idle") /\ IdleOff(a, "idle") /\ EnabledOn(a)
  BY <1>0, <1>4, <1>5 DEF Radio, Asleep, IdleOff, EnabledOn, Emptied, SameTx
<1>7. Stage(a, "idle") /\ Program(a, "idle") /\ a.ok
  BY <1>0, <1>1, <1>5 DEF Rest, Stage, Program, Running, AtRest, SameTx,
     SameCsp, SameFlags
<1>8. ~a.inIsr /\ Answers(a)
  BY <1>1, <1>5 DEF SameFlags, SameTx, Answers
<1>9. ASSUME NEW n, n = macRxHaltCleanup(a) PROVE IInv(n, "idle")
  <2>1. n = rxHaltCleanupFinalStep(a) /\ Rest(a, "idle")
    BY <1>6, <1>7, <1>8, <1>9 DEF Rest, macRxHaltCleanup
  <2>2. /\ n \in Mac /\ Fix(a, n) /\ Moves(a, n) /\ Rest(n, "idle")
        /\ IdleOff(n, "idle") /\ Cleared(n) /\ n.inIsr = a.inIsr
        /\ EnabledOn(a) => EnabledOn(n)
    BY <1>3, <1>6, <2>1, FinalStep
  <2>3. Answers(n)
    BY <1>8, <2>2 DEF Answers, Fix, Moves
  <2>4. BusyOn(n) /\ Receive(n) /\ Fifop(n) /\ ~n.inIsr /\ ~n.reset
    BY <1>8, <2>2 DEF Cleared, Emptied, BusyOn, RxPhysical, Receive, Fifop
  <2> QED
    BY <1>6, <2>2, <2>3, <2>4 DEF IInv, Base
<1> QED
  BY <1>0, <1>9

LEMMA SleepStep ==
  ASSUME IInv(mac, pc), macSleep
  PROVE  IInv(mac, pc)' /\ prompt' = prompt
<1> DEFINE a == macRxOff(mac)
           n == [a EXCEPT !.awake = FALSE]
<1>0. /\ pc = "idle" /\ pc' = "idle" /\ prompt' = prompt /\ mac' = n
      /\ mac.tx = "none" /\ mac.rx = "none" /\ ~mac.outAck /\ mac.enable = "off"
  BY DEF macSleep, At, SleepAllowed
<1>1. mac \in Mac /\ IInv(mac, "idle") /\ Radio(mac) /\ Fifop(mac)
  BY <1>0 DEF IInv, Base, Rest
<1>2. /\ a \in Mac /\ Fix(mac, a) /\ SameTx(mac, a) /\ SameCsp(mac, a)
      /\ SameRx(mac, a) /\ SameFlags(mac, a) /\ ~a.on
      /\ a = mac \/ Emptied(a)
  BY <1>1, OffFacts
<1> HIDE DEF a
<1>3. n \in Mac
  BY <1>2, ZenonT(60) DEF Mac
<1>4. /\ n.ackReq = a.ackReq /\ n.sent = a.sent /\ n.heard = a.heard
      /\ n.enable = a.enable /\ ~n.awake /\ n.on = a.on
      /\ SameTx(a, n) /\ SameCsp(a, n) /\ SameRx(a, n) /\ SameFifo(a, n)
      /\ SameFlags(a, n)
  BY <1>2 DEF Mac, SameTx, SameCsp, SameRx, SameFifo, SameFlags
<1> HIDE DEF n
<1>5. /\ n.ackReq = mac.ackReq /\ n.sent = mac.sent /\ n.heard = mac.heard
      /\ n.enable = "off" /\ ~n.on /\ SameTx(mac, n) /\ SameCsp(mac, n)
      /\ SameRx(mac, n) /\ SameFlags(mac, n)
  BY <1>0, <1>2, <1>4 DEF Fix, SameTx, SameCsp, SameRx, SameFlags
<1>6. n.fifo = <<>> /\ n.coming = "none" /\ ~n.fifop
  BY <1>1, <1>2, <1>4 DEF Radio, Fifop, Emptied, SameFifo
<1>7. /\ Radio(n) /\ Asleep(n, "idle") /\ IdleOff(n, "idle") /\ BusyOn(n)
      /\ EnabledOn(n) /\ Fifop(n)
  BY <1>0, <1>4, <1>5, <1>6 DEF Radio, Asleep, IdleOff, BusyOn, EnabledOn, Fifop,
     RxPhysical, SameTx, SameRx
<1>8. IInv(n, "idle")
  BY <1>0, <1>1, <1>3, <1>5, <1>7, ReceiverCarries
<1> QED
  BY <1>0, <1>8

LEMMA WakeUpStep ==
  ASSUME IInv(mac, pc), macSleepWakeUp
  PROVE  IInv(mac, pc)' /\ prompt' = prompt
<1> DEFINE n == [mac EXCEPT !.awake = TRUE, !.fifop = FALSE]
<1>0. /\ pc = "idle" /\ pc' = "idle" /\ prompt' = prompt /\ ~mac.awake
      /\ mac' = macRxOnRequest(n)
  BY DEF macSleepWakeUp, At
<1>1. /\ mac \in Mac /\ IInv(mac, "idle") /\ Radio(mac) /\ mac.enable = "off"
      /\ mac.tx = "none" /\ ~mac.on
  BY <1>0 DEF IInv, Base, Rest, Radio, Asleep
<1>2. n \in Mac
  BY <1>1, ZenonT(60) DEF Mac
<1>3. /\ n.ackReq = mac.ackReq /\ n.sent = mac.sent /\ n.heard = mac.heard
      /\ n.enable = mac.enable /\ n.awake /\ n.on = mac.on
      /\ n.fifo = mac.fifo /\ ~n.fifop /\ n.coming = mac.coming
      /\ SameTx(mac, n) /\ SameCsp(mac, n) /\ SameRx(mac, n)
      /\ SameFlags(mac, n)
  BY <1>1 DEF Mac, SameTx, SameCsp, SameRx, SameFlags
<1> HIDE DEF n
<1>4. mac' = n
  BY <1>0, <1>1, <1>3 DEF macRxOnRequest
<1>5. /\ Radio(n) /\ Asleep(n, "idle") /\ IdleOff(n, "idle") /\ BusyOn(n)
      /\ EnabledOn(n) /\ Fifop(n)
  BY <1>1, <1>3 DEF IInv, Radio, Asleep, IdleOff, BusyOn, EnabledOn, Fifop,
     RxPhysical, SameTx, SameRx
<1>6. IInv(n, "idle")
  BY <1>1, <1>2, <1>3, <1>5, ReceiverCarries
<1> QED
  BY <1>0, <1>4, <1>6

-----------------------------------------------------------------------------
(* The invariant, and what follows from it.                                *)

LEMMA Initially == ASSUME Init PROVE IInv(mac, pc) /\ prompt \in BOOLEAN
<1>1. mac \in Mac
  <2>1. /\ "none" \in TxStates /\ "idle" \in Confirms
        /\ 0 \in 0 .. MaxCsmaBackoffs + 1
    BY MacAssumption DEF TxStates, Confirms
  <2> QED
    BY <2>1, EmptyFifo, Zenon DEF Init, Mac
<1>2. Base(mac, pc)
  BY DEF Init, Base, Answers, Rest, Stage, Program, Running, AtRest, Radio,
     Asleep
<1>3. /\ IdleOff(mac, pc) /\ BusyOn(mac) /\ EnabledOn(mac) /\ Receive(mac)
      /\ Fifop(mac) /\ ~mac.inIsr /\ ~mac.reset
  BY DEF Init, IdleOff, BusyOn, EnabledOn, Receive, Fifop, RxPhysical
<1>4. prompt \in BOOLEAN
  BY MacAssumption DEF Init
<1> QED
  BY <1>1, <1>2, <1>3, <1>4 DEF IInv

LEMMA Inductive ==
  ASSUME IInv(mac, pc), [Next]_vars
  PROVE  IInv(mac, pc)' /\ prompt' = prompt
<1>1. CASE UNCHANGED vars
  BY <1>1 DEF vars
<1>2. CASE macMcuRfIsr
  BY <1>2, RfIsrStep
<1>3. CASE macMcuRfErrIsr
  BY <1>3, ErrIsrStep
<1>4. CASE Csp \/ Air
  BY <1>4, HardwareStep
<1>5. CASE Continues
  BY <1>5, PrepareStep, StartStep, GoStep, CsmaStep, RequestOffStep DEF Continues
<1>6. CASE Call
  BY <1>6, TxFrameStep, RetransmitStep, EnableStep, DisableStep, SetChannelStep,
     HardDisableStep, SleepStep, WakeUpStep DEF Call
<1> QED
  BY <1>1, <1>2, <1>3, <1>4, <1>5, <1>6 DEF Next

LEMMA Always == Spec => [](IInv(mac, pc) /\ prompt \in BOOLEAN)
<1>1. IInv(mac, pc) /\ prompt \in BOOLEAN /\ [Next]_vars
      => (IInv(mac, pc) /\ prompt \in BOOLEAN)'
  BY Inductive
<1> QED
  BY Initially, <1>1, PTL DEF Spec

(* Every transmission is in somebody's hands until it is confirmed: none   *)
(* is lost between the main loop, the strobe processor, its interrupts and *)
(* the receive it waits for.                                               *)
THEOREM MacInHand == Spec => []InHand
<1>1. IInv(mac, pc) => InHand
  <2> SUFFICES ASSUME IInv(mac, pc), mac.confirm = "owed",
                      pc \notin {"prepare", "start", "cancel", "clear", "csma"}
               PROVE  \/ mac.csp # "off"
                      \/ mac.stopIM /\ mac.stopIF
                      \/ mac.tx = "queued" /\ RxPhysical(mac)
    BY DEF InHand
  <2>1. mac.tx \in {"queued", "go", "listen"}
    BY DEF IInv, Base, Answers, Rest, Stage
  <2>2. mac.tx = "queued" => RxPhysical(mac)
    BY DEF IInv, IdleOff
  <2>3. mac.tx = "go" => mac.csp # "off" \/ (mac.stopIM /\ mac.stopIF)
    BY DEF IInv, Base, Rest, Program, Running, Sending
  <2>4. mac.tx = "listen" => mac.csp # "off" \/ (mac.stopIM /\ mac.stopIF)
    BY DEF IInv, Base, Rest, Program, Listening
  <2> QED
    BY <2>1, <2>2, <2>3, <2>4
<1> QED
  BY <1>1, Always, PTL

(* The fields and the stages keep their types, and between two interrupts  *)
(* neither flag of the receive interrupt is left standing.                 *)
THEOREM MacTypes == Spec => []TypeOK
<1>1. IInv(mac, pc) /\ prompt \in BOOLEAN => TypeOK
  BY DEF IInv, Base, Rest, Stage, TypeOK
<1> QED
  BY <1>1, Always, PTL

(* Every transmission asked for is confirmed exactly once, although its    *)
(* end may be noticed by the interrupt of the CSP, by that of the receiver *)
(* that forces it, and by the acknowledgement.                             *)
THEOREM MacConfirmsOnce == Spec => []ConfirmedOnce
<1>1. IInv(mac, pc) => ConfirmedOnce
  BY DEF IInv, Base, Answers, ConfirmedOnce
<1> QED
  BY <1>1, Always, PTL

(* Success is only told of a frame that was on the air and, if it asked    *)
(* for one, whose own acknowledgement was heard.                           *)
THEOREM MacSuccessIsTrue == Spec => []SuccessIsTrue
<1>1. IInv(mac, pc) => SuccessIsTrue
  BY DEF IInv, Base, Answers, SuccessIsTrue
<1> QED
  BY <1>1, Always, PTL

(* The receiver is on while it is needed, and off when nothing needs it,   *)
(* whichever of the calls and interrupts decides it last.                  *)
THEOREM MacReceiverFollows == Spec => []ReceiverFollows
<1>1. IInv(mac, pc) => ReceiverFollows
  <2> SUFFICES ASSUME IInv(mac, pc) PROVE ReceiverFollows
    OBVIOUS
  <2>1. Program(mac, pc) /\ Radio(mac) /\ IdleOff(mac, pc) /\ BusyOn(mac) /\ EnabledOn(mac)
    BY DEF IInv, Base, Rest
  <2>2. mac.csp # "off" \/ mac.tx = "listen" => mac.on
    BY <2>1 DEF Program, AtRest
  <2>3. Needed => mac.on
    BY <2>1, <2>2 DEF Needed, EnabledOn, BusyOn
  <2>4. Unneeded => ~mac.on
    <3>1. Unneeded => ~RxPhysical(mac)
      BY DEF Unneeded, RxPhysical
    <3> QED
      BY <2>1, <3>1 DEF Unneeded, IdleOff
  <2>5. ~mac.awake => ~mac.on
    BY <2>1 DEF Radio
  <2> QED
    BY <2>3, <2>4, <2>5 DEF ReceiverFollows
<1> QED
  BY <1>1, Always, PTL

(* No assertion of the code fails, and the receive buffer is there exactly *)
(* while a frame is read into it.                                          *)
THEOREM MacAssertsHold == Spec => []AssertsHold
<1>1. IInv(mac, pc) => AssertsHold
  BY DEF IInv, Base, Rest, Receive, AssertsHold
<1> QED
  BY <1>1, Always, PTL
=============================================================================
