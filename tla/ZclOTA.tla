------------------------------- MODULE ZclOTA -------------------------------
(***************************************************************************)
(* A new program over the air (src/Components/stack/zcl/zcl_ota.c).  The   *)
(* client asks the server for an image, then for its blocks one after the  *)
(* other, each until it is answered or asked for too often, and at last    *)
(* for the time at which the image may be started.  Requests and answers   *)
(* may be lost or overtaken; a timer may expire while its answer is        *)
(* already on the way; an event that a timer has set is handled even when  *)
(* the timer is stopped afterwards.                                        *)
(*                                                                         *)
(* Offsets count blocks, time is not measured: a running timer may expire  *)
(* at any moment.                                                          *)
(***************************************************************************)
EXTENDS Naturals, FiniteSets

CONSTANTS Versions,       \* the images that the server may offer
          Size,           \* of each of them, in blocks
          FlashSize,      \* room for an image
          MAX_BLOCK_RETRIES, MAX_END_REQ_RETRIES,   \* 10 and 2
          HourMins,       \* minutes of the wait for the server: 60
          DelayMins,      \* OTA_UPGRADE_DELAY: one minute
          EndAnswers,     \* what the server may answer at the end of each
          MaxAnswers      \* answers under way

Wait == "wait"            \* OTA_UPGRADE_TIME_WAIT: another answer will follow
Later == "later"          \* a time, DelayMins from now
NoImage == 0

ASSUME OtaAssumption ==
  /\ Versions \subseteq Nat \ {NoImage}
  /\ FlashSize \in Nat
  /\ Size \in [Versions -> 1 .. FlashSize]
  /\ MAX_BLOCK_RETRIES \in Nat /\ MAX_END_REQ_RETRIES \in Nat
  /\ HourMins \in Nat /\ DelayMins \in Nat /\ MaxAnswers \in Nat
  /\ EndAnswers \in [Versions -> SUBSET {Later, Wait}]

VARIABLES upgradeStatus,  \* zclOTA_ImageUpgradeStatus
          dlVersion,      \* zclOTA_DownloadedFileVersion
          fileOffset,     \* zclOTA_FileOffset
          flash,          \* the version each stored block is of
          updateDelay,    \* zclOTA_UpdateDelay, of both waits
          blockRetry, endRetry,
          running,        \* the timers that run
          pending,        \* the events that timers have set
          answers,        \* of the server, under way
          survived        \* history: a timer of the download outlived its end

imageVars == <<dlVersion, fileOffset, flash>>
timerVars == <<updateDelay, running, pending>>
otaVars == <<upgradeStatus, imageVars, timerVars, blockRetry, endRetry, answers,
             survived>>

OtaEvents == {"BLOCK_WAIT", "UPGRADE_WAIT", "BLOCK_RSP_TO"}
Downloaded == {"COMPLETE", "UPGRADE_WAIT", "COUNTDOWN"}

OtaInit ==
  /\ upgradeStatus = "NORMAL" /\ dlVersion = NoImage /\ fileOffset = 0
  /\ flash = [b \in 0 .. FlashSize - 1 |-> NoImage]
  /\ updateDelay = 0 /\ blockRetry = 0 /\ endRetry = 0
  /\ running = {} /\ pending = {}
  /\ answers = {} /\ survived = FALSE
-----------------------------------------------------------------------------
(* The server, by what it may answer.  What is lost, on either way, is     *)
(* never answered.                                                         *)

QueryRsp(v) == [type |-> "queryRsp", version |-> v]
BlockRsp(v, b) == [type |-> "block", version |-> v, offset |-> b]
WaitRsp == [type |-> "waitForData"]
AbortRsp == [type |-> "abort"]
EndRsp(v, t) == [type |-> "endRsp", version |-> v, time |-> t]

(* The console offers an image; that it has none changes nothing.          *)
Srv_QueryNextImageReq == {QueryRsp(v) : v \in Versions}

(* The server keeps the version it offered last, to whichever client: when *)
(* it is not that of the request no answer comes that the client looks at. *)
(* Otherwise the console reads the block, or cannot, or is busy.           *)
Srv_ImageBlockReq(v, b) ==
  {AbortRsp, WaitRsp} \cup (IF b < Size[v] THEN {BlockRsp(v, b)} ELSE {})

(* The report of a download that failed is not answered.                   *)
Srv_UpgradeEndReq(v, success) ==
  IF success THEN {EndRsp(v, t) : t \in EndAnswers[v]} ELSE {}

(* The answers ms have arrived, and one of rs may come.                    *)
Exchange(ms, rs) ==
  \E more \in {{r} : r \in rs} \cup {{}} :
    /\ answers' = (answers \ ms) \cup more
    /\ Cardinality(answers') <= MaxAnswers
Received(t) == {m \in answers : m.type = t}
-----------------------------------------------------------------------------
(* The client: answers that are received                                   *)

(* An image notification, in the NORMAL state, or a request of the         *)
(* application, in any state, asks the server for an image.  The event     *)
(* IMAGE_QUERY_TO of a request that was not answered (521) only tells the  *)
(* application.                                                            *)
zclOTA_RequestNextUpdate ==
  /\ Exchange({}, Srv_QueryNextImageReq)
  /\ UNCHANGED <<upgradeStatus, imageVars, timerVars, blockRetry, endRetry, survived>>

(* An answer is lost, or ignored by the client.                            *)
AnswerLost ==
  /\ \E m \in answers : Exchange({m}, {})
  /\ UNCHANGED <<upgradeStatus, imageVars, timerVars, blockRetry, endRetry, survived>>

(* An offer is taken in every state but IN_PROGRESS.                       *)
ProcessQueryNextImageRsp ==
  \E m \in Received("queryRsp") :
    /\ upgradeStatus # "IN_PROGRESS"
    /\ upgradeStatus' = "IN_PROGRESS"
    /\ dlVersion' = m.version /\ fileOffset' = 0
    /\ running' = running \cup {"BLOCK_RSP_TO"}
    /\ Exchange({m}, Srv_ImageBlockReq(m.version, 0))
    /\ survived' = FALSE
    /\ UNCHANGED <<flash, updateDelay, blockRetry, endRetry, pending>>

(* A block of another version ends the download; its timer runs on.        *)
WrongVersion ==
  \E m \in Received("block") :
    /\ upgradeStatus = "IN_PROGRESS" /\ m.version # dlVersion
    /\ upgradeStatus' = "NORMAL"
    /\ Exchange({m}, Srv_UpgradeEndReq(m.version, FALSE))
    /\ UNCHANGED <<imageVars, timerVars, blockRetry, endRetry, survived>>

(* Mutant: the block is not compared with the one asked for.               *)
Stored_anyOffset(m) ==
  /\ upgradeStatus = "IN_PROGRESS" /\ m.version = dlVersion
  /\ flash' = [flash EXCEPT ![m.offset] = m.version]
  /\ blockRetry' = 0

(* The block asked for is stored: any other is dropped as a duplicate.     *)
Stored(m) ==
  /\ upgradeStatus = "IN_PROGRESS" /\ m.version = dlVersion /\ m.offset = fileOffset
  /\ flash' = [flash EXCEPT ![m.offset] = m.version]
  /\ blockRetry' = 0

(* The next block is asked for.                                            *)
BlockReceived ==
  \E m \in Received("block") :
    /\ Stored(m) /\ fileOffset + 1 < Size[dlVersion]
    /\ fileOffset' = fileOffset + 1
    /\ running' = running \cup {"BLOCK_RSP_TO"}
    /\ Exchange({m}, Srv_ImageBlockReq(dlVersion, fileOffset'))
    /\ UNCHANGED <<upgradeStatus, dlVersion, updateDelay, pending, endRetry, survived>>

(* A timer of the download has set its event, or may still do so.          *)
Outlived == "BLOCK_RSP_TO" \in pending \/ "BLOCK_WAIT" \in running \cup pending

(* Mutant: the timer of the last block is not stopped.                     *)
LastBlockReceived_keepsTimer ==
  \E m \in Received("block") :
    /\ Stored(m) /\ fileOffset + 1 = Size[dlVersion]
    /\ fileOffset' = fileOffset + 1
    /\ upgradeStatus' = "COMPLETE"
    /\ Exchange({m}, Srv_UpgradeEndReq(dlVersion, TRUE))
    /\ survived' = Outlived
    /\ UNCHANGED <<dlVersion, updateDelay, running, pending, endRetry>>

(* The image is whole.                                                     *)
LastBlockReceived ==
  \E m \in Received("block") :
    /\ Stored(m) /\ fileOffset + 1 = Size[dlVersion]
    /\ fileOffset' = fileOffset + 1
    /\ upgradeStatus' = "COMPLETE"
    /\ running' = running \ {"BLOCK_RSP_TO"}
    /\ Exchange({m}, Srv_UpgradeEndReq(dlVersion, TRUE))
    /\ survived' = Outlived
    /\ UNCHANGED <<dlVersion, updateDelay, pending, endRetry>>

(* The data are not those of an image: its header, a length or its         *)
(* checksum is wrong.  How far the offset went within the block does not   *)
(* matter: the next download starts it again.                              *)
InvalidImage ==
  \E m \in Received("block") :
    /\ Stored(m)
    /\ upgradeStatus' = "NORMAL"
    /\ running' = running \ {"BLOCK_RSP_TO"}
    /\ Exchange({m}, Srv_UpgradeEndReq(dlVersion, FALSE))
    /\ UNCHANGED <<dlVersion, fileOffset, updateDelay, pending, endRetry, survived>>

(* The server asks for five seconds.                                       *)
WaitForData ==
  \E m \in Received("waitForData") :
    /\ upgradeStatus = "IN_PROGRESS"
    /\ blockRetry' = 0 /\ updateDelay' = 0
    /\ running' = (running \ {"BLOCK_RSP_TO"}) \cup {"BLOCK_WAIT"}
    /\ Exchange({m}, {})
    /\ UNCHANGED <<upgradeStatus, imageVars, pending, endRetry, survived>>

Aborted ==
  \E m \in Received("abort") :
    /\ upgradeStatus = "IN_PROGRESS"
    /\ upgradeStatus' = "NORMAL" /\ blockRetry' = 0
    /\ running' = running \ {"BLOCK_RSP_TO"}
    /\ Exchange({m}, {})
    /\ UNCHANGED <<imageVars, updateDelay, pending, endRetry, survived>>

ProcessUpgradeEndRsp ==
  \E m \in Received("endRsp") :
    /\ m.version = dlVersion
    /\ \/ upgradeStatus = "COMPLETE"
       \/ upgradeStatus = "UPGRADE_WAIT" /\ m.time # Wait
    /\ upgradeStatus' = IF m.time = Wait THEN "UPGRADE_WAIT" ELSE "COUNTDOWN"
    /\ updateDelay' = IF m.time = Wait THEN HourMins ELSE DelayMins
    /\ endRetry' = IF m.time = Wait THEN 0 ELSE endRetry
    /\ running' = running \cup {"UPGRADE_WAIT"}
    /\ Exchange({m}, {})
    /\ UNCHANGED <<imageVars, blockRetry, pending, survived>>
-----------------------------------------------------------------------------
(* The client: timers, and their events in the order of the event loop     *)

TimerExpires(e) ==
  /\ e \in running
  /\ running' = running \ {e} /\ pending' = pending \cup {e}
  /\ UNCHANGED <<upgradeStatus, imageVars, updateDelay, blockRetry, endRetry, answers,
                 survived>>

Handles(e) ==
  /\ e \in pending /\ pending' = pending \ {e}
  /\ e = "UPGRADE_WAIT" => "BLOCK_WAIT" \notin pending
  /\ e = "BLOCK_RSP_TO" => pending = {e}

(* Both waits count the same minutes.                                      *)
Minute(e) ==
  /\ Handles(e) /\ updateDelay > 0
  /\ updateDelay' = updateDelay - 1
  /\ running' = running \cup {e}
  /\ UNCHANGED <<upgradeStatus, imageVars, blockRetry, endRetry, answers, survived>>

AskForBlock == /\ running' = running \cup {"BLOCK_RSP_TO"}
               /\ Exchange({}, Srv_ImageBlockReq(dlVersion, fileOffset))

ImageBlockWaitExpired ==
  /\ Handles("BLOCK_WAIT") /\ updateDelay = 0
  /\ IF upgradeStatus = "IN_PROGRESS" THEN AskForBlock ELSE UNCHANGED <<running, answers>>
  /\ UNCHANGED <<upgradeStatus, imageVars, updateDelay, blockRetry, endRetry, survived>>

(* The image may be started.                                               *)
CountdownOver ==
  /\ Handles("UPGRADE_WAIT") /\ updateDelay = 0
  /\ upgradeStatus' = IF upgradeStatus = "COUNTDOWN" THEN "NORMAL" ELSE upgradeStatus
  /\ upgradeStatus # "UPGRADE_WAIT"
  /\ UNCHANGED <<imageVars, updateDelay, running, blockRetry, endRetry, answers, survived>>

(* The server is asked once more, or for the last time in vain.            *)
UpgradeWaitOver ==
  /\ Handles("UPGRADE_WAIT") /\ updateDelay = 0
  /\ upgradeStatus = "UPGRADE_WAIT"
  /\ endRetry' = endRetry + 1
  /\ IF endRetry' > MAX_END_REQ_RETRIES
     THEN upgradeStatus' = "NORMAL" /\ UNCHANGED <<answers, updateDelay, running>>
     ELSE /\ Exchange({}, Srv_UpgradeEndReq(dlVersion, TRUE))
          /\ updateDelay' = HourMins
          /\ running' = running \cup {"UPGRADE_WAIT"}
          /\ UNCHANGED upgradeStatus
  /\ UNCHANGED <<imageVars, blockRetry, survived>>

(* Mutant: the block is asked for without end.                             *)
BlockRspTimeout_forever ==
  /\ Handles("BLOCK_RSP_TO")
  /\ AskForBlock
  /\ UNCHANGED <<upgradeStatus, imageVars, updateDelay, blockRetry, endRetry, survived>>

(* No answer came.  The state of the download is not looked at.  The count *)
(* of the retries is not cleared for the next download; that it is a byte, *)
(* which 245 downloads in vain wrap, is not modelled.                      *)
BlockRspTimeout ==
  /\ Handles("BLOCK_RSP_TO")
  /\ IF blockRetry >= MAX_BLOCK_RETRIES
     THEN /\ blockRetry' = MAX_BLOCK_RETRIES + 1
          /\ upgradeStatus' = "NORMAL"
          /\ Exchange({}, Srv_UpgradeEndReq(dlVersion, FALSE))
          /\ UNCHANGED running
     ELSE blockRetry' = blockRetry + 1 /\ AskForBlock /\ UNCHANGED upgradeStatus
  /\ UNCHANGED <<imageVars, updateDelay, endRetry, survived>>

EventHandled == \/ Minute("BLOCK_WAIT") \/ Minute("UPGRADE_WAIT")
                \/ ImageBlockWaitExpired \/ CountdownOver \/ UpgradeWaitOver
                \/ BlockRspTimeout

OtaNext == \/ zclOTA_RequestNextUpdate \/ AnswerLost
           \/ ProcessQueryNextImageRsp \/ WrongVersion \/ BlockReceived
           \/ LastBlockReceived \/ InvalidImage \/ WaitForData \/ Aborted
           \/ ProcessUpgradeEndRsp \/ EventHandled
           \/ \E e \in OtaEvents : TimerExpires(e)

OtaSpec == OtaInit /\ [][OtaNext]_otaVars

(* Timers run on and the task is given its turns; nothing is asked of the  *)
(* server and of the network.                                              *)
OtaFairness == /\ \A e \in OtaEvents : WF_otaVars(TimerExpires(e))
               /\ WF_otaVars(EventHandled)
OtaFairSpec == OtaSpec /\ OtaFairness
-----------------------------------------------------------------------------
(* The types of the variables.                                             *)
OtaTypeOK ==
  /\ upgradeStatus \in {"NORMAL", "IN_PROGRESS"} \cup Downloaded
  /\ dlVersion \in Versions \cup {NoImage} /\ fileOffset \in 0 .. FlashSize
  /\ flash \in [0 .. FlashSize - 1 -> Versions \cup {NoImage}]
  /\ updateDelay \in Nat /\ blockRetry \in Nat /\ endRetry \in Nat
  /\ running \subseteq OtaEvents /\ pending \subseteq OtaEvents
  /\ survived \in BOOLEAN

(* What is kept to be started is one image, whole: whatever was lost,      *)
(* repeated or overtaken, every block in the flash is of the version that  *)
(* the server was told of (zcl_ota.c:1528-1534).                           *)
ImageWhole ==
  upgradeStatus \in Downloaded => \A b \in 0 .. Size[dlVersion] - 1 : flash[b] = dlVersion

(* How a finished download may end, and in no other way:                   *)
(*  - the client takes a new offer, which it does in every state but       *)
(*    IN_PROGRESS (zcl_ota.c:1397);                                        *)
(*  - the countdown is over, and the image may be started;                 *)
(*  - the server, asked for the time as often as is allowed, did not tell  *)
(*    it ("perform the upgrade", 491);                                     *)
(*  - a timer of the download outlived it: the event of BLOCK_RSP_TO is    *)
(*    handled in every state (543), asks for blocks behind the end, and    *)
(*    after MAX_BLOCK_RETRIES of them aborts.  With no such timer at the   *)
(*    end there is none later.                                             *)
(* The minutes of the countdown pass one by one, each with an event of     *)
(* UPGRADE_WAIT - the first may be one that an earlier wait left behind -  *)
(* or, again only of a timer that outlived its download, of BLOCK_WAIT.    *)
Taken(e) == e \in pending /\ e \notin pending'

NewOffer == /\ upgradeStatus' = "IN_PROGRESS"
            /\ \E m \in Received("queryRsp") : dlVersion' = m.version /\ m \notin answers'
CountedDown == upgradeStatus = "COUNTDOWN" /\ updateDelay = 0 /\ Taken("UPGRADE_WAIT")
ServerSilent == /\ upgradeStatus = "UPGRADE_WAIT" /\ updateDelay = 0
                /\ endRetry >= MAX_END_REQ_RETRIES /\ Taken("UPGRADE_WAIT")
StrayTimer == survived /\ blockRetry >= MAX_BLOCK_RETRIES /\ Taken("BLOCK_RSP_TO")

EndsRightly == NewOffer \/ CountedDown \/ ServerSilent \/ StrayTimer
MinutePasses == /\ updateDelay' = updateDelay - 1
                /\ Taken("UPGRADE_WAIT") \/ (survived /\ Taken("BLOCK_WAIT"))

DownloadKept ==
  [][/\ upgradeStatus \in Downloaded /\ upgradeStatus' \notin Downloaded => EndsRightly
     /\ upgradeStatus = "COUNTDOWN" /\ updateDelay' # updateDelay => MinutePasses]_otaVars

(* A download never hangs: while a block is awaited, or the start, one of  *)
(* the timers that lead on runs or has set its event - also when the timer *)
(* of the answer has just expired, or the server has asked to wait         *)
(* (zcl_ota.c:462-519, 1573-1577).                                         *)
Timed ==
  /\ upgradeStatus = "IN_PROGRESS" =>
       {"BLOCK_RSP_TO", "BLOCK_WAIT"} \cap (running \cup pending) # {}
  /\ upgradeStatus \in {"UPGRADE_WAIT", "COUNTDOWN"} =>
       "UPGRADE_WAIT" \in running \cup pending

(* A download in progress ends, and so does the wait for the start, with   *)
(* the server gone, too: only a server that asks again and again to wait   *)
(* may hold it up.                                                         *)
Underway == {"IN_PROGRESS", "UPGRADE_WAIT", "COUNTDOWN"}
DownloadEnds ==
  <>[][~WaitForData]_otaVars =>
    (upgradeStatus \in Underway ~> upgradeStatus \notin Underway)
=============================================================================
