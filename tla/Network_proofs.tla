---------------------------- MODULE Network_proofs ----------------------------
(***************************************************************************)
(* What other devices of the network may ask of this one: an upgrade of    *)
(* its program, and bindings.                                              *)
(*                                                                         *)
(* For any images, any numbers of retries and any answers under way, what  *)
(* is kept to be started is one whole image, and there is a list of the    *)
(* ways in which it may be given up.  For a table of any size and any end  *)
(* points, destinations and clusters, the binding table and its copy are   *)
(* the relation of Bindings.                                               *)
(***************************************************************************)
EXTENDS ZclOTA, BindingTable, FiniteSetTheorems, WellFoundedInduction, TLAPS
-----------------------------------------------------------------------------
(* The upgrade.                                                            *)

(* What the argument needs of the types.                                   *)
StatusOK ==
  /\ upgradeStatus \in {"NORMAL", "IN_PROGRESS"} \cup Downloaded
  /\ fileOffset \in Nat /\ updateDelay \in Nat
  /\ flash \in [0 .. FlashSize - 1 -> Versions \cup {NoImage}]

(* The server only offers images it has.                                   *)
OffersKnown == \A m \in answers : m.type = "queryRsp" => m.version \in Versions

(* What was received of a download in progress is in the flash, and more   *)
(* is to come.                                                             *)
PartStored ==
  upgradeStatus = "IN_PROGRESS" =>
    /\ dlVersion \in Versions /\ fileOffset < Size[dlVersion]
    /\ \A b \in 0 .. fileOffset - 1 : flash[b] = dlVersion

AllStored ==
  upgradeStatus \in Downloaded =>
    /\ dlVersion \in Versions
    /\ \A b \in 0 .. Size[dlVersion] - 1 : flash[b] = dlVersion

(* A download that none of its timers outlived has none of them later.     *)
OnlyOwnTimer ==
  upgradeStatus \in Downloaded /\ ~survived =>
    running \cup pending \subseteq {"UPGRADE_WAIT"}

(* Only the timers of the client run.                                      *)
TimersOK == running \subseteq OtaEvents /\ pending \subseteq OtaEvents

(* The retries are counted.                                                *)
RetriesOK == blockRetry \in Nat /\ endRetry \in Nat

ImageInv == StatusOK /\ OffersKnown /\ PartStored /\ AllStored
OtaInv == ImageInv /\ RetriesOK /\ TimersOK /\ OnlyOwnTimer

LEMMA InitOtaInv == OtaInit => OtaInv
BY OtaAssumption
DEF OtaInit, OtaInv, ImageInv, StatusOK, OffersKnown, PartStored, AllStored,
    OnlyOwnTimer, TimersOK, RetriesOK, Downloaded, imageVars
-----------------------------------------------------------------------------
(* The answers.                                                            *)

LEMMA ExchangeKeeps ==
  ASSUME NEW ms, NEW rs, OffersKnown, Exchange(ms, rs),
         \A r \in rs : r.type = "queryRsp" => r.version \in Versions
  PROVE  OffersKnown'
BY DEF OffersKnown, Exchange

LEMMA Offers ==
  \A r \in Srv_QueryNextImageReq : r.type = "queryRsp" => r.version \in Versions
BY DEF Srv_QueryNextImageReq, QueryRsp

LEMMA NoOffers ==
  ASSUME NEW v, NEW b
  PROVE  /\ \A r \in Srv_ImageBlockReq(v, b) : r.type # "queryRsp"
         /\ \A r \in Srv_UpgradeEndReq(v, TRUE) : r.type # "queryRsp"
         /\ \A r \in Srv_UpgradeEndReq(v, FALSE) : r.type # "queryRsp"
BY DEF Srv_ImageBlockReq, Srv_UpgradeEndReq, BlockRsp, AbortRsp, WaitRsp, EndRsp

(* No step brings an offer of an image that the server does not have.      *)
LEMMA OffersStayKnown == OffersKnown /\ OtaNext => OffersKnown'
<1> SUFFICES ASSUME OffersKnown, OtaNext PROVE OffersKnown'
  OBVIOUS
<1>1. CASE zclOTA_RequestNextUpdate
  BY <1>1, ExchangeKeeps, Offers DEF zclOTA_RequestNextUpdate
<1>2. CASE AnswerLost
  BY <1>2, ExchangeKeeps DEF AnswerLost
<1>3. CASE ProcessQueryNextImageRsp
  BY <1>3, ExchangeKeeps, NoOffers DEF ProcessQueryNextImageRsp
<1>4. CASE WrongVersion
  BY <1>4, ExchangeKeeps, NoOffers DEF WrongVersion
<1>5. CASE BlockReceived
  BY <1>5, ExchangeKeeps, NoOffers DEF BlockReceived
<1>6. CASE LastBlockReceived
  BY <1>6, ExchangeKeeps, NoOffers DEF LastBlockReceived
<1>7. CASE InvalidImage
  BY <1>7, ExchangeKeeps, NoOffers DEF InvalidImage
<1>8. CASE WaitForData
  BY <1>8, ExchangeKeeps DEF WaitForData
<1>9. CASE Aborted
  BY <1>9, ExchangeKeeps DEF Aborted
<1>10. CASE ProcessUpgradeEndRsp
  BY <1>10, ExchangeKeeps DEF ProcessUpgradeEndRsp
<1>11. CASE EventHandled
  <2>1. CASE UNCHANGED answers
    BY <2>1 DEF OffersKnown
  <2>2. CASE Exchange({}, Srv_ImageBlockReq(dlVersion, fileOffset))
    BY <2>2, ExchangeKeeps, NoOffers
  <2>3. CASE \E ok \in BOOLEAN : Exchange({}, Srv_UpgradeEndReq(dlVersion, ok))
    BY <2>3, ExchangeKeeps, NoOffers
  <2> QED
    BY <1>11, <2>1, <2>2, <2>3
    DEF EventHandled, Minute, ImageBlockWaitExpired, CountdownOver, UpgradeWaitOver,
        BlockRspTimeout, AskForBlock
<1>12. CASE \E e \in OtaEvents : TimerExpires(e)
  BY <1>12 DEF TimerExpires, OffersKnown
<1> QED
  BY <1>1, <1>2, <1>3, <1>4, <1>5, <1>6, <1>7, <1>8, <1>9, <1>10, <1>11, <1>12
  DEF OtaNext
-----------------------------------------------------------------------------
(* The image.                                                              *)

(* The next block is put behind those that are there.                      *)
LEMMA StoredKeeps ==
  ASSUME ImageInv, NEW m, Stored(m)
  PROVE  /\ dlVersion \in Versions /\ Size[dlVersion] \in 1 .. FlashSize
         /\ fileOffset \in 0 .. Size[dlVersion] - 1
         /\ flash' \in [0 .. FlashSize - 1 -> Versions \cup {NoImage}]
         /\ \A b \in 0 .. fileOffset : flash'[b] = dlVersion
<1>1. /\ dlVersion \in Versions /\ fileOffset < Size[dlVersion]
      /\ \A b \in 0 .. fileOffset - 1 : flash[b] = dlVersion
      /\ m.offset = fileOffset /\ m.version = dlVersion
      /\ flash' = [flash EXCEPT ![fileOffset] = dlVersion]
  BY DEF ImageInv, PartStored, Stored
<1>2. Size[dlVersion] \in 1 .. FlashSize /\ FlashSize \in Nat /\ fileOffset \in Nat
  BY <1>1, OtaAssumption DEF ImageInv, StatusOK
<1>3. flash \in [0 .. FlashSize - 1 -> Versions \cup {NoImage}]
  BY DEF ImageInv, StatusOK
<1> QED
  BY <1>1, <1>2, <1>3

(* A step that leaves the image alone and does not begin or finish a       *)
(* download keeps what is known of it.                                     *)
LEMMA SameImage ==
  ASSUME ImageInv, UNCHANGED <<dlVersion, fileOffset, flash>>, updateDelay' \in Nat,
         \/ upgradeStatus' = upgradeStatus
         \/ upgradeStatus' = "NORMAL"
         \/ upgradeStatus \in Downloaded /\ upgradeStatus' \in Downloaded
  PROVE  StatusOK' /\ PartStored' /\ AllStored'
BY DEF ImageInv, StatusOK, PartStored, AllStored, Downloaded

(* Each action of the client keeps the part that is stored.                *)
LEMMA ImageStays == ImageInv /\ OtaNext => ImageInv'
<1> SUFFICES ASSUME ImageInv, OtaNext PROVE StatusOK' /\ PartStored' /\ AllStored'
  BY OffersStayKnown DEF ImageInv
<1>0. /\ updateDelay \in Nat /\ fileOffset \in Nat
      /\ HourMins \in Nat /\ DelayMins \in Nat /\ FlashSize \in Nat
  BY OtaAssumption DEF ImageInv, StatusOK
<1>1. CASE zclOTA_RequestNextUpdate
  BY <1>0, <1>1, SameImage DEF zclOTA_RequestNextUpdate, imageVars, timerVars
<1>2. CASE AnswerLost
  BY <1>0, <1>2, SameImage DEF AnswerLost, imageVars, timerVars
<1>3. CASE ProcessQueryNextImageRsp
  <2>1. PICK m \in Received("queryRsp") :
          /\ upgradeStatus' = "IN_PROGRESS"
          /\ dlVersion' = m.version /\ fileOffset' = 0
          /\ UNCHANGED <<flash, updateDelay>>
    BY <1>3 DEF ProcessQueryNextImageRsp
  <2>2. m.version \in Versions
    BY <2>1 DEF Received, ImageInv, OffersKnown
  <2>3. Size[m.version] \in 1 .. FlashSize
    BY <2>2, OtaAssumption
  <2> QED
    BY <1>0, <2>1, <2>2, <2>3
    DEF ImageInv, StatusOK, PartStored, AllStored, Downloaded
<1>4. CASE WrongVersion
  BY <1>0, <1>4, SameImage DEF WrongVersion, imageVars, timerVars
<1>5. CASE BlockReceived
  <2>1. PICK m \in Received("block") :
          /\ Stored(m) /\ fileOffset + 1 < Size[dlVersion]
          /\ fileOffset' = fileOffset + 1
          /\ UNCHANGED <<upgradeStatus, dlVersion, updateDelay>>
    BY <1>5 DEF BlockReceived
  <2>2. upgradeStatus' = "IN_PROGRESS"
    BY <2>1 DEF Stored
  <2> QED
    BY <1>0, <2>1, <2>2, StoredKeeps DEF StatusOK, PartStored, AllStored, Downloaded
<1>6. CASE LastBlockReceived
  <2>1. PICK m \in Received("block") :
          /\ Stored(m) /\ fileOffset + 1 = Size[dlVersion]
          /\ fileOffset' = fileOffset + 1 /\ upgradeStatus' = "COMPLETE"
          /\ UNCHANGED <<dlVersion, updateDelay>>
    BY <1>6 DEF LastBlockReceived
  <2> QED
    BY <1>0, <2>1, StoredKeeps DEF StatusOK, PartStored, AllStored, Downloaded
<1>7. CASE InvalidImage
  <2>1. PICK m \in Received("block") :
          /\ Stored(m) /\ upgradeStatus' = "NORMAL"
          /\ UNCHANGED <<dlVersion, fileOffset, updateDelay>>
    BY <1>7 DEF InvalidImage
  <2> QED
    BY <1>0, <2>1, StoredKeeps DEF StatusOK, PartStored, AllStored, Downloaded
<1>8. CASE WaitForData
  BY <1>0, <1>8, SameImage DEF WaitForData, imageVars
<1>9. CASE Aborted
  BY <1>0, <1>9, SameImage DEF Aborted, imageVars
<1>10. CASE ProcessUpgradeEndRsp
  BY <1>0, <1>10, SameImage DEF ProcessUpgradeEndRsp, imageVars, Downloaded
<1>11. CASE EventHandled
  <2>1. UNCHANGED <<dlVersion, fileOffset, flash>>
    BY <1>11
    DEF EventHandled, Minute, ImageBlockWaitExpired, CountdownOver, UpgradeWaitOver,
        BlockRspTimeout, imageVars
  <2>2. upgradeStatus' = upgradeStatus \/ upgradeStatus' = "NORMAL"
    BY <1>11
    DEF EventHandled, Minute, ImageBlockWaitExpired, CountdownOver, UpgradeWaitOver,
        BlockRspTimeout
  <2>3. updateDelay' \in Nat
    <3>1. \/ updateDelay > 0 /\ updateDelay' = updateDelay - 1
          \/ updateDelay' = HourMins
          \/ UNCHANGED updateDelay
      BY <1>11
      DEF EventHandled, Minute, ImageBlockWaitExpired, CountdownOver, UpgradeWaitOver,
          BlockRspTimeout
    <3> QED
      BY <1>0, <3>1
  <2> QED
    BY <2>1, <2>2, <2>3, SameImage
<1>12. CASE \E e \in OtaEvents : TimerExpires(e)
  BY <1>0, <1>12, SameImage DEF TimerExpires, imageVars
<1> QED
  BY <1>1, <1>2, <1>3, <1>4, <1>5, <1>6, <1>7, <1>8, <1>9, <1>10, <1>11, <1>12
  DEF OtaNext

(* What is kept to be started is one whole image (zcl_ota.c:1528-1548).    *)
THEOREM ImageAlwaysWhole == OtaSpec => []ImageWhole
<1>1. OtaInit => ImageInv
  BY InitOtaInv DEF OtaInv
<1>2. ImageInv /\ [OtaNext]_otaVars => ImageInv'
  <2>1. ImageInv /\ UNCHANGED otaVars => ImageInv'
    BY DEF ImageInv, StatusOK, OffersKnown, PartStored, AllStored, otaVars, imageVars,
           timerVars
  <2> QED
    BY <2>1, ImageStays
<1>3. ImageInv => ImageWhole
  BY DEF ImageInv, AllStored, ImageWhole
<1> QED
  BY <1>1, <1>2, <1>3, PTL DEF OtaSpec
-----------------------------------------------------------------------------
(* The timers.                                                             *)

(* An event that is handled is the one the client takes from those set.    *)
LEMMA EventCases ==
  ASSUME EventHandled
  PROVE  \/ Minute("BLOCK_WAIT") \/ ImageBlockWaitExpired \/ BlockRspTimeout
         \/ Minute("UPGRADE_WAIT") \/ CountdownOver \/ UpgradeWaitOver
BY DEF EventHandled

(* A download whose timers are off when it ends stays so until the next.   *)
LEMMA TimersStay == OtaInv /\ OtaNext => TimersOK' /\ OnlyOwnTimer'
<1> SUFFICES ASSUME OtaInv, OtaNext PROVE TimersOK' /\ OnlyOwnTimer'
  OBVIOUS
<1> USE DEF OtaEvents
<1>0. /\ running \subseteq OtaEvents /\ pending \subseteq OtaEvents
      /\ upgradeStatus \in Downloaded /\ ~survived =>
           running \cup pending \subseteq {"UPGRADE_WAIT"}
  BY DEF OtaInv, TimersOK, OnlyOwnTimer
<1>1. CASE zclOTA_RequestNextUpdate \/ AnswerLost \/ WrongVersion
  BY <1>0, <1>1
  DEF zclOTA_RequestNextUpdate, AnswerLost, WrongVersion, timerVars, TimersOK,
      OnlyOwnTimer, Downloaded
<1>2. CASE ProcessQueryNextImageRsp \/ BlockReceived \/ InvalidImage
  BY <1>0, <1>2
  DEF ProcessQueryNextImageRsp, BlockReceived, InvalidImage, Stored, TimersOK,
      OnlyOwnTimer, Downloaded
<1>3. CASE LastBlockReceived
  BY <1>0, <1>3 DEF LastBlockReceived, Outlived, TimersOK, OnlyOwnTimer
<1>4. CASE WaitForData \/ Aborted
  BY <1>0, <1>4 DEF WaitForData, Aborted, TimersOK, OnlyOwnTimer, Downloaded
<1>5. CASE ProcessUpgradeEndRsp
  BY <1>0, <1>5 DEF ProcessUpgradeEndRsp, TimersOK, OnlyOwnTimer, Downloaded
<1>6. CASE EventHandled
  <2>1. CASE Minute("UPGRADE_WAIT") \/ CountdownOver \/ UpgradeWaitOver
    BY <1>0, <2>1
    DEF Minute, CountdownOver, UpgradeWaitOver, Handles, TimersOK, OnlyOwnTimer,
        Downloaded
  <2>2. CASE Minute("BLOCK_WAIT") \/ ImageBlockWaitExpired \/ BlockRspTimeout
    BY <1>0, <2>2
    DEF Minute, ImageBlockWaitExpired, BlockRspTimeout, AskForBlock, Handles, TimersOK,
        OnlyOwnTimer, Downloaded
  <2> QED
    BY <1>6, <2>1, <2>2, EventCases
<1>7. CASE \E e \in OtaEvents : TimerExpires(e)
  BY <1>0, <1>7 DEF TimerExpires, TimersOK, OnlyOwnTimer
<1> QED
  BY <1>1, <1>2, <1>3, <1>4, <1>5, <1>6, <1>7 DEF OtaNext

LEMMA RetriesStay == RetriesOK /\ OtaNext => RetriesOK'
<1> SUFFICES ASSUME RetriesOK, OtaNext PROVE RetriesOK'
  OBVIOUS
<1>1. blockRetry' \in {blockRetry, blockRetry + 1, MAX_BLOCK_RETRIES + 1, 0}
  BY EventCases
  DEF OtaNext, zclOTA_RequestNextUpdate, AnswerLost, ProcessQueryNextImageRsp,
      WrongVersion, BlockReceived, LastBlockReceived, InvalidImage, WaitForData, Aborted,
      ProcessUpgradeEndRsp, TimerExpires, Stored, Minute, ImageBlockWaitExpired,
      CountdownOver, UpgradeWaitOver, BlockRspTimeout
<1>2. endRetry' \in {endRetry, endRetry + 1, 0}
  BY EventCases
  DEF OtaNext, zclOTA_RequestNextUpdate, AnswerLost, ProcessQueryNextImageRsp,
      WrongVersion, BlockReceived, LastBlockReceived, InvalidImage, WaitForData, Aborted,
      ProcessUpgradeEndRsp, TimerExpires, Stored, Minute, ImageBlockWaitExpired,
      CountdownOver, UpgradeWaitOver, BlockRspTimeout
<1> QED
  BY <1>1, <1>2, OtaAssumption DEF RetriesOK

LEMMA OtaInvAlways == OtaSpec => []OtaInv
<1>1. OtaInv /\ [OtaNext]_otaVars => OtaInv'
  <2>1. OtaInv /\ UNCHANGED otaVars => OtaInv'
    BY DEF OtaInv, ImageInv, StatusOK, OffersKnown, PartStored, AllStored, TimersOK,
           RetriesOK, OnlyOwnTimer, otaVars, imageVars, timerVars
  <2> QED
    BY <2>1, ImageStays, RetriesStay, TimersStay DEF OtaInv
<1> QED
  BY <1>1, InitOtaInv, PTL DEF OtaSpec

(* The image is whole, and the step ends its download.                     *)
LEMMA EndsOnlyRightly ==
  ASSUME OtaInv, OtaNext, upgradeStatus \in Downloaded, upgradeStatus' \notin Downloaded
  PROVE  EndsRightly
<1>0. /\ ~survived => running \cup pending \subseteq {"UPGRADE_WAIT"}
      /\ blockRetry \in Nat /\ endRetry \in Nat /\ MAX_END_REQ_RETRIES \in Nat
      /\ upgradeStatus \notin {"NORMAL", "IN_PROGRESS"}
      /\ upgradeStatus' # upgradeStatus
  BY OtaAssumption DEF OtaInv, OnlyOwnTimer, RetriesOK, Downloaded
<1>1. CASE ProcessQueryNextImageRsp
  <2>1. PICK m \in Received("queryRsp") :
          /\ upgradeStatus' = "IN_PROGRESS" /\ dlVersion' = m.version
          /\ Exchange({m}, Srv_ImageBlockReq(m.version, 0))
    BY <1>1 DEF ProcessQueryNextImageRsp
  <2>2. m \notin Srv_ImageBlockReq(m.version, 0)
    BY NoOffers DEF Received
  <2>3. m \notin answers'
    BY <2>1, <2>2 DEF Exchange
  <2> QED
    BY <2>1, <2>3 DEF EndsRightly, NewOffer
<1>2. CASE EventHandled
  <2>1. \/ CountdownOver /\ upgradeStatus = "COUNTDOWN"
        \/ UpgradeWaitOver /\ endRetry' > MAX_END_REQ_RETRIES
        \/ BlockRspTimeout /\ blockRetry >= MAX_BLOCK_RETRIES
    BY <1>0, <1>2, EventCases
    DEF Minute, ImageBlockWaitExpired, CountdownOver, UpgradeWaitOver, BlockRspTimeout
  <2>2. CASE CountdownOver /\ upgradeStatus = "COUNTDOWN"
    BY <2>2 DEF CountdownOver, Handles, Taken, CountedDown, EndsRightly
  <2>3. CASE UpgradeWaitOver /\ endRetry' > MAX_END_REQ_RETRIES
    <3>1. endRetry >= MAX_END_REQ_RETRIES
      BY <1>0, <2>3 DEF UpgradeWaitOver
    <3> QED
      BY <2>3, <3>1 DEF UpgradeWaitOver, Handles, Taken, ServerSilent, EndsRightly
  <2>4. CASE BlockRspTimeout /\ blockRetry >= MAX_BLOCK_RETRIES
    <3>1. Taken("BLOCK_RSP_TO")
      BY <2>4 DEF BlockRspTimeout, Handles, Taken
    <3>2. survived
      BY <1>0, <3>1 DEF Taken
    <3> QED
      BY <2>4, <3>1, <3>2 DEF StrayTimer, EndsRightly
  <2> QED
    BY <2>1, <2>2, <2>3, <2>4
<1> QED
  BY <1>0, <1>1, <1>2
  DEF OtaNext, zclOTA_RequestNextUpdate, AnswerLost, WrongVersion, BlockReceived,
      LastBlockReceived, InvalidImage, WaitForData, Aborted, ProcessUpgradeEndRsp,
      TimerExpires, Stored, Downloaded

(* The image is to be started, and the step changes the time until then.   *)
LEMMA OnlyMinutesPass ==
  ASSUME OtaInv, OtaNext, upgradeStatus = "COUNTDOWN", updateDelay' # updateDelay
  PROVE  MinutePasses
<1>0. ~survived => running \cup pending \subseteq {"UPGRADE_WAIT"}
  BY DEF OtaInv, OnlyOwnTimer, Downloaded
<1>1. CASE EventHandled
  <2>1. Minute("UPGRADE_WAIT") \/ Minute("BLOCK_WAIT")
    BY <1>1, EventCases
    DEF ImageBlockWaitExpired, CountdownOver, UpgradeWaitOver, BlockRspTimeout
  <2>2. CASE Minute("UPGRADE_WAIT")
    BY <2>2 DEF Minute, Handles, Taken, MinutePasses
  <2>3. CASE Minute("BLOCK_WAIT")
    <3>1. Taken("BLOCK_WAIT") /\ updateDelay' = updateDelay - 1
      BY <2>3 DEF Minute, Handles, Taken
    <3>2. survived
      BY <1>0, <3>1 DEF Taken
    <3> QED
      BY <3>1, <3>2 DEF MinutePasses
  <2> QED
    BY <2>1, <2>2, <2>3
<1> QED
  BY <1>1
  DEF OtaNext, zclOTA_RequestNextUpdate, AnswerLost, ProcessQueryNextImageRsp,
      WrongVersion, BlockReceived, LastBlockReceived, InvalidImage, WaitForData, Aborted,
      ProcessUpgradeEndRsp, TimerExpires, Stored, timerVars

(* A download that is whole ends with a new offer, the countdown, a server *)
(* that never tells the time, or a timer that outlived it, and with        *)
(* nothing else; the minutes of its countdown pass one by one              *)
(* (zcl_ota.c:462-565, 1397).                                              *)
THEOREM AlwaysDownloadKept == OtaSpec => DownloadKept
<1> DEFINE Kept ==
      /\ upgradeStatus \in Downloaded /\ upgradeStatus' \notin Downloaded => EndsRightly
      /\ upgradeStatus = "COUNTDOWN" /\ updateDelay' # updateDelay => MinutePasses
<1>1. OtaInv /\ [OtaNext]_otaVars => [Kept]_otaVars
  BY EndsOnlyRightly, OnlyMinutesPass
<1> QED
  BY <1>1, OtaInvAlways, PTL DEF OtaSpec, DownloadKept
-----------------------------------------------------------------------------
(* Something leads on.                                                     *)

TimedInv == TimersOK /\ Timed

(* What has been set for a download is taken by no step that leaves the    *)
(* download where it is, unless it sets another.                           *)
LEMMA TimedStays == TimedInv /\ OtaNext => TimedInv'
<1> SUFFICES ASSUME TimedInv, OtaNext PROVE TimersOK' /\ Timed'
  BY DEF TimedInv
<1> USE DEF OtaEvents
<1>0. TimersOK /\ Timed
  BY DEF TimedInv
<1>1. CASE zclOTA_RequestNextUpdate \/ AnswerLost \/ WrongVersion
  BY <1>0, <1>1
  DEF zclOTA_RequestNextUpdate, AnswerLost, WrongVersion, timerVars, TimersOK, Timed
<1>2. CASE ProcessQueryNextImageRsp \/ BlockReceived
  BY <1>0, <1>2 DEF ProcessQueryNextImageRsp, BlockReceived, Stored, TimersOK, Timed
<1>3. CASE LastBlockReceived \/ InvalidImage \/ Aborted
  BY <1>0, <1>3 DEF LastBlockReceived, InvalidImage, Aborted, TimersOK, Timed
<1>4. CASE WaitForData
  BY <1>0, <1>4 DEF WaitForData, TimersOK, Timed
<1>5. CASE ProcessUpgradeEndRsp
  BY <1>0, <1>5 DEF ProcessUpgradeEndRsp, TimersOK, Timed
<1>6. CASE EventHandled
  <2>1. CASE Minute("BLOCK_WAIT") \/ Minute("UPGRADE_WAIT")
    BY <1>0, <2>1 DEF Minute, Handles, TimersOK, Timed
  <2>2. CASE ImageBlockWaitExpired
    BY <1>0, <2>2 DEF ImageBlockWaitExpired, AskForBlock, Handles, TimersOK, Timed
  <2>3. CASE CountdownOver
    BY <1>0, <2>3 DEF CountdownOver, Handles, TimersOK, Timed
  <2>4. CASE UpgradeWaitOver
    BY <1>0, <2>4 DEF UpgradeWaitOver, Handles, TimersOK, Timed
  <2>5. CASE BlockRspTimeout
    BY <1>0, <2>5 DEF BlockRspTimeout, AskForBlock, Handles, TimersOK, Timed
  <2> QED
    BY <1>6, <2>1, <2>2, <2>3, <2>4, <2>5, EventCases
<1>7. CASE \E e \in OtaEvents : TimerExpires(e)
  BY <1>0, <1>7 DEF TimerExpires, TimersOK, Timed
<1> QED
  BY <1>1, <1>2, <1>3, <1>4, <1>5, <1>6, <1>7 DEF OtaNext

(* A download that waits for a block, or for its start, has a timer that   *)
(* leads on, or the event of one (zcl_ota.c:462-519, 1573-1577).           *)
THEOREM AlwaysTimed == OtaSpec => []Timed
<1>1. OtaInit => TimedInv
  BY DEF OtaInit, TimedInv, TimersOK, Timed
<1>2. TimedInv /\ [OtaNext]_otaVars => TimedInv'
  <2>1. TimedInv /\ UNCHANGED otaVars => TimedInv'
    BY DEF TimedInv, TimersOK, Timed, otaVars, timerVars
  <2> QED
    BY <2>1, TimedStays
<1>3. TimedInv => Timed
  BY DEF TimedInv
<1> QED
  BY <1>1, <1>2, <1>3, PTL DEF OtaSpec

-----------------------------------------------------------------------------
(* The binding table.                                                      *)

(* A destination has one record for an end point.                          *)
Unique(recs) ==
  \A x, y \in Slots :
    recs[x] # Empty /\ recs[x].srcEP = recs[y].srcEP /\ recs[x].dst = recs[y].dst
      => x = y

(* What a save has written so far is the table.                            *)
Written ==
  saveNext # Idle => \A x \in Slots : x < saveNext => nv.recs[x] = table[x]

(* The records of a copy that is read are unique, unless power was lost    *)
(* while they were written.                                                *)
KeptUnique ==
  ~torn /\ nv.numRecs > 0 /\ saveNext \notin Slots \ {0} => Unique(nv.recs)

TableUnique == ~torn => Unique(table)

BindInv == BindTypeOK /\ Written /\ TableUnique /\ KeptUnique

-----------------------------------------------------------------------------
(* Every set of numbers that is not empty has a least one.                 *)
LEMMA LeastNumber ==
  ASSUME NEW T, T \subseteq Nat, T # {}
  PROVE  \E x \in T : \A y \in T : x <= y
<1> DEFINE Below == {0 .. t : t \in T}
<1>1. Below \subseteq FiniteSubsetsOf(Nat) /\ Below # {}
  <2>1. \A t \in T : 0 .. t \in FiniteSubsetsOf(Nat)
    BY FS_Interval DEF FiniteSubsetsOf
  <2> QED
    BY <2>1
<1>2. PICK U \in Below : \A V \in Below : ~(<<V, U>> \in StrictSubsetOrdering(Nat))
  <2> HIDE DEF Below
  <2> QED
    BY <1>1, WFMin, FS_StrictSubsetOrderingWellFounded
<1>3. PICK x \in T : U = 0 .. x
  OBVIOUS
<1>4. ASSUME NEW y \in T, y < x PROVE FALSE
  <2>1. <<0 .. y, 0 .. x>> \in StrictSubsetOrdering(Nat)
    BY <1>4 DEF StrictSubsetOrdering
  <2> QED
    BY <1>2, <1>3, <2>1
<1> QED
  BY <1>4

(* The first record of some is one of them.                                *)
LEMMA FirstIsOne ==
  ASSUME NEW S, S \subseteq Slots, S # {}
  PROVE  First(S) \in S
<1>1. S \subseteq Nat
  BY BindingAssumption DEF Slots
<1> QED
  BY <1>1, LeastNumber DEF First

(* The parts of a record.                                                  *)
LEMMA Parts ==
  /\ Empty \in Entries /\ Empty.srcEP = NV_BIND_EMPTY /\ Empty.clusterIdList = {}
  /\ \A e \in Entries :
       e # Empty => /\ e.srcEP \in Endpoints /\ e.srcEP # NV_BIND_EMPTY
                    /\ e.dst \in Dsts
                    /\ e.clusterIdList \in (SUBSET Clusters) \ {{}}
                    /\ e = Entry(e.srcEP, e.dst, e.clusterIdList)
  /\ \A ep \in Endpoints, dst \in Dsts, cs \in (SUBSET Clusters) \ {{}} :
       Entry(ep, dst, cs) \in Entries
<1>1. \A ep, dst, cs : /\ Entry(ep, dst, cs).srcEP = ep
                       /\ Entry(ep, dst, cs).dst = dst
                       /\ Entry(ep, dst, cs).clusterIdList = cs
  BY DEF Entry
<1>2. Empty \in Entries /\ Empty.srcEP = NV_BIND_EMPTY /\ Empty.clusterIdList = {}
  BY <1>1 DEF Entries, Empty
<1>3. ASSUME NEW e \in Entries, e # Empty
      PROVE  /\ e.srcEP \in Endpoints /\ e.srcEP # NV_BIND_EMPTY
             /\ e.dst \in Dsts
             /\ e.clusterIdList \in (SUBSET Clusters) \ {{}}
             /\ e = Entry(e.srcEP, e.dst, e.clusterIdList)
  <2>1. PICK ep \in Endpoints, dst \in Dsts, cs \in (SUBSET Clusters) \ {{}} :
               e = Entry(ep, dst, cs)
    BY <1>3 DEF Entries
  <2> QED
    BY <1>1, <2>1, BindingAssumption
<1> QED
  BY <1>2, <1>3 DEF Entries

(* A list of clusters makes a record.                                      *)
LEMMA IsEntry ==
  ASSUME NEW ep \in Endpoints, NEW dst \in Dsts, NEW cs,
         cs \subseteq Clusters, cs # {}
  PROVE  Entry(ep, dst, cs) \in Entries
<1>1. cs \in (SUBSET Clusters) \ {{}}
  OBVIOUS
<1> QED
  BY <1>1 DEF Entries

(* The binding b is in the records recs.                                   *)
Has(recs, b) ==
  \E x \in Slots : recs[x].srcEP = b.srcEP /\ recs[x].dst = b.dst
                     /\ b.cluster \in recs[x].clusterIdList

(* The bindings of some records are those that one of them has.            *)
LEMMA BoundByHas ==
  ASSUME NEW recs \in [Slots -> Entries]
  PROVE  BoundBy(recs) = {b \in AllBindings : Has(recs, b)}
<1> DEFINE B(x) == {[srcEP |-> recs[x].srcEP, dst |-> recs[x].dst, cluster |-> c] :
                      c \in recs[x].clusterIdList}
<1>1. ASSUME NEW b, b \in BoundBy(recs) PROVE b \in AllBindings /\ Has(recs, b)
  <2>1. PICK x \in Slots : b \in B(x)
    BY <1>1 DEF BoundBy
  <2>2. PICK c \in recs[x].clusterIdList :
               b = [srcEP |-> recs[x].srcEP, dst |-> recs[x].dst, cluster |-> c]
    BY <2>1
  <2>3. recs[x] \in Entries /\ recs[x] # Empty
    BY <2>2, Parts
  <2>4. recs[x].srcEP \in Endpoints /\ recs[x].dst \in Dsts /\ c \in Clusters
    BY <2>2, <2>3, Parts
  <2> QED
    BY <2>2, <2>4 DEF AllBindings, Has
<1>2. ASSUME NEW b \in AllBindings, Has(recs, b) PROVE b \in BoundBy(recs)
  <2>1. PICK x \in Slots : /\ recs[x].srcEP = b.srcEP /\ recs[x].dst = b.dst
                           /\ b.cluster \in recs[x].clusterIdList
    BY <1>2 DEF Has
  <2>2. b = [srcEP |-> recs[x].srcEP, dst |-> recs[x].dst, cluster |-> b.cluster]
    BY <2>1 DEF AllBindings
  <2>3. b \in B(x)
    BY <2>1, <2>2
  <2> QED
    BY <2>3 DEF BoundBy
<1> QED
  BY <1>1, <1>2

(* Records that hold the same, but for one binding.                        *)
LEMMA BoundByAdds ==
  ASSUME NEW r \in [Slots -> Entries], NEW s \in [Slots -> Entries],
         NEW b \in AllBindings,
         \A o \in AllBindings : Has(s, o) <=> Has(r, o) \/ o = b
  PROVE  BoundBy(s) = BoundBy(r) \cup {b}
BY BoundByHas

LEMMA BoundByDrops ==
  ASSUME NEW r \in [Slots -> Entries], NEW s \in [Slots -> Entries],
         NEW b \in AllBindings,
         \A o \in AllBindings : Has(s, o) <=> Has(r, o) /\ o # b
  PROVE  BoundBy(s) = BoundBy(r) \ {b}
BY BoundByHas

LEMMA BoundBySame ==
  ASSUME NEW r \in [Slots -> Entries], NEW s \in [Slots -> Entries],
         \A o \in AllBindings : Has(s, o) <=> Has(r, o)
  PROVE  BoundBy(s) = BoundBy(r)
BY BoundByHas

Put(r, x, e) == [r EXCEPT ![x] = e]
TheBinding(ep, dst, c) == [srcEP |-> ep, dst |-> dst, cluster |-> c]

(* A cluster is put into record x, which is empty or that of ep and dst.   *)
LEMMA PutOne ==
  ASSUME NEW r \in [Slots -> Entries], NEW x \in Slots,
         NEW ep \in Endpoints, NEW dst \in Dsts, NEW c \in Clusters,
         r[x] = Empty \/ (r[x].srcEP = ep /\ r[x].dst = dst)
  PROVE  LET s == Put(r, x, Entry(ep, dst, r[x].clusterIdList \cup {c}))
         IN  /\ s \in [Slots -> Entries]
             /\ BoundBy(s) = BoundBy(r) \cup {TheBinding(ep, dst, c)}
<1> DEFINE cs == r[x].clusterIdList
           s == Put(r, x, Entry(ep, dst, cs \cup {c}))
           b == TheBinding(ep, dst, c)
<1>0. cs \subseteq Clusters
  BY Parts
<1> HIDE DEF cs
<1>1. Entry(ep, dst, cs \cup {c}) \in Entries
  <2>1. cs \cup {c} \subseteq Clusters /\ cs \cup {c} # {}
    BY <1>0
  <2> QED
    BY <2>1, IsEntry
<1>2. s \in [Slots -> Entries] /\ b \in AllBindings
  BY <1>1 DEF TheBinding, AllBindings, Put
<1>3. /\ s[x].srcEP = ep /\ s[x].dst = dst /\ s[x].clusterIdList = cs \cup {c}
      /\ \A y \in Slots : y # x => s[y] = r[y]
  BY DEF Entry, Put
<1>4. /\ r[x].clusterIdList = {} \/ (r[x].srcEP = ep /\ r[x].dst = dst)
      /\ r[x].clusterIdList = cs
  BY Parts DEF cs
<1>5. b.srcEP = ep /\ b.dst = dst /\ b.cluster = c
  BY DEF TheBinding
<1>6. ASSUME NEW o \in AllBindings PROVE Has(s, o) <=> Has(r, o) \/ o = b
  <2>1. o = b <=> o.srcEP = ep /\ o.dst = dst /\ o.cluster = c
    BY DEF TheBinding, AllBindings
  <2> HIDE DEF s, b
  <2>2. ASSUME Has(s, o) PROVE Has(r, o) \/ o = b
    <3>1. PICK y \in Slots : /\ s[y].srcEP = o.srcEP /\ s[y].dst = o.dst
                             /\ o.cluster \in s[y].clusterIdList
      BY <2>2 DEF Has
    <3>2. CASE y = x /\ o.cluster # c
      <4>1. o.cluster \in r[x].clusterIdList /\ r[x].srcEP = o.srcEP /\ r[x].dst = o.dst
        BY <1>3, <1>4, <3>1, <3>2
      <4> QED
        BY <4>1 DEF Has
    <3> QED
      BY <1>3, <2>1, <3>1, <3>2 DEF Has
  <2>3. ASSUME Has(r, o) PROVE Has(s, o)
    <3>1. PICK y \in Slots : /\ r[y].srcEP = o.srcEP /\ r[y].dst = o.dst
                             /\ o.cluster \in r[y].clusterIdList
      BY <2>3 DEF Has
    <3>2. /\ s[y].srcEP = o.srcEP /\ s[y].dst = o.dst
          /\ o.cluster \in s[y].clusterIdList
      BY <1>3, <1>4, <3>1
    <3> QED
      BY <3>2 DEF Has
  <2>4. ASSUME o = b PROVE Has(s, o)
    BY <1>3, <1>5, <2>4 DEF Has
  <2> QED
    BY <2>2, <2>3, <2>4
<1> HIDE DEF s, b
<1>7. BoundBy(s) = BoundBy(r) \cup {b}
  BY <1>2, <1>6, BoundByAdds
<1> QED
  BY <1>2, <1>7 DEF s, b, cs

(* A cluster is taken out of record x, of ep and dst.                      *)
LEMMA TakeOne ==
  ASSUME NEW r \in [Slots -> Entries], NEW x \in Slots,
         NEW ep \in Endpoints, NEW dst \in Dsts, NEW c \in Clusters,
         r[x].srcEP = ep, r[x].dst = dst, c \in r[x].clusterIdList
  PROVE  LET s == Put(r, x, Without(r[x], c))
             b == TheBinding(ep, dst, c)
         IN  /\ s \in [Slots -> Entries]
             /\ b \in BoundBy(r)
             /\ BoundBy(s) = BoundBy(r) \ {b} \/ BoundBy(s) = BoundBy(r)
             /\ Unique(r) => BoundBy(s) = BoundBy(r) \ {b}
<1> DEFINE s == Put(r, x, Without(r[x], c))
           b == TheBinding(ep, dst, c)
           left == r[x].clusterIdList \ {c}
<1>1. r[x] \in Entries /\ r[x] # Empty /\ left \in SUBSET Clusters
  BY Parts
<1>2. /\ Without(r[x], c) \in Entries
      /\ Without(r[x], c).clusterIdList = left
      /\ left # {} => Without(r[x], c) = Entry(ep, dst, left)
  <2>1. CASE left = {}
    <3>1. r[x].clusterIdList \subseteq {c}
      BY <2>1
    <3> QED
      BY <2>1, <3>1, Parts DEF Without
  <2>2. CASE left # {}
    <3>1. ~(r[x].clusterIdList \subseteq {c})
      BY <2>2
    <3>2. Without(r[x], c) = Entry(ep, dst, left)
      BY <3>1 DEF Without
    <3>3. Entry(ep, dst, left) \in Entries
      BY <1>1, <2>2, IsEntry
    <3> QED
      BY <2>2, <3>2, <3>3 DEF Entry
  <2> QED
    BY <2>1, <2>2
<1>3. s \in [Slots -> Entries] /\ b \in AllBindings
  BY <1>2 DEF TheBinding, AllBindings, Put
<1>4. /\ s[x].clusterIdList = left
      /\ left # {} => s[x].srcEP = ep /\ s[x].dst = dst
      /\ \A y \in Slots : y # x => s[y] = r[y]
  BY <1>2 DEF Entry, Put
<1>5. b.srcEP = ep /\ b.dst = dst /\ b.cluster = c
  BY DEF TheBinding
<1>6. b \in BoundBy(r)
  BY <1>3, <1>5, BoundByHas DEF Has
<1>7. ASSUME NEW o \in AllBindings, o # b PROVE Has(s, o) <=> Has(r, o)
  <2>1. o = b <=> o.srcEP = ep /\ o.dst = dst /\ o.cluster = c
    BY DEF TheBinding, AllBindings
  <2>2. left = r[x].clusterIdList \ {c}
    OBVIOUS
  <2> HIDE DEF s, b, left
  <2>3. ASSUME Has(s, o) PROVE Has(r, o)
    <3>1. PICK y \in Slots : /\ s[y].srcEP = o.srcEP /\ s[y].dst = o.dst
                             /\ o.cluster \in s[y].clusterIdList
      BY <2>3 DEF Has
    <3>2. /\ r[y].srcEP = o.srcEP /\ r[y].dst = o.dst
          /\ o.cluster \in r[y].clusterIdList
      BY <1>4, <2>2, <3>1
    <3> QED
      BY <3>2 DEF Has
  <2>4. ASSUME Has(r, o) PROVE Has(s, o)
    <3>1. PICK y \in Slots : /\ r[y].srcEP = o.srcEP /\ r[y].dst = o.dst
                             /\ o.cluster \in r[y].clusterIdList
      BY <2>4 DEF Has
    <3>2. CASE y = x
      <4>1. o.cluster # c
        BY <1>7, <2>1, <3>1, <3>2
      <4>2. o.cluster \in left
        BY <2>2, <3>1, <3>2, <4>1
      <4>3. s[x].srcEP = o.srcEP /\ s[x].dst = o.dst
        BY <1>4, <3>1, <3>2, <4>2
      <4> QED
        BY <1>4, <4>2, <4>3 DEF Has
    <3>3. CASE y # x
      <4>1. s[y] = r[y]
        BY <1>4, <3>3
      <4> QED
        BY <3>1, <4>1 DEF Has
    <3> QED
      BY <3>2, <3>3
  <2> QED
    BY <2>3, <2>4
<1>8. Unique(r) => ~Has(s, b)
  <2> SUFFICES ASSUME Unique(r), Has(s, b) PROVE FALSE
    OBVIOUS
  <2> HIDE DEF s, b
  <2>1. PICK y \in Slots : /\ s[y].srcEP = b.srcEP /\ s[y].dst = b.dst
                           /\ b.cluster \in s[y].clusterIdList
    BY DEF Has
  <2>2. y # x
    BY <1>4, <1>5, <2>1
  <2>3. r[y] = s[y]
    BY <1>4, <2>2
  <2>4. r[x].srcEP = r[y].srcEP /\ r[x].dst = r[y].dst
    BY <1>5, <2>1, <2>3
  <2> QED
    BY <1>1, <2>2, <2>4 DEF Unique
<1> HIDE DEF s, b
<1>9. Has(r, b)
  BY <1>3, <1>6, BoundByHas
<1>10. CASE Has(s, b)
  <2>1. \A o \in AllBindings : Has(s, o) <=> Has(r, o)
    BY <1>7, <1>9, <1>10
  <2>2. BoundBy(s) = BoundBy(r)
    BY <1>3, <2>1, BoundBySame
  <2> QED
    BY <1>3, <1>6, <1>8, <1>10, <2>2 DEF s, b
<1>11. CASE ~Has(s, b)
  <2>1. \A o \in AllBindings : Has(s, o) <=> Has(r, o) /\ o # b
    BY <1>7, <1>11
  <2>2. s \in [Slots -> Entries] /\ b \in AllBindings
    BY <1>3
  <2>3. BoundBy(s) = BoundBy(r) \ {b}
    BY <2>1, <2>2, BoundByDrops
  <2> QED
    BY <1>3, <1>6, <2>3 DEF s, b
<1> QED
  BY <1>10, <1>11

-----------------------------------------------------------------------------
(* The invariant.                                                          *)

(* What a request does to the table when it puts a cluster in.             *)
LEMMA Adding ==
  ASSUME BindTypeOK, NEW ep \in Endpoints, NEW dst \in Dsts, NEW c \in Clusters,
         bindAddEntry(ep, dst, c)
  PROVE  LET b == TheBinding(ep, dst, c) IN
         /\ table' \in [Slots -> Entries]
         /\ \/ bindStat' = "SUCCESS" /\ BoundBy(table') = BoundBy(table) \cup {b}
            \/ /\ bindStat' = "TABLE_FULL" /\ table' = table
               /\ Unique(table) => b \notin BoundBy(table)
         /\ Unique(table) => Unique(table')
<1> DEFINE old == bindFindExisting(ep, dst)
           S == IF old # {} THEN old ELSE bindFindEmpty
           x == First(S)
           cs == table[x].clusterIdList
           b == TheBinding(ep, dst, c)
<1>0. table \in [Slots -> Entries]
  BY DEF BindTypeOK
<1>1. S \subseteq Slots
  BY DEF bindFindExisting, bindFindEmpty
<1>2. old # {} => x \in old
  BY <1>1, FirstIsOne
<1>3. old = {} /\ S # {} => x \in bindFindEmpty
  BY <1>1, FirstIsOne
<1>4. \A y \in Slots : y \in old <=> table[y].srcEP = ep /\ table[y].dst = dst
  BY DEF bindFindExisting
<1>5. \A y \in bindFindEmpty : y \in Slots /\ table[y] = Empty
  BY <1>0, Parts DEF bindFindEmpty
<1>6. ep # NV_BIND_EMPTY
  BY BindingAssumption
<1>7. \A y \in old : y \in Slots /\ table[y] \in Entries /\ table[y] # Empty
                      /\ table[y] = Entry(ep, dst, table[y].clusterIdList)
  BY <1>0, <1>4, <1>6, Parts DEF bindFindExisting
<1>8. bindAddEntry(ep, dst, c) <=>
        IF /\ old \cup bindFindEmpty # {}
           /\ c \in cs \/ Cardinality(cs) < gMAX_BINDING_CLUSTER_IDS
        THEN /\ bindStat' = "SUCCESS"
             /\ table' = [table EXCEPT ![x] = Entry(ep, dst, cs \cup {c})]
        ELSE bindStat' = "TABLE_FULL" /\ UNCHANGED table
  BY DEF bindAddEntry
<1>9. old \cup bindFindEmpty # {} <=> S # {}
  OBVIOUS
<1>10. S # {} => /\ x \in Slots
                 /\ table[x] = Empty \/ (table[x].srcEP = ep /\ table[x].dst = dst)
  <2>1. CASE old # {}
    BY <1>1, <1>2, <1>4, <2>1
  <2>2. CASE old = {}
    BY <1>3, <1>5, <2>2
  <2> QED
    BY <2>1, <2>2
<1>11. cs = table[x].clusterIdList /\ (old # {} => x \in old)
  BY <1>2
<1> HIDE DEF x, cs, S, old
<1>13. CASE S # {} /\ (c \in cs \/ Cardinality(cs) < gMAX_BINDING_CLUSTER_IDS)
  <2>1. /\ bindStat' = "SUCCESS"
        /\ table' = [table EXCEPT ![x] = Entry(ep, dst, cs \cup {c})]
    BY <1>8, <1>9, <1>13
  <2>2. /\ table' \in [Slots -> Entries]
        /\ BoundBy(table') = BoundBy(table) \cup {b}
    <3>1. table' = Put(table, x, Entry(ep, dst, table[x].clusterIdList \cup {c}))
      BY <1>11, <2>1 DEF Put
    <3>2. LET s == Put(table, x, Entry(ep, dst, table[x].clusterIdList \cup {c}))
          IN  /\ s \in [Slots -> Entries]
              /\ BoundBy(s) = BoundBy(table) \cup {b}
      BY <1>0, <1>10, <1>13, PutOne
    <3> QED
      BY <3>1, <3>2, Zenon
  <2>3. ASSUME Unique(table) PROVE Unique(table')
    <3>1. /\ x \in Slots /\ table'[x].srcEP = ep /\ table'[x].dst = dst
          /\ \A y \in Slots : y # x => table'[y] = table[y]
      BY <1>0, <1>10, <1>13, <2>1 DEF Entry
    <3>2. \A y \in Slots : y # x => ~(table[y].srcEP = ep /\ table[y].dst = dst)
      <4>1. CASE old # {}
        <5>1. \A y \in old : y = x
          BY <1>4, <1>7, <1>11, <2>3, <4>1 DEF Unique
        <5> QED
          BY <1>4, <5>1
      <4>2. CASE old = {}
        BY <1>4, <4>2
      <4> QED
        BY <4>1, <4>2
    <3> QED
      BY <2>3, <3>1, <3>2 DEF Unique
  <2> QED
    BY <2>1, <2>2, <2>3
<1>14. CASE ~(S # {} /\ (c \in cs \/ Cardinality(cs) < gMAX_BINDING_CLUSTER_IDS))
  <2>1. bindStat' = "TABLE_FULL" /\ table' = table
    BY <1>8, <1>9, <1>14
  <2>2. ASSUME Unique(table), b \in BoundBy(table) PROVE FALSE
    <3>1. b.srcEP = ep /\ b.dst = dst /\ b.cluster = c
      BY DEF TheBinding
    <3> HIDE DEF b
    <3>2. Has(table, b)
      BY <1>0, <2>2, BoundByHas
    <3>3. PICK y \in Slots : /\ table[y].srcEP = ep /\ table[y].dst = dst
                             /\ c \in table[y].clusterIdList
      BY <3>1, <3>2 DEF Has
    <3>4. y \in old /\ x \in old
      BY <1>4, <1>11, <3>3
    <3>5. y = x
      BY <1>4, <1>7, <2>2, <3>4 DEF Unique
    <3>6. c \in cs
      BY <1>11, <3>3, <3>4, <3>5
    <3>7. S # {}
      BY <1>9, <3>4
    <3> QED
      BY <1>14, <3>6, <3>7
  <2> QED
    BY <1>0, <2>1, <2>2
<1> QED
  BY <1>13, <1>14

(* What a request does to the table when it takes a cluster out.           *)
LEMMA Removing ==
  ASSUME BindTypeOK, NEW ep \in Endpoints, NEW dst \in Dsts, NEW c \in Clusters,
         Unbind_req(ep, dst, c)
  PROVE  LET b == TheBinding(ep, dst, c) IN
         /\ table' \in [Slots -> Entries]
         /\ \/ /\ bindStat' = "SUCCESS" /\ b \in BoundBy(table)
               /\ \/ BoundBy(table') = BoundBy(table) \ {b}
                  \/ ~Unique(table) /\ BoundBy(table') = BoundBy(table)
            \/ /\ bindStat' = "NO_ENTRY" /\ table' = table
               /\ Unique(table) => b \notin BoundBy(table)
         /\ Unique(table) => Unique(table')
<1> DEFINE old == bindFindExisting(ep, dst)
           x == First(old)
           b == TheBinding(ep, dst, c)
<1>0. table \in [Slots -> Entries]
  BY DEF BindTypeOK
<1>1. old \subseteq Slots /\ (old # {} => x \in old)
  BY FirstIsOne DEF bindFindExisting
<1>2. \A y \in Slots : y \in old <=> table[y].srcEP = ep /\ table[y].dst = dst
  BY DEF bindFindExisting
<1>3. IF old # {} /\ c \in table[x].clusterIdList
      THEN /\ bindStat' = "SUCCESS"
           /\ table' = [table EXCEPT ![x] = Without(@, c)]
      ELSE bindStat' = "NO_ENTRY" /\ UNCHANGED table
  BY DEF Unbind_req
<1>4. ep # NV_BIND_EMPTY
  BY BindingAssumption
<1> HIDE DEF x, old
<1>5. \A y \in old : table[y] # Empty
  BY <1>1, <1>2, <1>4, Parts
<1>6. CASE old # {} /\ c \in table[x].clusterIdList
  <2>1. /\ bindStat' = "SUCCESS" /\ x \in Slots
        /\ table' = [table EXCEPT ![x] = Without(@, c)]
        /\ table[x].srcEP = ep /\ table[x].dst = dst /\ c \in table[x].clusterIdList
    BY <1>1, <1>2, <1>3, <1>6
  <2>2. /\ table' \in [Slots -> Entries]
        /\ b \in BoundBy(table)
        /\ BoundBy(table') = BoundBy(table) \ {b} \/ BoundBy(table') = BoundBy(table)
        /\ Unique(table) => BoundBy(table') = BoundBy(table) \ {b}
    <3>1. table' = Put(table, x, Without(table[x], c))
      BY <2>1 DEF Put
    <3>2. LET s == Put(table, x, Without(table[x], c))
          IN  /\ s \in [Slots -> Entries]
              /\ b \in BoundBy(table)
              /\ BoundBy(s) = BoundBy(table) \ {b} \/ BoundBy(s) = BoundBy(table)
              /\ Unique(table) => BoundBy(s) = BoundBy(table) \ {b}
      BY <1>0, <2>1, TakeOne
    <3> QED
      BY <3>1, <3>2, Zenon
  <2>3. ASSUME Unique(table) PROVE Unique(table')
    <3>1. \A y \in Slots : y # x => table'[y] = table[y]
      BY <1>0, <2>1
    <3>2. table'[x] = Empty \/ (table'[x].srcEP = ep /\ table'[x].dst = dst)
      BY <1>0, <2>1 DEF Without, Entry
    <3>3. \A y \in Slots : table'[y] # Empty =>
            table[y] # Empty /\ table'[y].srcEP = table[y].srcEP
                             /\ table'[y].dst = table[y].dst
      BY <1>1, <1>5, <1>6, <2>1, <3>1, <3>2
    <3>4. \A y, z \in Slots : table'[y] # Empty /\ table'[y].srcEP = table'[z].srcEP
                               => table'[z] # Empty
      BY <2>2, Parts
    <3> QED
      BY <2>3, <3>3, <3>4 DEF Unique
  <2> QED
    BY <2>1, <2>2, <2>3
<1>7. CASE ~(old # {} /\ c \in table[x].clusterIdList)
  <2>1. bindStat' = "NO_ENTRY" /\ table' = table
    BY <1>3, <1>7
  <2>2. ASSUME Unique(table), b \in BoundBy(table) PROVE FALSE
    <3>1. b.srcEP = ep /\ b.dst = dst /\ b.cluster = c
      BY DEF TheBinding
    <3> HIDE DEF b
    <3>2. Has(table, b)
      BY <1>0, <2>2, BoundByHas
    <3>3. PICK y \in Slots : /\ table[y].srcEP = ep /\ table[y].dst = dst
                             /\ c \in table[y].clusterIdList
      BY <3>1, <3>2 DEF Has
    <3>4. y \in old /\ x \in old
      BY <1>1, <1>2, <3>3
    <3>5. y = x
      BY <1>1, <1>2, <1>5, <2>2, <3>4 DEF Unique
    <3> QED
      BY <1>7, <3>3, <3>4, <3>5
  <2> QED
    BY <1>0, <2>1, <2>2
<1> QED
  BY <1>6, <1>7

(* The records of a device that left.                                      *)
LEMMA Leaving ==
  ASSUME BindTypeOK, NEW d \in Devices, bindRemoveDev(d)
  PROVE  /\ table' \in [Slots -> Entries]
         /\ BoundBy(table') = BoundBy(table) \ {b \in AllBindings : OfDev(b.dst, d)}
         /\ Unique(table) => Unique(table')
<1>0. table \in [Slots -> Entries]
  BY DEF BindTypeOK
<1>1. table' = [x \in Slots |-> IF OfDev(table[x].dst, d) THEN Empty ELSE table[x]]
  BY DEF bindRemoveDev
<1>2. table' \in [Slots -> Entries]
  BY <1>0, <1>1, Parts
<1>3. \A x \in Slots : table'[x] = IF OfDev(table[x].dst, d) THEN Empty ELSE table[x]
  BY <1>1
<1>4. ASSUME NEW b \in AllBindings
      PROVE  Has(table', b) <=> Has(table, b) /\ ~OfDev(b.dst, d)
  BY <1>3, Parts DEF Has
<1>5. BoundBy(table') = BoundBy(table) \ {b \in AllBindings : OfDev(b.dst, d)}
  BY <1>0, <1>2, <1>4, BoundByHas
<1>6. ASSUME Unique(table) PROVE Unique(table')
  <2>1. \A x \in Slots : table'[x] # Empty => table'[x] = table[x]
    BY <1>3
  <2>2. \A x, y \in Slots : table'[x] # Empty /\ table'[x].srcEP = table'[y].srcEP
                             => table'[y] # Empty
    BY <1>2, Parts
  <2> QED
    BY <1>6, <2>1, <2>2 DEF Unique
<1> QED
  BY <1>2, <1>5, <1>6

(* Nothing is bound by an empty table.                                     *)
LEMMA NothingBound ==
  /\ NoEntries \in [Slots -> Entries] /\ BoundBy(NoEntries) = {} /\ Unique(NoEntries)
<1>1. NoEntries \in [Slots -> Entries] /\ \A x \in Slots : NoEntries[x] = Empty
  BY Parts DEF NoEntries
<1>2. \A b \in AllBindings : ~Has(NoEntries, b)
  BY <1>1, Parts DEF Has
<1> QED
  BY <1>1, <1>2, BoundByHas DEF Unique

Kept == BindRestoreFromNV

(* What a restart would read.                                              *)
LEMMA KeptType ==
  ASSUME BindTypeOK
  PROVE  /\ Kept \in [Slots -> Entries]
         /\ nv.numRecs > 0 => Kept = nv.recs
         /\ ~(nv.numRecs > 0) => Kept = NoEntries
BY NothingBound DEF BindTypeOK, Kept, BindRestoreFromNV

(* A step between two records that saves nothing.                          *)
LEMMA RequestKeeps ==
  ASSUME BindInv, saveNext = Idle, UNCHANGED <<nv, saveNext, torn>>,
         table' \in [Slots -> Entries], saveDue' \in BOOLEAN, saveMissed' \in BOOLEAN,
         bindStat' \in {"none", "SUCCESS", "TABLE_FULL", "NO_ENTRY", "NOT_SUPPORTED",
                       "INVALID_EP"},
         Unique(table) => Unique(table')
  PROVE  BindInv'
BY DEF BindInv, BindTypeOK, Written, TableUnique, KeptUnique, Unique

(* The save has written all records: the copy that is read is the table.   *)
LEMMA AllWritten ==
  ASSUME BindTypeOK, Written, saveNext = Header,
         nv' = [nv EXCEPT !.numRecs = Cardinality(Used(table))]
  PROVE  /\ nv'.numRecs \in Nat /\ nv'.recs = nv.recs /\ nv.recs = table
         /\ IF nv'.numRecs > 0 THEN nv'.recs = table ELSE table = NoEntries
<1>1. \A x \in Slots : x < Header /\ Header # Idle
  BY BindingAssumption DEF Slots, Header, Idle
<1>2. nv.recs = table
  <2>1. \A x \in Slots : nv.recs[x] = table[x]
    BY <1>1 DEF Written
  <2>2. nv.recs \in [Slots -> Entries] /\ table \in [Slots -> Entries]
    BY DEF BindTypeOK
  <2> QED
    BY <2>1, <2>2
<1>3. nv'.numRecs = Cardinality(Used(table)) /\ nv'.recs = nv.recs
  BY DEF BindTypeOK
<1>4. IsFiniteSet(Used(table))
  <2>1. IsFiniteSet(Slots)
    <3>1. 0 \in Int /\ gNWK_MAX_BINDING_ENTRIES - 1 \in Int
      BY BindingAssumption
    <3> QED
      BY <3>1, FS_Interval DEF Slots
  <2>2. Used(table) \subseteq Slots
    BY DEF Used
  <2> QED
    BY <2>1, <2>2, FS_Subset
<1>5. nv'.numRecs \in Nat
  BY <1>3, <1>4, FS_CardinalityType
<1>6. ASSUME ~(nv'.numRecs > 0) PROVE table = NoEntries
  <2>1. Cardinality(Used(table)) = 0
    BY <1>3, <1>5, <1>6
  <2>2. Used(table) = {}
    BY <1>4, <2>1, FS_EmptySet
  <2>3. \A x \in Slots : table[x] = Empty
    BY <2>2, Parts DEF Used, BindTypeOK
  <2> QED
    BY <2>3 DEF BindTypeOK, NoEntries
<1> QED
  BY <1>2, <1>3, <1>5, <1>6

(* Every step keeps the invariant.                                         *)
LEMMA BindInvStays == BindInv /\ BindNext => BindInv'
<1> SUFFICES ASSUME BindInv, BindNext PROVE BindInv'
  OBVIOUS
<1>0. BindTypeOK /\ table \in [Slots -> Entries]
  BY DEF BindInv, BindTypeOK
<1>1. ASSUME NEW ep \in Endpoints, NEW dst \in Dsts, NEW c \in Clusters,
             Bind_req(ep, dst, c)
      PROVE  BindInv'
  <2>1. /\ saveNext = Idle /\ UNCHANGED <<nv, saveNext, torn>>
        /\ saveDue' \in BOOLEAN /\ saveMissed' \in BOOLEAN
    BY <1>0, <1>1 DEF Bind_req, UpdateIf, ZDApp_NVUpdate, BindTypeOK
  <2>2. /\ table' \in [Slots -> Entries] /\ bindStat' \in {"SUCCESS", "TABLE_FULL"}
        /\ Unique(table) => Unique(table')
    <3>1. CASE bindAddEntry(ep, dst, c)
      BY <1>0, <3>1, Adding
    <3>2. CASE bindStat' = "TABLE_FULL" /\ UNCHANGED table
      BY <1>0, <3>2
    <3> QED
      BY <1>1, <3>1, <3>2 DEF Bind_req
  <2> QED
    BY <2>1, <2>2, RequestKeeps
<1>2. ASSUME NEW ep \in Endpoints, NEW dst \in Dsts, NEW c \in Clusters,
             Unbind_req(ep, dst, c)
      PROVE  BindInv'
  <2>1. /\ saveNext = Idle /\ UNCHANGED <<nv, saveNext, torn>>
        /\ saveDue' \in BOOLEAN /\ saveMissed' \in BOOLEAN
    BY <1>0, <1>2 DEF Unbind_req, UpdateIf, ZDApp_NVUpdate, BindTypeOK
  <2>2. /\ table' \in [Slots -> Entries] /\ bindStat' \in {"SUCCESS", "NO_ENTRY"}
        /\ Unique(table) => Unique(table')
    BY <1>0, <1>2, Removing
  <2> QED
    BY <2>1, <2>2, RequestKeeps
<1>3. ASSUME NEW d \in Devices, ZDApp_LeaveUpdate(d) PROVE BindInv'
  <2>1. /\ saveNext = Idle /\ UNCHANGED <<nv, saveNext, torn>>
        /\ saveDue' \in BOOLEAN /\ saveMissed' \in BOOLEAN /\ bindStat' = "none"
    BY <1>0, <1>3 DEF ZDApp_LeaveUpdate, ZDApp_NVUpdate, BindTypeOK
  <2>2. table' \in [Slots -> Entries] /\ (Unique(table) => Unique(table'))
    BY <1>0, <1>3, Leaving DEF ZDApp_LeaveUpdate
  <2> QED
    BY <2>1, <2>2, RequestKeeps
<1>4. CASE RefusedReq
  <2>1. /\ saveNext = Idle /\ UNCHANGED <<nv, saveNext, torn, table>>
        /\ saveDue' \in BOOLEAN /\ saveMissed' \in BOOLEAN
        /\ bindStat' \in {"NOT_SUPPORTED", "INVALID_EP"}
    BY <1>0, <1>4 DEF RefusedReq, BindTypeOK
  <2> QED
    BY <1>0, <2>1, RequestKeeps
<1>5. CASE ZDApp_NwkStateUpdateCB
  <2>1. /\ saveNext = Idle /\ UNCHANGED <<nv, saveNext, torn, table>>
        /\ saveDue' \in BOOLEAN /\ saveMissed' \in BOOLEAN /\ bindStat' = "none"
    BY <1>0, <1>5 DEF ZDApp_NwkStateUpdateCB, ZDApp_NVUpdate, BindTypeOK
  <2> QED
    BY <1>0, <2>1, RequestKeeps
<1>6. CASE ZDApp_SaveNetworkStateEvt
  <2>1. /\ saveNext' = 0 /\ 0 \in 0 .. Idle /\ \A x \in Slots : ~(x < 0)
        /\ Idle \notin Slots \ {0} /\ saveNext = Idle
    BY <1>6, BindingAssumption DEF ZDApp_SaveNetworkStateEvt, Slots, Idle
  <2> QED
    BY <1>6, <2>1, ZenonT(60) DEF ZDApp_SaveNetworkStateEvt, BindInv, BindTypeOK, Written,
                      TableUnique, KeptUnique, Unique
<1>7. CASE BindWriteNV
  <2>1. /\ saveNext \in 0 .. Header /\ saveNext' = saveNext + 1
        /\ saveNext + 1 \in 0 .. Idle
        /\ UNCHANGED <<table, saveDue, bindStat, saveMissed, torn>>
    BY <1>0, <1>7, BindingAssumption DEF BindWriteNV, BindTypeOK, Idle, Header
  <2>2. CASE saveNext = Header
    <3>1. nv' = [nv EXCEPT !.numRecs = Cardinality(Used(table))]
      BY <1>7, <2>2 DEF BindWriteNV
    <3>2. nv'.numRecs \in Nat /\ nv'.recs = nv.recs /\ nv.recs = table
      BY <1>0, <2>2, <3>1, AllWritten DEF BindInv
    <3>3. nv' \in [numRecs : Nat, recs : [Slots -> Entries]]
      BY <1>0, <3>1, <3>2 DEF BindTypeOK
    <3>4. saveNext' = Idle
      BY <2>1, <2>2 DEF Header, Idle
    <3>5. BindTypeOK' /\ Written' /\ TableUnique'
      BY <2>1, <3>3, <3>4
         DEF BindInv, BindTypeOK, Written, TableUnique, Unique
    <3>6. KeptUnique'
      BY <2>1, <3>2 DEF BindInv, TableUnique, KeptUnique, Unique
    <3> QED
      BY <3>5, <3>6 DEF BindInv
  <2>3. CASE saveNext # Header
    <3>1. saveNext \in Slots /\ nv' = [nv EXCEPT !.recs[saveNext] = table[saveNext]]
      BY <1>7, <2>1, <2>3, BindingAssumption DEF BindWriteNV, Slots, Header
    <3>2. /\ nv'.numRecs = nv.numRecs
          /\ nv'.recs = [nv.recs EXCEPT ![saveNext] = table[saveNext]]
          /\ nv' \in [numRecs : Nat, recs : [Slots -> Entries]]
      BY <1>0, <3>1 DEF BindTypeOK
    <3>3. BindTypeOK' /\ TableUnique'
      BY <2>1, <3>2 DEF BindInv, BindTypeOK, TableUnique, Unique
    <3>4. Written'
      <4>1. nv.recs \in [Slots -> Entries]
        BY <1>0 DEF BindTypeOK
      <4>2. \A x \in Slots : x < saveNext + 1 => x < saveNext \/ x = saveNext
        BY <2>1 DEF Slots
      <4>3. saveNext # Idle
        BY <1>7 DEF BindWriteNV
      <4>4. \A x \in Slots : x < saveNext + 1 => nv'.recs[x] = table[x]
        BY <3>1, <3>2, <4>1, <4>2, <4>3 DEF BindInv, Written
      <4> QED
        BY <2>1, <4>4 DEF Written
    <3>5. KeptUnique'
      <4>1. CASE saveNext' \in Slots \ {0}
        BY <4>1 DEF KeptUnique
      <4>2. CASE saveNext' \notin Slots \ {0}
        <5>1. \A x \in Slots : x < saveNext + 1
          BY <2>1, <3>1, <4>2, BindingAssumption DEF Slots
        <5>2. \A x \in Slots : nv'.recs[x] = table[x]
          <6>1. saveNext + 1 # Idle
            BY <2>1, <2>3, BindingAssumption DEF Header, Idle
          <6> QED
            BY <2>1, <3>4, <5>1, <6>1 DEF Written
        <5>3. nv'.recs = table
          BY <1>0, <3>2, <5>2
        <5> QED
          BY <2>1, <5>3 DEF BindInv, TableUnique, KeptUnique, Unique
      <4> QED
        BY <4>1, <4>2
    <3> QED
      BY <3>3, <3>4, <3>5 DEF BindInv
  <2> QED
    BY <2>2, <2>3
<1>8. CASE Restart
  <2>1. table' = Kept /\ Kept \in [Slots -> Entries] /\ UNCHANGED nv
    BY <1>0, <1>8, KeptType DEF Restart, Kept
  <2>2. /\ saveNext' = Idle /\ Idle \in 0 .. Idle
        /\ torn' \in BOOLEAN
        /\ ~torn' => ~torn /\ ~(saveNext \in Slots \ {0} /\ nv.numRecs > 0)
    <3>1. torn' = (torn \/ (saveNext \in Slots \ {0} /\ nv.numRecs > 0))
      BY <1>8 DEF Restart
    <3>2. torn' \in BOOLEAN
      BY <3>1, Zenon
    <3>3. ~torn' => ~torn /\ ~(saveNext \in Slots \ {0} /\ nv.numRecs > 0)
      BY <3>1, Zenon
    <3>4. saveNext' = Idle /\ Idle \in 0 .. Idle
      BY <1>8, BindingAssumption DEF Restart, Idle
    <3> QED
      BY <3>2, <3>3, <3>4
  <2>3. ASSUME ~torn' PROVE Unique(Kept) /\ (nv.numRecs > 0 => Unique(nv.recs))
    <3>1. CASE nv.numRecs > 0
      <4>1. Unique(nv.recs)
        BY <2>2, <2>3, <3>1 DEF BindInv, KeptUnique
      <4>2. Kept = nv.recs
        BY <1>0, <3>1, KeptType
      <4> QED
        BY <4>1, <4>2
    <3>2. CASE ~(nv.numRecs > 0)
      BY <1>0, <3>2, KeptType, NothingBound
    <3> QED
      BY <3>1, <3>2
  <2>4. BindTypeOK' /\ Written'
    BY <1>0, <1>8, <2>1, <2>2 DEF Restart, BindTypeOK, Written
  <2>5. TableUnique' /\ KeptUnique'
    BY <2>1, <2>3 DEF TableUnique, KeptUnique, Unique
  <2> QED
    BY <2>4, <2>5 DEF BindInv
<1>9. CASE RestartNew
  <2>1. table' = NoEntries /\ nv' \in [numRecs : Nat, recs : [Slots -> Entries]]
        /\ nv'.numRecs = 0 /\ saveNext' = Idle /\ Idle \in 0 .. Idle
    BY <1>0, <1>9, BindingAssumption DEF RestartNew, BindTypeOK, Idle
  <2>2. BindTypeOK' /\ Written' /\ KeptUnique'
    <3>1. BindTypeOK'
      BY <1>9, <2>1, NothingBound DEF RestartNew, BindTypeOK
    <3>2. Written'
      BY <2>1 DEF Written
    <3>3. KeptUnique'
      <4>1. ~(nv'.numRecs > 0)
        BY <2>1
      <4> QED
        BY <4>1 DEF KeptUnique
    <3> QED
      BY <3>1, <3>2, <3>3
  <2>3. TableUnique'
    BY <2>1, NothingBound DEF TableUnique, Unique
  <2> QED
    BY <2>2, <2>3 DEF BindInv
<1> QED
  BY <1>1, <1>2, <1>3, <1>4, <1>5, <1>6, <1>7, <1>8, <1>9 DEF BindNext

(* The invariant holds at first, and so always.                            *)
LEMMA BindInvInit == BindInit => BindInv
<1> SUFFICES ASSUME BindInit PROVE BindInv
  OBVIOUS
<1>1. BindTypeOK
  <2>1. Idle \in 0 .. Idle
    BY BindingAssumption DEF Idle
  <2>2. nv = [numRecs |-> 0, recs |-> NoEntries]
    BY DEF BindInit
  <2>3. nv \in [numRecs : Nat, recs : [Slots -> Entries]]
    BY <2>2, NothingBound
  <2> QED
    BY <2>1, <2>3, NothingBound DEF BindInit, BindTypeOK
<1>2. TableUnique /\ KeptUnique /\ Written
  BY NothingBound DEF BindInit, TableUnique, KeptUnique, Written
<1> QED
  BY <1>1, <1>2 DEF BindInv

LEMMA BindInvAlways == BindSpec => []BindInv
<1>1. BindInv /\ UNCHANGED bindVars => BindInv'
  BY DEF bindVars, BindInv, BindTypeOK, Written, TableUnique, KeptUnique, Unique
<1> QED
  BY <1>1, BindInvInit, BindInvStays, PTL DEF BindSpec

-----------------------------------------------------------------------------
(* Sending to all that are bound.                                          *)

(* Numbering some records by how many of them come before.                 *)
LEMMA Numbering ==
  ASSUME NEW M, M \subseteq Slots
  PROVE  LET n == Cardinality(M)
             before(x) == Cardinality({y \in M : y < x})
         IN  /\ n \in Nat
             /\ \A x \in M : before(x) \in 0 .. n - 1
             /\ \A x, y \in M : before(x) = before(y) => x = y
             /\ \A i \in 0 .. n - 1 : \E x \in M : before(x) = i
<1> DEFINE n == Cardinality(M)
           B(x) == {y \in M : y < x}
           before(x) == Cardinality(B(x))
           f == [x \in M |-> before(x)]
<1>1. M \subseteq Int /\ IsFiniteSet(M)
  <2>1. 0 \in Int /\ gNWK_MAX_BINDING_ENTRIES - 1 \in Int
    BY BindingAssumption
  <2>2. IsFiniteSet(Slots) /\ Slots \subseteq Int
    BY <2>1, FS_Interval DEF Slots
  <2> QED
    BY <2>2, FS_Subset
<1>2. n \in Nat
  BY <1>1, FS_CardinalityType
<1>3. \A x \in M : IsFiniteSet(B(x)) /\ before(x) \in Nat
  <2> SUFFICES ASSUME NEW x \in M PROVE IsFiniteSet(B(x)) /\ before(x) \in Nat
    OBVIOUS
  <2>1. B(x) \in SUBSET M
    OBVIOUS
  <2> HIDE DEF B
  <2>2. IsFiniteSet(B(x))
    BY <1>1, <2>1, FS_Subset
  <2> QED
    BY <2>2, FS_CardinalityType
<1>4. ASSUME NEW x \in M, NEW T, IsFiniteSet(T), B(x) \subseteq T, x \in T
      PROVE  before(x) < Cardinality(T)
  <2>1. x \notin B(x)
    BY <1>1
  <2> HIDE DEF B
  <2>2. B(x) \in SUBSET T /\ B(x) # T
    BY <1>4, <2>1
  <2>3. /\ Cardinality(B(x)) <= Cardinality(T)
        /\ Cardinality(T) = Cardinality(B(x)) => T = B(x)
    BY <1>4, <2>2, FS_Subset
  <2>4. Cardinality(T) \in Nat /\ Cardinality(B(x)) \in Nat
    BY <1>3, <1>4, FS_CardinalityType
  <2> QED
    BY <2>2, <2>3, <2>4
<1>5. \A x \in M : before(x) \in 0 .. n - 1
  <2> SUFFICES ASSUME NEW x \in M PROVE before(x) \in 0 .. n - 1
    OBVIOUS
  <2>1. B(x) \subseteq M
    OBVIOUS
  <2> HIDE DEF B
  <2>2. before(x) < n
    BY <1>1, <1>4, <2>1
  <2> QED
    BY <1>2, <1>3, <2>2
<1>6. ASSUME NEW x \in M, NEW y \in M, x < y PROVE before(x) < before(y)
  <2>1. B(x) \subseteq B(y) /\ x \in B(y)
    <3>1. \A z \in M : z < x => z < y
      BY <1>1, <1>6
    <3> QED
      BY <1>6, <3>1
  <2>2. IsFiniteSet(B(y)) /\ Cardinality(B(y)) = before(y)
    BY <1>3
  <2> HIDE DEF B, before
  <2>3. before(x) < Cardinality(B(y))
    BY <1>4, <2>1, <2>2
  <2> QED
    BY <2>2, <2>3
<1>7. \A x, y \in M : before(x) = before(y) => x = y
  <2> SUFFICES ASSUME NEW x \in M, NEW y \in M, before(x) = before(y) PROVE x = y
    OBVIOUS
  <2>1. x \in Int /\ y \in Int /\ before(x) \in Nat /\ before(y) \in Nat
    BY <1>1, <1>3
  <2>2. ~(x < y) /\ ~(y < x)
    <3> HIDE DEF before
    <3> QED
      BY <1>6, <2>1
  <2> QED
    BY <2>1, <2>2
<1> HIDE DEF before
<1>8. f \in Injection(M, 0 .. n - 1)
  <2>1. \A x \in M : f[x] = before(x)
    OBVIOUS
  <2>2. f \in [M -> 0 .. n - 1]
    BY <1>5
  <2> HIDE DEF f, n
  <2> QED
    BY <1>7, <2>1, <2>2 DEF Injection, IsInjective
<1>9. IsFiniteSet(0 .. n - 1) /\ Cardinality(0 .. n - 1) = n
  <2>1. 0 \in Int /\ n - 1 \in Int
    BY <1>2
  <2>2. /\ IsFiniteSet(0 .. n - 1)
        /\ Cardinality(0 .. n - 1) = IF 0 > n - 1 THEN 0 ELSE (n - 1) - 0 + 1
    BY <2>1, FS_Interval
  <2> QED
    BY <1>2, <2>2
<1>10. f \in Surjection(M, 0 .. n - 1)
  <2> HIDE DEF f
  <2>1. Cardinality(M) = Cardinality(0 .. n - 1)
    BY <1>9
  <2> QED
    BY <1>8, <1>9, <2>1, FS_Injection
<1>11. \A i \in 0 .. n - 1 : \E x \in M : before(x) = i
  <2>1. \A i \in 0 .. n - 1 : \E x \in M : f[x] = i
    <3> HIDE DEF f
    <3> QED
      BY <1>10 DEF Surjection
  <2> QED
    BY <2>1
<1> QED
  BY <1>2, <1>5, <1>7, <1>11 DEF before

(* From the records being unique, each destination is reached once.        *)
LEMMA UniqueReflects == BindInv => ReflectedOnce
<1> SUFFICES ASSUME BindInv, ~torn, NEW ep \in Endpoints, NEW c \in Clusters
             PROVE  LET n == bindNumReflections(ep, c)
                        reached == [i \in 0 .. n - 1 |-> table[bindFind(ep, c, i)].dst]
                    IN  /\ \A i, j \in 0 .. n - 1 : reached[i] = reached[j] => i = j
                        /\ {reached[i] : i \in 0 .. n - 1}
                             = {dst \in Dsts : [srcEP |-> ep, dst |-> dst, cluster |-> c]
                                                 \in BoundBy(table)}
  BY DEF ReflectedOnce
<1> DEFINE M == Matches(ep, c)
           n == bindNumReflections(ep, c)
           before(x) == Cardinality({y \in M : y < x})
           at(i) == bindFind(ep, c, i)
           reached == [i \in 0 .. n - 1 |-> table[at(i)].dst]
           To == {dst \in Dsts : [srcEP |-> ep, dst |-> dst, cluster |-> c]
                                   \in BoundBy(table)}
<1>1. table \in [Slots -> Entries] /\ Unique(table)
  BY DEF BindInv, BindTypeOK, TableUnique
<1>2. M \subseteq Slots /\ n = Cardinality(M)
  BY DEF Matches, bindNumReflections
<1>3. \A x \in M : /\ x \in Slots /\ table[x].srcEP = ep
                   /\ c \in table[x].clusterIdList
                   /\ table[x] # Empty /\ table[x].dst \in Dsts
  BY <1>1, Parts DEF Matches
<1>4. \A x, y \in M : table[x].dst = table[y].dst => x = y
  BY <1>1, <1>3 DEF Unique
<1>5. /\ \A x \in M : before(x) \in 0 .. n - 1
      /\ \A x, y \in M : before(x) = before(y) => x = y
      /\ \A i \in 0 .. n - 1 : \E x \in M : before(x) = i
  <2>1. LET k == Cardinality(M)
            beforeIn(x) == Cardinality({y \in M : y < x})
        IN  /\ k \in Nat
            /\ \A x \in M : beforeIn(x) \in 0 .. k - 1
            /\ \A x, y \in M : beforeIn(x) = beforeIn(y) => x = y
            /\ \A i \in 0 .. k - 1 : \E x \in M : beforeIn(x) = i
    <3> HIDE DEF M
    <3> QED
      BY <1>2, Numbering
  <2> HIDE DEF M, n
  <2> QED
    BY <1>2, <2>1, Zenon
<1>6. \A i \in 0 .. n - 1 : at(i) \in M /\ before(at(i)) = i
  <2>1. \A i : at(i) = CHOOSE x \in M : before(x) = i
    BY DEF bindFind
  <2> HIDE DEF at, before, M, n
  <2> QED
    BY <1>5, <2>1
<1>7. \A dst \in Dsts : dst \in To <=> \E x \in M : table[x].dst = dst
  <2> SUFFICES ASSUME NEW dst \in Dsts
               PROVE  dst \in To <=> \E x \in M : table[x].dst = dst
    OBVIOUS
  <2>1. TheBinding(ep, dst, c) \in AllBindings
    BY DEF TheBinding, AllBindings
  <2>2. Has(table, TheBinding(ep, dst, c)) <=> \E x \in M : table[x].dst = dst
    BY DEF Has, TheBinding, Matches
  <2>3. TheBinding(ep, dst, c) \in BoundBy(table)
          <=> Has(table, TheBinding(ep, dst, c))
    BY <1>1, <2>1, BoundByHas
  <2> QED
    BY <2>2, <2>3 DEF TheBinding
<1>8. To \subseteq Dsts
  OBVIOUS
<1> HIDE DEF at, before, M, n, To
<1>9. \A i, j \in 0 .. n - 1 : reached[i] = reached[j] => i = j
  BY <1>4, <1>6
<1>10. {reached[i] : i \in 0 .. n - 1} = To
  <2>1. ASSUME NEW i \in 0 .. n - 1 PROVE reached[i] \in To
    BY <1>3, <1>6, <1>7
  <2>2. ASSUME NEW dst \in To PROVE \E i \in 0 .. n - 1 : reached[i] = dst
    <3>1. PICK x \in M : table[x].dst = dst
      BY <1>7, <1>8
    <3>2. before(x) \in 0 .. n - 1 /\ at(before(x)) = x
      BY <1>5, <1>6
    <3> QED
      BY <3>1, <3>2
  <2> HIDE DEF reached
  <2> QED
    BY <2>1, <2>2
<1> QED
  BY <1>9, <1>10 DEF n, at, To

(* Who sends a cluster to all that are bound to it sends it to each of     *)
(* them once (bindNumReflections, bindFind, BindingTable.c:657-714).       *)
THEOREM AlwaysReflectedOnce == BindSpec => []ReflectedOnce
BY BindInvAlways, UniqueReflects, PTL

(* The types of the table and of its copy.                                 *)
THEOREM BindTypeCorrect == BindSpec => []BindTypeOK
<1>1. BindInv => BindTypeOK
  BY DEF BindInv
<1> QED
  BY <1>1, BindInvAlways, PTL

-----------------------------------------------------------------------------
(* The table is the relation its users rely on.                            *)

(* What a restart would read depends on the copy alone.                    *)
LEMMA KeptStays == UNCHANGED nv => BoundBy(BindRestoreFromNV)' = BoundBy(BindRestoreFromNV)
BY DEF BindRestoreFromNV, BoundBy

(* The timer for a save.                                                   *)
LEMMA Asked == ZDApp_NVUpdate => Promised!AskToSave
BY DEF ZDApp_NVUpdate, Promised!AskToSave

(* A request to bind, and to unbind, is one of the relation.               *)
LEMMA BindRefines ==
  ASSUME BindInv, NEW ep \in Endpoints, NEW dst \in Dsts, NEW c \in Clusters,
         Bind_req(ep, dst, c)
  PROVE  Promised!Bind(TheBinding(ep, dst, c))
<1> DEFINE b == TheBinding(ep, dst, c)
<1>0. BindTypeOK /\ table \in [Slots -> Entries] /\ (~torn => Unique(table))
  BY DEF BindInv, BindTypeOK, TableUnique
<1>1. \/ bindStat' = "SUCCESS" /\ BoundBy(table') = BoundBy(table) \cup {b}
      \/ /\ bindStat' = "TABLE_FULL" /\ table' = table
         /\ b \notin BoundBy(table) \/ torn
  <2>1. CASE bindAddEntry(ep, dst, c)
    BY <1>0, <2>1, Adding
  <2>2. CASE ~Indexed(dst) /\ bindStat' = "TABLE_FULL" /\ UNCHANGED table
    <3>1. ASSUME Has(table, b) PROVE FALSE
      <4>1. PICK x \in Slots : table[x].dst = dst
        BY <3>1 DEF Has, TheBinding
      <4> QED
        BY <2>2, <4>1 DEF Indexed, OfDev
    <3>2. b \in AllBindings
      BY DEF TheBinding, AllBindings
    <3>3. b \notin BoundBy(table)
      BY <1>0, <3>1, <3>2, BoundByHas
    <3> QED
      BY <2>2, <3>3
  <2> QED
    BY <2>1, <2>2 DEF Bind_req
<1>2. /\ ~(saveNext # Idle) /\ UNCHANGED <<nv, saveNext, torn>>
      /\ IF bindStat' = "SUCCESS" THEN ZDApp_NVUpdate ELSE UNCHANGED <<saveDue, saveMissed>>
  BY DEF Bind_req, UpdateIf
<1>3. BoundBy(BindRestoreFromNV)' = BoundBy(BindRestoreFromNV)
  BY <1>2, KeptStays
<1>4. BoundBy(table)' = BoundBy(table')
  BY DEF BoundBy
<1>5. CASE bindStat' = "SUCCESS" /\ BoundBy(table') = BoundBy(table) \cup {b}
  BY <1>2, <1>3, <1>4, <1>5, Asked DEF Promised!Bind
<1>6. CASE /\ bindStat' = "TABLE_FULL" /\ table' = table
           /\ b \notin BoundBy(table) \/ torn
  BY <1>2, <1>3, <1>4, <1>6 DEF Promised!Bind
<1> QED
  BY <1>1, <1>5, <1>6

LEMMA UnbindRefines ==
  ASSUME BindInv, NEW ep \in Endpoints, NEW dst \in Dsts, NEW c \in Clusters,
         Unbind_req(ep, dst, c)
  PROVE  Promised!Unbind(TheBinding(ep, dst, c))
<1> DEFINE b == TheBinding(ep, dst, c)
<1>0. BindTypeOK /\ (~torn => Unique(table))
  BY DEF BindInv, TableUnique
<1>1. \/ /\ bindStat' = "SUCCESS" /\ b \in BoundBy(table)
         /\ \/ BoundBy(table') = BoundBy(table) \ {b}
            \/ torn /\ BoundBy(table') = BoundBy(table)
      \/ /\ bindStat' = "NO_ENTRY" /\ table' = table
         /\ b \notin BoundBy(table) \/ torn
  BY <1>0, Removing
<1>2. /\ ~(saveNext # Idle) /\ UNCHANGED <<nv, saveNext, torn>>
      /\ IF bindStat' = "SUCCESS" THEN ZDApp_NVUpdate ELSE UNCHANGED <<saveDue, saveMissed>>
  BY DEF Unbind_req, UpdateIf
<1>3. BoundBy(BindRestoreFromNV)' = BoundBy(BindRestoreFromNV)
  BY <1>2, KeptStays
<1>4. BoundBy(table)' = BoundBy(table')
  BY DEF BoundBy
<1>5. CASE /\ bindStat' = "SUCCESS" /\ b \in BoundBy(table)
           /\ \/ BoundBy(table') = BoundBy(table) \ {b}
              \/ torn /\ BoundBy(table') = BoundBy(table)
  BY <1>2, <1>3, <1>4, <1>5, Asked DEF Promised!Unbind
<1>6. CASE /\ bindStat' = "NO_ENTRY" /\ table' = table
           /\ b \notin BoundBy(table) \/ torn
  BY <1>2, <1>3, <1>4, <1>6 DEF Promised!Unbind
<1> QED
  BY <1>1, <1>5, <1>6

(* Writing a record, or their number, is a step of the save.               *)
LEMMA WriteRefines == BindInv /\ BindWriteNV => Promised!Save
<1> SUFFICES ASSUME BindInv, BindWriteNV PROVE Promised!Save
  OBVIOUS
<1>0. BindTypeOK /\ Written /\ table \in [Slots -> Entries]
  BY DEF BindInv, BindTypeOK
<1>1. /\ saveNext \in 0 .. Header /\ saveNext' = saveNext + 1 /\ saveNext # Idle
      /\ UNCHANGED <<table, saveDue, bindStat, saveMissed, torn>>
  BY <1>0, BindingAssumption DEF BindWriteNV, BindTypeOK, Idle, Header
<1>2. /\ BoundBy(table)' = BoundBy(table)
      /\ BoundBy(BindRestoreFromNV)' = BoundBy(BindRestoreFromNV')
  BY <1>1 DEF BoundBy
<1>3. BindRestoreFromNV' = IF nv'.numRecs > 0 THEN nv'.recs ELSE NoEntries
  BY DEF BindRestoreFromNV, NoEntries
<1>4. CASE saveNext = Header
  <2>1. nv' = [nv EXCEPT !.numRecs = Cardinality(Used(table))]
    BY <1>4 DEF BindWriteNV
  <2>2. IF nv'.numRecs > 0 THEN nv'.recs = table ELSE table = NoEntries
    BY <1>0, <1>4, <2>1, AllWritten
  <2>3. BindRestoreFromNV' = table
    BY <1>3, <2>2
  <2>4. ~(saveNext # Idle)'
    BY <1>1, <1>4 DEF Header, Idle
  <2>5. BoundBy(BindRestoreFromNV)' = BoundBy(table)
    BY <1>2, <2>3
  <2> QED
    BY <1>1, <1>2, <2>4, <2>5 DEF Promised!Save
<1>5. CASE saveNext # Header
  <2>1. saveNext \in Slots /\ nv' = [nv EXCEPT !.recs[saveNext] = table[saveNext]]
    BY <1>1, <1>5, BindingAssumption DEF BindWriteNV, Slots, Header
  <2>2. /\ nv'.numRecs = nv.numRecs
        /\ nv'.recs = [nv.recs EXCEPT ![saveNext] = table[saveNext]]
        /\ nv.recs \in [Slots -> Entries] /\ nv'.recs \in [Slots -> Entries]
    BY <1>0, <2>1 DEF BindTypeOK
  <2>3. BoundBy(BindRestoreFromNV') \subseteq BoundBy(BindRestoreFromNV) \cup BoundBy(table)
    <3>1. CASE nv.numRecs > 0
      <4>1. BindRestoreFromNV' = nv'.recs /\ BindRestoreFromNV = nv.recs
        BY <1>3, <2>2, <3>1 DEF BindRestoreFromNV
      <4>2. \A x \in Slots : nv'.recs[x] = nv.recs[x] \/ nv'.recs[x] = table[x]
        BY <2>1, <2>2
      <4>3. \A o \in AllBindings : Has(nv'.recs, o) => Has(nv.recs, o) \/ Has(table, o)
        BY <4>2 DEF Has
      <4>4. BoundBy(nv'.recs) \subseteq BoundBy(nv.recs) \cup BoundBy(table)
        BY <1>0, <2>2, <4>3, BoundByHas
      <4> QED
        BY <4>1, <4>4
    <3>2. CASE ~(nv.numRecs > 0)
      <4>1. BindRestoreFromNV' = NoEntries
        BY <1>3, <2>2, <3>2
      <4> QED
        BY <4>1, NothingBound
    <3> QED
      BY <3>1, <3>2
  <2>4. (saveNext # Idle)'
    BY <1>1, <1>5, BindingAssumption DEF Header, Idle
  <2>5. BoundBy(BindRestoreFromNV)' \subseteq BoundBy(BindRestoreFromNV) \cup BoundBy(table)
    BY <1>2, <2>3
  <2> QED
    BY <1>1, <1>2, <2>4, <2>5 DEF Promised!Save
<1> QED
  BY <1>4, <1>5

(* Every step is one of the relation.                                      *)
LEMMA StepRefines == BindInv /\ BindNext => Promised!Next
<1> SUFFICES ASSUME BindInv, BindNext PROVE Promised!Next
  OBVIOUS
<1>0. BindTypeOK /\ table \in [Slots -> Entries]
  BY DEF BindInv, BindTypeOK
<1>1. ASSUME NEW ep \in Endpoints, NEW dst \in Dsts, NEW c \in Clusters,
             Bind_req(ep, dst, c) \/ Unbind_req(ep, dst, c)
      PROVE  Promised!Next
  <2>1. TheBinding(ep, dst, c) \in AllBindings
    BY DEF TheBinding, AllBindings
  <2>2. \/ Promised!Bind(TheBinding(ep, dst, c))
        \/ Promised!Unbind(TheBinding(ep, dst, c))
    BY <1>1, BindRefines, UnbindRefines
  <2> QED
    BY <2>1, <2>2 DEF Promised!Next
<1>2. ASSUME NEW d \in Devices, ZDApp_LeaveUpdate(d) PROVE Promised!Next
  <2>1. BoundBy(table') = BoundBy(table) \ {b \in AllBindings : OfDev(b.dst, d)}
    BY <1>0, <1>2, Leaving DEF ZDApp_LeaveUpdate
  <2>2. BoundBy(table)' = BoundBy(table')
    BY DEF BoundBy
  <2>3. Promised!Depart(d)
    BY <1>2, <2>1, <2>2, Asked, KeptStays DEF ZDApp_LeaveUpdate, Promised!Depart
  <2> QED
    BY <2>3 DEF Promised!Next
<1>3. UNCHANGED table => BoundBy(table)' = BoundBy(table)
  BY DEF BoundBy
<1>4. CASE RefusedReq
  <2>1. Promised!Refuse
    BY <1>3, <1>4, KeptStays DEF RefusedReq, Promised!Refuse
  <2> QED
    BY <2>1 DEF Promised!Next
<1>5. CASE ZDApp_NwkStateUpdateCB
  <2>1. Promised!OtherReason
    BY <1>3, <1>5, Asked, KeptStays DEF ZDApp_NwkStateUpdateCB, Promised!OtherReason
  <2> QED
    BY <2>1 DEF Promised!Next
<1>6. CASE ZDApp_SaveNetworkStateEvt
  <2>1. 0 # Idle
    BY BindingAssumption DEF Idle
  <2>2. Promised!BeginSave
    BY <1>3, <1>6, <2>1, KeptStays DEF ZDApp_SaveNetworkStateEvt, Promised!BeginSave
  <2> QED
    BY <2>2 DEF Promised!Next
<1>7. CASE BindWriteNV
  BY <1>7, WriteRefines DEF Promised!Next
<1>8. CASE Restart
  <2>1. BoundBy(table)' = BoundBy(BindRestoreFromNV)
    BY <1>8 DEF Restart, BoundBy, BindRestoreFromNV
  <2>2. UNCHANGED torn \/ ((saveNext # Idle) /\ torn' = TRUE)
    <3>1. torn' = (torn \/ (saveNext \in Slots \ {0} /\ nv.numRecs > 0))
      BY <1>8 DEF Restart
    <3>2. torn \in BOOLEAN
      BY <1>0 DEF BindTypeOK
    <3>3. saveNext \in Slots => saveNext # Idle
      BY BindingAssumption DEF Slots, Idle
    <3> QED
      BY <3>1, <3>2, <3>3, Zenon
  <2>3. Promised!Restart
    BY <1>8, <2>1, <2>2, KeptStays DEF Restart, Promised!Restart
  <2> QED
    BY <2>3 DEF Promised!Next
<1>9. CASE RestartNew
  <2>1. nv'.numRecs = 0
    BY <1>0, <1>9 DEF RestartNew, BindTypeOK
  <2>2. BindRestoreFromNV' = NoEntries
    BY <2>1 DEF BindRestoreFromNV, NoEntries
  <2>3. BoundBy(BindRestoreFromNV)' = {} /\ BoundBy(table)' = {}
    <3>1. /\ BoundBy(BindRestoreFromNV)' = BoundBy(BindRestoreFromNV')
          /\ BoundBy(table)' = BoundBy(table')
      BY DEF BoundBy
    <3> QED
      BY <1>9, <2>2, <3>1, NothingBound DEF RestartNew
  <2>4. Promised!Forget
    BY <1>9, <2>3 DEF RestartNew, Promised!Forget
  <2> QED
    BY <2>4 DEF Promised!Next
<1> QED
  BY <1>1, <1>2, <1>4, <1>5, <1>6, <1>7, <1>8, <1>9 DEF BindNext

(* The binding table and its copy implement the relation its users rely    *)
(* on, over every restart.                                                 *)
THEOREM TableImplementsBindings == BindSpec => ImplementsBindings
<1>1. BindInit => Promised!Init
  <2> SUFFICES ASSUME BindInit PROVE Promised!Init
    OBVIOUS
  <2>1. BindRestoreFromNV = NoEntries
    BY DEF BindInit, BindRestoreFromNV
  <2> QED
    BY <2>1, NothingBound DEF BindInit, Promised!Init
<1>2. BindInv /\ [BindNext]_bindVars => [Promised!Next]_Promised!promise
  <2>1. UNCHANGED bindVars => UNCHANGED Promised!promise
    BY DEF bindVars, Promised!promise, BoundBy, BindRestoreFromNV
  <2> QED
    BY <2>1, StepRefines
<1> QED
  BY <1>1, <1>2, BindInvAlways, PTL DEF BindSpec, ImplementsBindings, Promised!Spec

(* A change of the bindings that a restart would not find is going to be   *)
(* saved, unless its timer found no memory (ZDApp.c:2920-2925).            *)
THEOREM ChangesAreSaved == BindSpec => []Promised!SavedOrDue
<1>1. Promised!Init => Promised!SavedOrDue
  BY DEF Promised!Init, Promised!SavedOrDue
<1>2. Promised!SavedOrDue /\ [Promised!Next]_Promised!promise => Promised!SavedOrDue'
  BY DEF Promised!SavedOrDue, Promised!Next, Promised!promise, Promised!Bind,
         Promised!Unbind, Promised!Refuse, Promised!OtherReason, Promised!Depart,
         Promised!BeginSave, Promised!Save, Promised!Restart, Promised!Forget,
         Promised!AskToSave
<1> QED
  BY <1>1, <1>2, TableImplementsBindings, PTL DEF ImplementsBindings, Promised!Spec
=============================================================================
