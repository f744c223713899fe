---------------------------- MODULE ServiceProofs ----------------------------
(***************************************************************************)
(* What holds of the services around a session, of each and of all.        *)
(***************************************************************************)
EXTENDS MCServices, SeqProofs, FiniteSetTheorems

-----------------------------------------------------------------------------
(* ResourceCache. *)

-----------------------------------------------------------------------------
(* The inductive invariant. *)

\* Who holds which lock, stage by stage.
Locks ==
    \A i \in Instances :
        /\ i \in preparer <=> stage[i] \notin {"off", "running"}
        /\ i \in users <=> stage[i] \in {"checking", "running"}
        /\ i \in updater <=> stage[i] \in {"cleaning", "extracting", "undoing"}

\* prepare.lock has one holder, and usage.lock one or many.
Exclusive ==
    /\ \A i, j \in preparer : i = j
    /\ updater # {} => users = {}

\* An update leaves behind it only files of its version; the marker is last.
Extracted(i) ==
    /\ \A e \in Entries : payload[e] \in {Absent, Torn, wants[i]}
    /\ payload[0] # Absent => \A f \in 1..FileCount : payload[f] = wants[i]

PayloadFiles ==
    \A i \in Instances :
        /\ stage[i] \in {"sharing", "running"} => Whole(wants[i])
        /\ stage[i] = "extracting" => Extracted(i)

CacheInv == CacheTypeOK /\ Locks /\ Exclusive /\ PayloadFiles

-----------------------------------------------------------------------------

InstanceStep(i) ==
    \/ Prepare(i) \/ Reuse(i) \/ Mismatch(i) \/ Upgrade(i) \/ InUse(i)
    \/ Removed(i) \/ ExtractFails(i) \/ Share(i) \/ InstanceEnds(i)
    \/ \E e \in Entries : RemoveEntry(i, e) \/ CreateEntry(i, e) \/ FinishEntry(i, e)
    \/ \E v \in Versions : Reinstall(i, v)

LEMMA TypeStep == CacheTypeOK /\ [CacheNext]_cacheVars => CacheTypeOK'
<1> SUFFICES ASSUME CacheTypeOK, [CacheNext]_cacheVars PROVE CacheTypeOK'
    OBVIOUS
<1> USE CacheAssumption DEF CacheTypeOK, Stages, Contents, Entries
<1>1. ASSUME NEW i \in Instances, InstanceStep(i) PROVE CacheTypeOK'
  <2>1. CASE Prepare(i) \/ Reuse(i) \/ Mismatch(i) \/ Upgrade(i)
      BY <2>1 DEF Prepare, Reuse, Mismatch, Upgrade, Goes
  <2>2. CASE InUse(i) \/ InstanceEnds(i) \/ ExtractFails(i) \/ Share(i) \/ Removed(i)
      BY <2>2 DEF InUse, InstanceEnds, ExtractFails, Share, Removed, Leaves, Goes
  <2>3. ASSUME NEW e \in Entries, RemoveEntry(i, e) \/ CreateEntry(i, e) \/ FinishEntry(i, e)
        PROVE  CacheTypeOK'
      BY <2>3 DEF RemoveEntry, CreateEntry, FinishEntry, Written, Goes
  <2>4. ASSUME NEW v \in Versions, Reinstall(i, v) PROVE CacheTypeOK'
      BY <2>4 DEF Reinstall
  <2>5. QED
      BY <1>1, <2>1, <2>2, <2>3, <2>4 DEF InstanceStep
<1>2. ASSUME NEW e \in 1..FileCount, PowerFails(e) PROVE CacheTypeOK'
    BY <1>2 DEF PowerFails, Written
<1>3. CASE UNCHANGED cacheVars
    BY <1>3 DEF cacheVars
<1>4. QED
    BY <1>1, <1>2, <1>3 DEF CacheNext, InstanceStep

LEMMA LockStep ==
    CacheInv /\ [CacheNext]_cacheVars => Locks' /\ Exclusive'
<1> SUFFICES ASSUME CacheInv, [CacheNext]_cacheVars PROVE Locks' /\ Exclusive'
    OBVIOUS
<1> USE DEF CacheInv, CacheTypeOK, Locks, Exclusive
<1>1. ASSUME NEW i \in Instances, InstanceStep(i) PROVE Locks' /\ Exclusive'
  <2>1. CASE Prepare(i)
      BY <2>1 DEF Prepare, Goes
  <2>2. CASE Reuse(i)
      BY <2>2 DEF Reuse, Goes
  <2>3. CASE Mismatch(i)
      BY <2>3 DEF Mismatch, Goes
  <2>4. CASE Upgrade(i)
      BY <2>4 DEF Upgrade, Goes
  <2>5. CASE InUse(i) \/ InstanceEnds(i)
      BY <2>5 DEF InUse, InstanceEnds, Leaves, Goes
  <2>6. CASE ExtractFails(i)
      BY <2>6 DEF ExtractFails, Goes
  <2>7. CASE Share(i)
      BY <2>7 DEF Share, Goes
  <2>8. CASE Removed(i)
      BY <2>8 DEF Removed, Leaves, Goes
  <2>9. ASSUME NEW e \in Entries, RemoveEntry(i, e) \/ CreateEntry(i, e) \/ FinishEntry(i, e)
        PROVE  Locks' /\ Exclusive'
      BY <2>9 DEF RemoveEntry, CreateEntry, FinishEntry, Goes
  <2>10. ASSUME NEW v \in Versions, Reinstall(i, v) PROVE Locks' /\ Exclusive'
      BY <2>10 DEF Reinstall
  <2>11. QED
      BY <1>1, <2>1, <2>2, <2>3, <2>4, <2>5, <2>6, <2>7, <2>8, <2>9, <2>10 DEF InstanceStep
<1>2. ASSUME NEW e \in 1..FileCount, PowerFails(e) PROVE Locks' /\ Exclusive'
    BY <1>2 DEF PowerFails
<1>3. CASE UNCHANGED cacheVars
    BY <1>3 DEF cacheVars
<1>4. QED
    BY <1>1, <1>2, <1>3 DEF CacheNext, InstanceStep

\* While an instance changes the payload, no other uses it or is about to.
LEMMA Alone ==
    ASSUME CacheInv, NEW i \in updater, NEW j \in Instances
    PROVE  i = j \/ stage[j] = "off"
<1>1. i \in preparer /\ users = {}
    BY DEF CacheInv, CacheTypeOK, Locks, Exclusive
<1>2. QED
    BY <1>1 DEF CacheInv, CacheTypeOK, Locks, Exclusive, Stages

LEMMA FileStep == CacheInv /\ [CacheNext]_cacheVars => PayloadFiles'
<1> SUFFICES ASSUME CacheInv, [CacheNext]_cacheVars PROVE PayloadFiles'
    OBVIOUS
<1> USE DEF CacheInv, CacheTypeOK, PayloadFiles, Whole, Extracted, Entries
<1>1. ASSUME NEW i \in Instances, InstanceStep(i) PROVE PayloadFiles'
  <2>1. CASE Prepare(i)
      BY <2>1 DEF Prepare, Goes
  <2>2. CASE Reuse(i)
      BY <2>2 DEF Reuse, Goes, CacheMatches
  <2>3. CASE Mismatch(i) \/ Upgrade(i) \/ ExtractFails(i)
    <3>1. CASE Mismatch(i)
        BY <3>1 DEF Mismatch, Goes
    <3>2. CASE Upgrade(i)
        BY <3>2 DEF Upgrade, Goes
    <3>3. CASE ExtractFails(i)
        BY <3>3 DEF ExtractFails, Goes
    <3>4. QED
        BY <2>3, <3>1, <3>2, <3>3
  <2>4. CASE InUse(i) \/ InstanceEnds(i)
    <3>1. CASE InUse(i)
        BY <3>1 DEF InUse, Leaves, Goes
    <3>2. CASE InstanceEnds(i)
        BY <3>2 DEF InstanceEnds, Leaves, Goes
    <3>3. QED
        BY <2>4, <3>1, <3>2
  <2>5. CASE Share(i)
      BY <2>5 DEF Share, Goes
  <2>6. CASE Removed(i)
    <3>1. payload' = payload /\ wants' = wants /\ stage[i] \notin {"sharing", "running"}
        BY <2>6 DEF Removed
    <3>2. Empty /\ stage' \in {[stage EXCEPT ![i] = "extracting"], [stage EXCEPT ![i] = "off"]}
        BY <2>6 DEF Removed, Leaves, Goes
    <3>3. \A e \in Entries : payload[e] = Absent
        BY <3>2 DEF Empty
    <3>4. QED
        BY <3>1, <3>2, <3>3, CacheAssumption
  <2>7. ASSUME NEW e \in Entries, RemoveEntry(i, e) \/ CreateEntry(i, e) \/ FinishEntry(i, e)
        PROVE  PayloadFiles'
    <3>1. i \in updater /\ wants' = wants
        BY <2>7 DEF RemoveEntry, CreateEntry, FinishEntry, Locks
    <3>2. \A j \in Instances : j # i => stage[j] = "off"
        BY <3>1, Alone
    <3>3. CASE RemoveEntry(i, e)
        BY <3>1, <3>2, <3>3 DEF RemoveEntry, Written
    <3>4. CASE CreateEntry(i, e)
        BY <3>1, <3>2, <3>4, CacheAssumption DEF CreateEntry, Written, NextEntry
    <3>5. CASE FinishEntry(i, e)
        BY <3>1, <3>2, <3>5, CacheAssumption DEF FinishEntry, Written, NextEntry, Goes
    <3>6. QED
        BY <2>7, <3>3, <3>4, <3>5
  <2>8. ASSUME NEW v \in Versions, Reinstall(i, v) PROVE PayloadFiles'
      BY <2>8 DEF Reinstall
  <2>9. QED
      BY <1>1, <2>1, <2>2, <2>3, <2>4, <2>5, <2>6, <2>7, <2>8 DEF InstanceStep
<1>2. ASSUME NEW e \in 1..FileCount, PowerFails(e) PROVE PayloadFiles'
    BY <1>2 DEF PowerFails
<1>3. CASE UNCHANGED cacheVars
    BY <1>3 DEF cacheVars
<1>4. QED
    BY <1>1, <1>2, <1>3 DEF CacheNext, InstanceStep

LEMMA CacheInvariance == CacheSpec => []CacheInv
<1>1. CacheInit => CacheInv
    BY CacheAssumption DEF CacheInit, CacheInv, CacheTypeOK, Locks, Exclusive, PayloadFiles, Stages
<1>2. CacheInv /\ [CacheNext]_cacheVars => CacheInv'
    BY TypeStep, LockStep, FileStep DEF CacheInv
<1>3. QED
    BY <1>1, <1>2, PTL DEF CacheSpec

\* prepare() and the two locks: the payload of a running instance is complete
\* and of its version, however many instances of however many versions start,
\* update and crash.
THEOREM PayloadKept == CacheSpec => []RunsOnItsOwn
<1>1. CacheInv => RunsOnItsOwn
    BY DEF CacheInv, PayloadFiles, RunsOnItsOwn
<1>2. QED
    BY <1>1, CacheInvariance, PTL

-----------------------------------------------------------------------------
(* GuardianChannel. *)

-----------------------------------------------------------------------------
(* The inductive invariant. *)

ChannelTypes ==
    /\ slot \in 0..MaxChannels /\ started \in 0..MaxChannels
    /\ slotHolder \subseteq Threads
    /\ process \in [Channels -> {"none", "up", "gone"}]
    /\ pending \in [Channels -> SUBSET Threads]
    /\ doing \in [Threads -> Doings]
    /\ channel \in [Threads -> 0..MaxChannels]
    /\ reply \in [Threads -> {"none", "ok", "dead"}]

\* A thread that is at something works with a channel.
ThreadPlaces == \A t \in Threads : doing[t] \notin {"idle", "closed"} => channel[t] \in Channels

\* One thread holds the slot, which is empty meanwhile.
Holders ==
    /\ \A s, t \in slotHolder : s = t
    /\ \A t \in slotHolder : doing[t] \notin {"idle", "calling", "closed"} /\ slot = 0
    /\ \A t \in Threads : doing[t] \in {"starting", "aborting", "restarting", "closing"} =>
          t \in slotHolder

\* A guardian that runs is that of the slot, or of the thread that holds it.
Owned ==
    \A c \in Channels : process[c] = "up" =>
        c = slot \/ \E t \in slotHolder : channel[t] = c

\* Closing is for good, and is over when nothing runs.
ClosedOnce ==
    \A t \in Threads :
        /\ doing[t] \in {"closing", "closed"} => closed
        /\ doing[t] = "closed" => \A c \in Channels : process[c] # "up"

\* Who has been registered and has no answer is still registered.
Registered ==
    \A t \in Threads : doing[t] \in {"sending", "waiting"} /\ reply[t] = "none" =>
        t \in pending[channel[t]]

ChannelInv == ChannelTypes /\ ThreadPlaces /\ Holders /\ Owned /\ ClosedOnce /\ Registered

-----------------------------------------------------------------------------

SlotStep(t) == Ensure(t) \/ Restart(t) \/ CloseShell(t) \/ Reaped(t) \/ Aborted(t)

RequestStep(t) ==
    Register(t) \/ Enqueue(t) \/ Answer(t) \/ Expire(t) \/ ExpireChannel(t) \/ Kill(t)

WireStep(c) ==
    \/ Write(c) \/ GuardianExits(c) \/ ReaderStops(c)
    \/ \E t \in Threads : GuardianReplies(c, t) \/ ReadReply(c, t)

LEMMA Steps ==
    ChannelNext <=> \/ SetClosed
                    \/ \E t \in Threads : SlotStep(t) \/ RequestStep(t)
                    \/ \E c \in Channels : WireStep(c)
    BY DEF ChannelNext, SlotStep, RequestStep, WireStep

\* What the parts of the steps leave typed.
LEMMA TurnsTyped ==
    ASSUME ChannelTypes, NEW t \in Threads, NEW to \in Doings, Turns(t, to)
    PROVE  doing' \in [Threads -> Doings]
    BY DEF ChannelTypes, Turns

LEMMA MarkDeadTyped ==
    ASSUME ChannelTypes, NEW c \in Channels, MarkDead(c)
    PROVE  /\ pending' \in [Channels -> SUBSET Threads]
           /\ reply' \in [Threads -> {"none", "ok", "dead"}]
    BY DEF ChannelTypes, MarkDead

LEMMA GoneTyped ==
    ASSUME ChannelTypes, NEW c \in Channels, ProcessGone(c)
    PROVE  process' \in [Channels -> {"none", "up", "gone"}]
    BY DEF ChannelTypes, ProcessGone

LEMMA ReturnsTyped ==
    ASSUME ChannelTypes, NEW t \in Threads, RequestReturns(t)
    PROVE  doing' \in [Threads -> Doings] /\ channel' \in [Threads -> 0..MaxChannels]
<1>1. {"idle", "aborting"} \subseteq Doings /\ 0 \in 0..MaxChannels
    BY ChannelAssumption DEF Doings
<1>2. CASE Shaking(t)
    BY <1>1, <1>2, TurnsTyped DEF RequestReturns, ChannelTypes
<1>3. CASE ~Shaking(t)
    BY <1>1, <1>3, TurnsTyped DEF RequestReturns, ChannelTypes
<1>4. QED
    BY <1>2, <1>3

LEMMA TakeOutTyped ==
    ASSUME ChannelTypes, NEW t \in Threads, NEW to \in Doings, NEW done \in Doings,
           TakeOut(t, to, done)
    PROVE  ChannelTypes'
<1>1. slot' \in 0..MaxChannels /\ started' \in 0..MaxChannels
    BY ChannelAssumption DEF TakeOut, ChannelTypes
<1>2. CASE slot = 0
  <2>1. Turns(t, done) /\ UNCHANGED <<slotHolder, channel, process, pending, reply>>
      BY <1>2 DEF TakeOut, wire
  <2>2. QED
      BY <1>1, <2>1, TurnsTyped DEF ChannelTypes
<1>3. CASE slot # 0
  <2>1. /\ Turns(t, to) /\ MarkDead(slot) /\ slot \in Channels
        /\ slotHolder' = {t} /\ channel' = [channel EXCEPT ![t] = slot] /\ process' = process
      BY <1>3, ChannelAssumption DEF TakeOut, ChannelTypes, Channels
  <2>2. channel' \in [Threads -> 0..MaxChannels]
      BY <2>1 DEF ChannelTypes
  <2>3. QED
      BY <1>1, <2>1, <2>2, TurnsTyped, MarkDeadTyped DEF ChannelTypes
<1>4. QED
    BY <1>2, <1>3

LEMMA ChannelTypeStep == ChannelTypes /\ ThreadPlaces /\ [ChannelNext]_channelVars => ChannelTypes'
<1> SUFFICES ASSUME ChannelTypes, ThreadPlaces, [ChannelNext]_channelVars PROVE ChannelTypes'
    OBVIOUS
<1>0. {"idle", "starting", "calling", "sending", "waiting", "expired", "killing", "aborting",
       "restarting", "closing", "closed"} \subseteq Doings
    BY DEF Doings
<1>1. ASSUME NEW t \in Threads, SlotStep(t) PROVE ChannelTypes'
  <2>1. CASE Ensure(t)
    <3>1. CASE slot # 0
        BY <1>0, <2>1, <3>1, TurnsTyped DEF Ensure, Started, ChannelTypes
    <3>2. CASE slot = 0
      <4>1. started' \in Channels /\ started' \in 0..MaxChannels
          BY <2>1, <3>2, ChannelAssumption DEF Ensure, Started, ChannelTypes, Channels
      <4>2. process' \in [Channels -> {"none", "up", "gone"}]
            /\ channel' \in [Threads -> 0..MaxChannels]
          BY <2>1, <3>2, <4>1 DEF Ensure, Started, ChannelTypes
      <4>3. Turns(t, "starting") /\ UNCHANGED <<slot, pending, reply>> /\ slotHolder' = {t}
          BY <2>1, <3>2 DEF Ensure, Started
      <4>4. QED
          BY <1>0, <4>1, <4>2, <4>3, TurnsTyped DEF ChannelTypes
    <3>3. QED
        BY <3>1, <3>2
  <2>2. CASE Restart(t)
      BY <1>0, <2>2, TakeOutTyped DEF Restart
  <2>3. CASE CloseShell(t)
      BY <1>0, <2>3, TakeOutTyped DEF CloseShell
  <2>4. CASE Reaped(t)
    <3>1. channel[t] \in Channels
        BY <2>4 DEF Reaped, ThreadPlaces
    <3>2. channel' \in [Threads -> 0..MaxChannels]
        BY <2>4, ChannelAssumption DEF Reaped, ChannelTypes
    <3>3. doing' \in [Threads -> Doings]
        BY <1>0, <2>4, TurnsTyped DEF Reaped
    <3>4. QED
        BY <2>4, <3>1, <3>2, <3>3, GoneTyped DEF Reaped, ChannelTypes
  <2>5. CASE Aborted(t)
    <3>1. channel[t] \in Channels
        BY <2>5 DEF Aborted, ThreadPlaces
    <3>2. channel' \in [Threads -> 0..MaxChannels]
        BY <2>5, ChannelAssumption DEF Aborted, ChannelTypes
    <3>3. doing' \in [Threads -> Doings]
        BY <1>0, <2>5, TurnsTyped DEF Aborted
    <3>4. QED
        BY <2>5, <3>1, <3>2, <3>3, GoneTyped, MarkDeadTyped DEF Aborted, ChannelTypes
  <2>6. QED
      BY <1>1, <2>1, <2>2, <2>3, <2>4, <2>5 DEF SlotStep
<1>2. ASSUME NEW t \in Threads, RequestStep(t) PROVE ChannelTypes'
  <2>0. channel[t] \in Channels
      BY <1>2 DEF RequestStep, Register, Enqueue, Answer, Expire, ExpireChannel, Kill, ThreadPlaces
  <2>1. CASE Register(t)
    <3>1. UNCHANGED <<slot, slotHolder, started, process, reply>>
        BY <2>1 DEF Register
    <3>2. CASE RequestReturns(t) /\ UNCHANGED pending
        BY <3>1, <3>2, ReturnsTyped DEF ChannelTypes
    <3>3. CASE Turns(t, "sending") /\ UNCHANGED channel
               /\ pending' = [pending EXCEPT ![channel[t]] = @ \cup {t}]
        BY <1>0, <3>1, <3>3, TurnsTyped DEF ChannelTypes
    <3>4. QED
        BY <2>1, <3>2, <3>3 DEF Register
  <2>2. CASE Enqueue(t)
    <3>1. UNCHANGED <<slot, slotHolder, started, process>>
        BY <2>2 DEF Enqueue
    <3>2. CASE Turns(t, "waiting") /\ UNCHANGED <<pending, channel, reply>>
        BY <1>0, <3>1, <3>2, TurnsTyped DEF ChannelTypes
    <3>3. CASE /\ pending' = [pending EXCEPT ![channel[t]] = @ \ {t}]
               /\ RequestReturns(t)
               /\ reply' = [reply EXCEPT ![t] = "none"]
        BY <3>1, <3>3, ReturnsTyped DEF ChannelTypes
    <3>4. QED
        BY <2>2, <3>2, <3>3 DEF Enqueue
  <2>3. CASE Answer(t)
    <3>1. UNCHANGED <<started, process, pending>>
          /\ reply' \in [Threads -> {"none", "ok", "dead"}]
        BY <2>3 DEF Answer, wire, ChannelTypes
    <3>2. CASE slot' = channel[t] /\ slotHolder' = {} /\ Turns(t, "calling") /\ UNCHANGED channel
        BY <1>0, <3>1, <3>2, TurnsTyped DEF ChannelTypes
    <3>3. CASE RequestReturns(t) /\ UNCHANGED <<slot, slotHolder>>
        BY <3>1, <3>3, ReturnsTyped DEF ChannelTypes
    <3>4. QED
        BY <2>3, <3>2, <3>3 DEF Answer
  <2>4. CASE Expire(t)
      BY <1>0, <2>0, <2>4, TurnsTyped DEF Expire, ChannelTypes
  <2>5. CASE ExpireChannel(t)
      BY <1>0, <2>0, <2>5, TurnsTyped, MarkDeadTyped DEF ExpireChannel, ChannelTypes
  <2>6. CASE Kill(t)
      BY <2>0, <2>6, GoneTyped, ReturnsTyped DEF Kill, ChannelTypes
  <2>7. QED
      BY <1>2, <2>1, <2>2, <2>3, <2>4, <2>5, <2>6 DEF RequestStep
<1>3. ASSUME NEW c \in Channels, WireStep(c) PROVE ChannelTypes'
  <2>1. CASE Write(c)
    <3>1. UNCHANGED <<slot, slotHolder, started, process, doing, channel>>
        BY <2>1 DEF Write
    <3>2. CASE UNCHANGED <<pending, reply>>
        BY <3>1, <3>2 DEF ChannelTypes
    <3>3. CASE MarkDead(c)
        BY <3>1, <3>3, MarkDeadTyped DEF ChannelTypes
    <3>4. QED
        BY <2>1, <3>2, <3>3 DEF Write
  <2>2. CASE GuardianExits(c)
      BY <2>2, GoneTyped DEF GuardianExits, ChannelTypes
  <2>3. CASE ReaderStops(c)
      BY <2>3, MarkDeadTyped DEF ReaderStops, ChannelTypes
  <2>4. ASSUME NEW t \in Threads, GuardianReplies(c, t) PROVE ChannelTypes'
      BY <2>4 DEF GuardianReplies, ChannelTypes
  <2>5. ASSUME NEW t \in Threads, ReadReply(c, t) PROVE ChannelTypes'
      BY <2>5 DEF ReadReply, ChannelTypes
  <2>6. QED
      BY <1>3, <2>1, <2>2, <2>3, <2>4, <2>5 DEF WireStep
<1>4. CASE SetClosed
    BY <1>4 DEF SetClosed, wire, ChannelTypes
<1>5. CASE UNCHANGED channelVars
    BY <1>5 DEF channelVars, ChannelTypes
<1>6. QED
    BY <1>1, <1>2, <1>3, <1>4, <1>5, Steps

LEMMA ReturnsPlaced ==
    ASSUME ChannelInv, NEW t \in Threads, RequestReturns(t), UNCHANGED <<slot, slotHolder>>,
           channel[t] \in Channels
    PROVE  ThreadPlaces' /\ Holders'
<1> USE DEF ChannelInv, ChannelTypes, ThreadPlaces, Holders
<1>1. CASE Shaking(t)
    BY <1>1 DEF RequestReturns, Shaking, Turns
<1>2. CASE ~Shaking(t)
    BY <1>2 DEF RequestReturns, Shaking, Turns
<1>3. QED
    BY <1>1, <1>2

LEMMA TakeOutPlaced ==
    ASSUME ChannelInv, NEW t \in Threads, NEW to \in {"restarting", "closing"},
           NEW done \in {"idle", "closed"}, TakeOut(t, to, done)
    PROVE  ThreadPlaces' /\ Holders'
<1> USE DEF ChannelInv, ChannelTypes, ThreadPlaces, Holders
<1>1. slotHolder = {} /\ slot' = 0 /\ doing[t] = "idle"
    BY DEF TakeOut
<1>2. CASE slot = 0
    BY <1>1, <1>2 DEF TakeOut, Turns
<1>3. CASE slot # 0
  <2>1. slot \in Channels
      BY <1>3, ChannelAssumption DEF Channels
  <2>2. /\ doing' = [doing EXCEPT ![t] = to]
        /\ slotHolder' = {t}
        /\ channel' = [channel EXCEPT ![t] = slot]
      BY <1>3 DEF TakeOut, Turns
  <2>3. QED
      BY <1>1, <2>1, <2>2
<1>4. QED
    BY <1>2, <1>3

LEMMA PlaceStep == ChannelInv /\ [ChannelNext]_channelVars => ThreadPlaces' /\ Holders'
<1> SUFFICES ASSUME ChannelInv, [ChannelNext]_channelVars PROVE ThreadPlaces' /\ Holders'
    OBVIOUS
<1> USE ChannelAssumption DEF ChannelInv, ChannelTypes, ThreadPlaces, Holders, Channels, Doings
<1>1. ASSUME NEW t \in Threads, SlotStep(t) PROVE ThreadPlaces' /\ Holders'
  <2>1. CASE Ensure(t)
    <3>1. ThreadPlaces'
      <4>1. \A u \in Threads : doing'[u] \notin {"idle", "closed"} /\ u # t => channel'[u] \in Channels
          BY <2>1 DEF Ensure, Started, Turns
      <4>2. channel'[t] \in Channels
          BY <2>1 DEF Ensure, Started, Turns
      <4>3. QED
          BY <4>1, <4>2
    <3>2. Holders'
        BY <2>1, SMTT(20) DEF Ensure, Started, Turns
    <3>3. QED
        BY <3>1, <3>2
  <2>2. CASE Restart(t)
      BY <2>2, TakeOutPlaced DEF Restart
  <2>3. CASE CloseShell(t)
      BY <2>3, TakeOutPlaced DEF CloseShell
  <2>4. CASE Reaped(t)
      BY <2>4 DEF Reaped, Turns
  <2>5. CASE Aborted(t)
      BY <2>5 DEF Aborted, Turns
  <2>6. QED
      BY <1>1, <2>1, <2>2, <2>3, <2>4, <2>5 DEF SlotStep
<1>2. ASSUME NEW t \in Threads, RequestStep(t) PROVE ThreadPlaces' /\ Holders'
  <2>1. CASE Register(t)
    <3> DEFINE refused == deadChannel[channel[t]] \/ Cardinality(pending[channel[t]]) >= MaxPending
    <3>1. CASE refused
        BY <2>1, <3>1, SMTT(20) DEF Register, RequestReturns, Shaking, Turns
    <3>2. CASE ~refused
        BY <2>1, <3>2 DEF Register, Turns
    <3>3. QED
        BY <3>1, <3>2
  <2>2. CASE Enqueue(t)
    <3>1. UNCHANGED <<slot, slotHolder>> /\ doing[t] = "sending" /\ channel[t] \in Channels
        BY <2>2 DEF Enqueue
    <3>2. CASE Turns(t, "waiting") /\ UNCHANGED channel
        BY <3>1, <3>2 DEF Turns
    <3>3. CASE RequestReturns(t)
        BY <3>1, <3>3, ReturnsPlaced
    <3>4. QED
        BY <2>2, <3>2, <3>3 DEF Enqueue
  <2>3. CASE Answer(t)
    <3>1. doing[t] = "waiting" /\ channel[t] \in Channels
        BY <2>3 DEF Answer
    <3>2. CASE slotHolder' = {} /\ Turns(t, "calling") /\ UNCHANGED channel /\ Shaking(t)
        BY <3>1, <3>2 DEF Turns, Shaking
    <3>3. CASE RequestReturns(t) /\ UNCHANGED <<slot, slotHolder>>
        BY <3>1, <3>3, ReturnsPlaced
    <3>4. QED
        BY <2>3, <3>2, <3>3 DEF Answer
  <2>4. CASE Expire(t) \/ ExpireChannel(t)
    <3>1. CASE Expire(t)
        BY <3>1 DEF Expire, Turns
    <3>2. CASE ExpireChannel(t)
        BY <3>2 DEF ExpireChannel, Turns
    <3>3. QED
        BY <2>4, <3>1, <3>2
  <2>5. CASE Kill(t)
      BY <2>5 DEF Kill, RequestReturns, Shaking, Turns
  <2>6. QED
      BY <1>2, <2>1, <2>2, <2>3, <2>4, <2>5 DEF RequestStep
<1>3. ASSUME NEW c \in Channels, WireStep(c) PROVE ThreadPlaces' /\ Holders'
    BY <1>3 DEF WireStep, Write, GuardianExits, ReaderStops, GuardianReplies, ReadReply
<1>4. CASE SetClosed
    BY <1>4 DEF SetClosed
<1>5. CASE UNCHANGED channelVars
    BY <1>5 DEF channelVars
<1>6. QED
    BY <1>1, <1>2, <1>3, <1>4, <1>5, Steps

LEMMA TakeOutOwned ==
    ASSUME ChannelInv, NEW t \in Threads, NEW to \in {"restarting", "closing"},
           NEW done \in {"idle", "closed"}, TakeOut(t, to, done),
           to = "closing" \/ done = "closed" => closed
    PROVE  Owned' /\ ClosedOnce'
<1> USE DEF ChannelInv, ChannelTypes, Owned, ClosedOnce
<1>1. slotHolder = {} /\ closed' = closed
    BY DEF TakeOut
<1>2. CASE slot = 0
  <2>1. doing' = [doing EXCEPT ![t] = done] /\ process' = process
      BY <1>2 DEF TakeOut, Turns, wire
  <2>2. \A c \in Channels : process[c] # "up"
      BY <1>1, <1>2, ChannelAssumption DEF Channels
  <2>3. QED
      BY <1>1, <2>1, <2>2
<1>3. CASE slot # 0
  <2>1. /\ doing' = [doing EXCEPT ![t] = to] /\ process' = process
        /\ slotHolder' = {t}
        /\ channel' = [channel EXCEPT ![t] = slot]
      BY <1>3 DEF TakeOut, Turns
  <2>2. QED
      BY <1>1, <2>1
<1>4. QED
    BY <1>2, <1>3

LEMMA SlotsOwnedStep == ChannelInv /\ [ChannelNext]_channelVars => Owned' /\ ClosedOnce'
<1> SUFFICES ASSUME ChannelInv, [ChannelNext]_channelVars PROVE Owned' /\ ClosedOnce'
    OBVIOUS
<1> USE ChannelAssumption
    DEF ChannelInv, ChannelTypes, ThreadPlaces, Holders, Owned, ClosedOnce, Channels, Doings
<1>1. ASSUME NEW t \in Threads, SlotStep(t) PROVE Owned' /\ ClosedOnce'
  <2>1. CASE Ensure(t)
      BY <2>1 DEF Ensure, Started, Turns
  <2>2. CASE Restart(t)
      BY <2>2, TakeOutOwned DEF Restart
  <2>3. CASE CloseShell(t)
      BY <2>3, TakeOutOwned DEF CloseShell
  <2>4. CASE Reaped(t)
      BY <2>4 DEF Reaped, ProcessGone, Turns
  <2>5. CASE Aborted(t)
      BY <2>5 DEF Aborted, ProcessGone, Turns
  <2>6. QED
      BY <1>1, <2>1, <2>2, <2>3, <2>4, <2>5 DEF SlotStep
<1>2. ASSUME NEW t \in Threads, RequestStep(t) PROVE Owned' /\ ClosedOnce'
  <2>1. CASE Register(t)
      BY <2>1 DEF Register, RequestReturns, Shaking, Turns
  <2>2. CASE Enqueue(t)
      BY <2>2 DEF Enqueue, RequestReturns, Shaking, Turns
  <2>3. CASE Answer(t)
      BY <2>3 DEF Answer, RequestReturns, Shaking, Turns, wire
  <2>4. CASE Expire(t) \/ ExpireChannel(t)
    <3>1. CASE Expire(t)
        BY <3>1 DEF Expire, Turns
    <3>2. CASE ExpireChannel(t)
        BY <3>2 DEF ExpireChannel, Turns
    <3>3. QED
        BY <2>4, <3>1, <3>2
  <2>5. CASE Kill(t)
      BY <2>5 DEF Kill, ProcessGone, RequestReturns, Shaking, Turns
  <2>6. QED
      BY <1>2, <2>1, <2>2, <2>3, <2>4, <2>5 DEF RequestStep
<1>3. ASSUME NEW c \in Channels, WireStep(c) PROVE Owned' /\ ClosedOnce'
    BY <1>3 DEF WireStep, Write, GuardianExits, ProcessGone, ReaderStops, GuardianReplies,
       ReadReply
<1>4. CASE SetClosed
    BY <1>4 DEF SetClosed, wire
<1>5. CASE UNCHANGED channelVars
    BY <1>5 DEF channelVars
<1>6. QED
    BY <1>1, <1>2, <1>3, <1>4, <1>5, Steps

\* A dead channel answers those it forgets; the others are where they were.
LEMMA MarkDeadRegistered ==
    ASSUME ChannelInv, NEW c \in Channels, MarkDead(c), NEW t \in Threads,
           doing[t] \in {"sending", "waiting"}, channel'[t] = channel[t]
    PROVE  reply'[t] = "none" => t \in pending'[channel'[t]]
<1>1. channel[t] \in Channels
    BY DEF ChannelInv, ThreadPlaces
<1>2. CASE channel[t] = c
    BY <1>1, <1>2 DEF ChannelInv, ChannelTypes, Registered, MarkDead
<1>3. CASE channel[t] # c
    BY <1>1, <1>3 DEF ChannelInv, ChannelTypes, Registered, MarkDead
<1>4. QED
    BY <1>2, <1>3

LEMMA TakeOutRegistered ==
    ASSUME ChannelInv, NEW t \in Threads, NEW to \in {"restarting", "closing"},
           NEW done \in {"idle", "closed"}, TakeOut(t, to, done)
    PROVE  Registered'
<1>1. CASE slot = 0
  <2>1. doing' = [doing EXCEPT ![t] = done] /\ UNCHANGED <<channel, pending, reply>>
      BY <1>1 DEF TakeOut, Turns, wire
  <2>2. QED
      BY <2>1 DEF ChannelInv, ChannelTypes, Registered
<1>2. CASE slot # 0
  <2>1. /\ doing' = [doing EXCEPT ![t] = to]
        /\ channel' = [channel EXCEPT ![t] = slot]
        /\ MarkDead(slot)
      BY <1>2 DEF TakeOut, Turns
  <2>2. slot \in Channels
      BY <1>2, ChannelAssumption DEF ChannelInv, ChannelTypes, Channels
  <2>3. ASSUME NEW s \in Threads, doing'[s] \in {"sending", "waiting"}, reply'[s] = "none"
        PROVE  s \in pending'[channel'[s]]
    <3>1. doing[s] = doing'[s] /\ channel'[s] = channel[s]
        BY <2>1, <2>3 DEF ChannelInv, ChannelTypes
    <3>2. QED
        BY <2>1, <2>2, <2>3, <3>1, MarkDeadRegistered
  <2>4. QED
      BY <2>3 DEF Registered
<1>3. QED
    BY <1>1, <1>2

LEMMA RegisteredStep == ChannelInv /\ [ChannelNext]_channelVars => Registered'
<1> SUFFICES ASSUME ChannelInv, [ChannelNext]_channelVars PROVE Registered'
    OBVIOUS
<1> USE ChannelAssumption DEF ChannelInv, ChannelTypes, ThreadPlaces, Registered, Channels, Doings
<1>1. ASSUME NEW t \in Threads, SlotStep(t) PROVE Registered'
  <2>1. CASE Ensure(t)
      BY <2>1 DEF Ensure, Started, Turns
  <2>2. CASE Restart(t)
      BY <2>2, TakeOutRegistered DEF Restart
  <2>3. CASE CloseShell(t)
      BY <2>3, TakeOutRegistered DEF CloseShell
  <2>4. CASE Reaped(t)
      BY <2>4 DEF Reaped, Turns
  <2>5. CASE Aborted(t)
      BY <2>5 DEF Aborted, MarkDead, Turns
  <2>6. QED
      BY <1>1, <2>1, <2>2, <2>3, <2>4, <2>5 DEF SlotStep
<1>2. ASSUME NEW t \in Threads, RequestStep(t) PROVE Registered'
  <2>1. CASE Register(t)
    <3> DEFINE refused == deadChannel[channel[t]] \/ Cardinality(pending[channel[t]]) >= MaxPending
    <3>1. CASE refused
        BY <2>1, <3>1 DEF Register, RequestReturns, Turns
    <3>2. CASE ~refused
        BY <2>1, <3>2, SMTT(20) DEF Register, Turns
    <3>3. QED
        BY <3>1, <3>2
  <2>2. CASE Enqueue(t)
    <3>1. doing[t] = "sending" /\ channel[t] \in Channels
        BY <2>2 DEF Enqueue
    <3>2. CASE Turns(t, "waiting") /\ UNCHANGED <<pending, channel, reply>>
        BY <3>1, <3>2 DEF Turns
    <3>3. CASE /\ pending' = [pending EXCEPT ![channel[t]] = @ \ {t}]
               /\ RequestReturns(t)
               /\ reply' = [reply EXCEPT ![t] = "none"]
      <4>1. doing'[t] \notin {"sending", "waiting"}
          BY <3>3 DEF RequestReturns, Turns
      <4>2. \A s \in Threads : s # t =>
                doing'[s] = doing[s] /\ channel'[s] = channel[s] /\ reply'[s] = reply[s]
          BY <3>3 DEF RequestReturns, Turns
      <4>3. \A c \in Channels : pending[c] \subseteq pending'[c] \cup {t}
          BY <3>1, <3>3
      <4>4. QED
          BY <4>1, <4>2, <4>3
    <3>4. QED
        BY <2>2, <3>2, <3>3 DEF Enqueue
  <2>3. CASE Answer(t)
      BY <2>3 DEF Answer, RequestReturns, Turns, wire
  <2>4. CASE Expire(t)
    <3>1. channel[t] \in Channels
        BY <2>4 DEF Expire
    <3>2. \A c \in Channels : pending[c] \subseteq pending'[c] \cup {t}
        BY <2>4, <3>1 DEF Expire
    <3>3. QED
        BY <2>4, <3>2 DEF Expire, Turns
  <2>5. CASE ExpireChannel(t)
    <3>1. channel[t] \in Channels /\ MarkDead(channel[t]) /\ channel' = channel
        BY <2>5 DEF ExpireChannel
    <3>2. \A s \in Threads : doing'[s] \in {"sending", "waiting"} => doing[s] = doing'[s]
        BY <2>5 DEF ExpireChannel, Turns
    <3>3. QED
        BY <3>1, <3>2, MarkDeadRegistered
  <2>6. CASE Kill(t)
      BY <2>6 DEF Kill, RequestReturns, Turns
  <2>7. QED
      BY <1>2, <2>1, <2>2, <2>3, <2>4, <2>5, <2>6 DEF RequestStep
<1>3. ASSUME NEW c \in Channels, WireStep(c) PROVE Registered'
    BY <1>3 DEF WireStep, Write, GuardianExits, ReaderStops, MarkDead, GuardianReplies,
       ReadReply
<1>4. CASE SetClosed
    BY <1>4 DEF SetClosed, wire
<1>5. CASE UNCHANGED channelVars
    BY <1>5 DEF channelVars
<1>6. QED
    BY <1>1, <1>2, <1>3, <1>4, <1>5, Steps

LEMMA ChannelInvariance == ChannelSpec => []ChannelInv
<1>1. ChannelInit => ChannelInv
    BY ChannelAssumption DEF ChannelInit, ChannelInv, ChannelTypes, ThreadPlaces, Holders, Owned,
       ClosedOnce, Registered, Channels, Doings
<1>2. ChannelInv /\ [ChannelNext]_channelVars => ChannelInv'
    BY ChannelTypeStep, PlaceStep, SlotsOwnedStep, RegisteredStep DEF ChannelInv
<1>3. QED
    BY <1>1, <1>2, PTL DEF ChannelSpec

\* GuardianState and request(): at most one guardian runs, and none after the
\* shell has closed.
THEOREM SlotIsKept == ChannelSpec => []SlotKept
<1>1. ChannelInv => SlotKept
  <2> SUFFICES ASSUME ChannelInv PROVE SlotKept
      OBVIOUS
  <2> DEFINE Up == {c \in Channels : process[c] = "up"}
  <2>1. \A c, d \in Up : c = d
      BY ChannelAssumption DEF ChannelInv, ChannelTypes, Holders, Owned, Channels
  <2>2. OneGuardian
    <3>1. CASE Up = {}
        BY <3>1, FS_EmptySet DEF OneGuardian
    <3>2. CASE \E c \in Up : Up = {c}
        BY <3>2, FS_Singleton, SMTT(30) DEF OneGuardian
    <3>3. QED
        BY <2>1, <3>1, <3>2
  <2>3. ClosedForGood
      BY DEF ChannelInv, ClosedOnce, ClosedForGood
  <2>4. QED
      BY <2>2, <2>3 DEF SlotKept
<1>2. QED
    BY <1>1, ChannelInvariance, PTL

\* mark_dead, the reader and the writer: a request that waits is registered
\* with the channel it was sent on.
THEOREM WaitersRegistered == ChannelSpec => []NobodyForgotten
<1>1. ChannelInv => NobodyForgotten
    BY DEF ChannelInv, Registered, NobodyForgotten
<1>2. QED
    BY <1>1, ChannelInvariance, PTL

-----------------------------------------------------------------------------
(* OwnedProcess. *)

\* What the close event tells lasts: there is no process and no pipe any more.
Closed ==
    /\ closeSeen => child = "gone" /\ ~heirs
    /\ child = "none" => ~heirs

\* Only a call that settles kills the parser, and it is told if that failed.
ParserKilled ==
    caller = "parser" =>
        /\ kill # "none" => owner # "running"
        /\ kill = "reported" /\ ~closeSeen => verdict = "unconfirmed"

\* A JVM that is left behind is told of, whoever settled the call.
JvmTold ==
    caller = "java" /\ owner # "running" /\ Remains => verdict \in {"unconfirmed", "unassigned"}

\* A call returns when its process is gone, when the kill has been reported, or
\* at once if the process could not be registered, which kills it.
Returned ==
    owner = "done" =>
        \/ kill = "reported" \/ ~Remains
        \/ kill = "sent" /\ caller \in {"java", "deadline"} /\ verdict = "unassigned"

OwnedInv == OwnedTypeOK /\ Closed /\ ParserKilled /\ JvmTold /\ Returned

-----------------------------------------------------------------------------

LEMMA OwnedTypeStep == OwnedTypeOK /\ [OwnedNext]_ownedVars => OwnedTypeOK'
<1> SUFFICES ASSUME OwnedTypeOK, [OwnedNext]_ownedVars PROVE OwnedTypeOK'
    OBVIOUS
<1> USE DEF OwnedTypeOK, Callers, Verdicts
<1>1. CASE Spawn \/ Fork \/ ChildEnds \/ HeirsEnd
  <2>1. CASE Spawn
      BY <2>1 DEF Spawn
  <2>2. CASE Fork
      BY <2>2 DEF Fork
  <2>3. CASE ChildEnds
      BY <2>3 DEF ChildEnds
  <2>4. CASE HeirsEnd
      BY <2>4 DEF HeirsEnd
  <2>5. QED
      BY <1>1, <2>1, <2>2, <2>3, <2>4
<1>2. CASE GraceOver \/ ReportKill \/ DisposeOnce
    BY <1>2 DEF GraceOver, ReportKill, Confirms, DisposeOnce
<1>3. CASE SpawnFails \/ RegisterFails
    BY <1>3 DEF SpawnFails, Settles, RegisterFails
<1>4. ASSUME NEW why \in {"deadline", "abort", "stdin"}, Stop(why) PROVE OwnedTypeOK'
    BY <1>4 DEF Stop, Reasons, Settles, Terminated
<1>5. CASE ExitEvent
    BY <1>5 DEF ExitEvent
<1>6. CASE CloseEvent
    BY <1>6 DEF CloseEvent, Settles, CloseVerdict
<1>7. CASE ParserReplies \/ GiveUpReaping \/ GiveUpDraining
    BY <1>7 DEF ParserReplies, GiveUpReaping, GiveUpDraining, Settles
<1>8. CASE UNCHANGED ownedVars
    BY <1>8 DEF ownedVars
<1>9. QED
    BY <1>1, <1>2, <1>3, <1>4, <1>5, <1>6, <1>7, <1>8 DEF OwnedNext

LEMMA OwnedStep == OwnedInv /\ [OwnedNext]_ownedVars => OwnedInv'
<1> SUFFICES ASSUME OwnedInv, [OwnedNext]_ownedVars
             PROVE  Closed' /\ ParserKilled' /\ JvmTold' /\ Returned'
    BY OwnedTypeStep DEF OwnedInv
<1> USE DEF OwnedInv, OwnedTypeOK, Closed, ParserKilled, JvmTold, Returned, Remains
<1>1. CASE Spawn \/ Fork \/ ChildEnds \/ HeirsEnd
    BY <1>1 DEF Spawn, Fork, ChildEnds, HeirsEnd
<1>2. CASE GraceOver \/ ReportKill
    BY <1>2 DEF GraceOver, ReportKill, Confirms
<1>3. CASE DisposeOnce
    BY <1>3 DEF DisposeOnce
<1>4. CASE SpawnFails \/ RegisterFails
    BY <1>4 DEF SpawnFails, Settles, RegisterFails
<1>5. ASSUME NEW why \in {"deadline", "abort", "stdin"}, Stop(why)
      PROVE  Closed' /\ ParserKilled' /\ JvmTold' /\ Returned'
    BY <1>5 DEF Stop, Reasons, Settles, Terminated
<1>6. CASE ExitEvent
    BY <1>6 DEF ExitEvent
<1>7. CASE CloseEvent
    BY <1>7 DEF CloseEvent, Settles
<1>8. CASE ParserReplies \/ GiveUpReaping \/ GiveUpDraining
    BY <1>8 DEF ParserReplies, GiveUpReaping, GiveUpDraining, Settles
<1>9. CASE UNCHANGED ownedVars
    BY <1>9 DEF ownedVars
<1>10. QED
    BY <1>1, <1>2, <1>3, <1>4, <1>5, <1>6, <1>7, <1>8, <1>9 DEF OwnedNext

LEMMA OwnedInvariance == OwnedSpec => []OwnedInv
<1>1. OwnedInit => OwnedInv
    BY DEF OwnedInit, OwnedInv, OwnedTypeOK, Callers, Verdicts, Closed, ParserKilled, JvmTold,
       Returned, Remains
<1>2. QED
    BY <1>1, OwnedStep, PTL DEF OwnedSpec

\* settle(), finish() and dispose(): a process that outlives its call was
\* killed, and the owner of a JVM or of a parser knows that it may be there.
THEOREM NothingHidden == OwnedSpec => []NothingLeftUnseen
<1>1. OwnedInv => NothingLeftUnseen
    BY DEF OwnedInv, OwnedTypeOK, Closed, ParserKilled, JvmTold, Returned, NothingLeftUnseen,
       Remains
<1>2. QED
    BY <1>1, OwnedInvariance, PTL

-----------------------------------------------------------------------------
(* ScriptHost. *)

\* What is known of a message by the place its script has reached.
Stage(i) ==
    /\ script[i] \in {"none", "running"} => answer[i] = "none"
    /\ script[i] = "waiting" => answer[i] \in {"none", "timeout"}
    /\ script[i] \in {"none", "unrun"} => decided[i] = 0
    /\ script[i] = "over" => ops[i] >= decided[i]
    /\ decided[i] <= edits[i]

\* A message is in flight from its arrival to its one reply.
Answered(i) ==
    replies[i] = IF script[i] = "none" \/ i \in inflight THEN 0 ELSE 1

Taken(i) == i \in inflight => script[i] # "none"

\* A dialog that is not over has called nothing back.
Callbacks(i) == called[i] <= (IF dialog[i] = "over" THEN 1 ELSE 0)

\* No message is taken after a shutdown, and no script is on when the worker exits.
Stopped ==
    /\ stopping => inflight \subseteq awaited
    /\ exited # "no" => \A i \in Invokes : script[i] # "running"
    /\ exited = "drained" => inflight = {}

HostInv ==
    /\ HostTypeOK
    /\ \A i \in Invokes : Stage(i)
    /\ \A i \in Invokes : Answered(i) /\ Taken(i)
    /\ \A i \in Invokes : Callbacks(i)
    /\ Stopped

LEMMA HostInitInv == HostInit => HostInv
<1> SUFFICES ASSUME HostInit PROVE HostInv
  OBVIOUS
<1> USE HostAssumption DEF HostInit
<1>1. HostTypeOK
  <2>1. [i \in Invokes |-> 0] \in [Invokes -> 0..MaxEdits]
    OBVIOUS
  <2>2. [i \in Invokes |-> "none"] \in [Invokes -> HostOutcomes]
    BY DEF HostOutcomes
  <2> QED
    BY <2>1, <2>2 DEF HostTypeOK
<1>2. \A i \in Invokes : Stage(i)
  BY DEF Stage
<1>3. \A i \in Invokes : Answered(i) /\ Taken(i)
  BY DEF Answered, Taken
<1>4. \A i \in Invokes : Callbacks(i)
  BY DEF Callbacks
<1>5. Stopped
  BY DEF Stopped
<1> QED
  BY <1>1, <1>2, <1>3, <1>4, <1>5 DEF HostInv

\* The steps of the scripts, split by what they are.
LEMMA HostSteps ==
    ASSUME HostNext
    PROVE  \/ Shutdown \/ ExitDrained \/ ExitForced
           \/ \E i \in Invokes :
                \/ RefuseInvoke(i) \/ StartInvoke(i)
                \/ \E choice \in {"answered", "dismissed"} : DialogRespond(i, choice)
                \/ Edit(i) \/ OpenDialog(i)
                \/ \E how \in {"resolved", "rejected"} :
                      Decide(i, how) \/ AsyncOver(i, how)
                \/ \E how \in {"returns", "throws", "expires"} :
                      SyncEntryOver(i, how) \/ SyncOver(i, how)
                \/ OuterDeadline(i) \/ Reply(i)
  BY DEF HostNext, SetNameOver, AppendLogOver

LEMMA HostStep ==
    ASSUME HostInv, [HostNext]_hostVars
    PROVE  HostInv'
<1>0. HostTypeOK
  BY DEF HostInv
<1>1. CASE UNCHANGED hostVars
  BY <1>1 DEF HostInv, hostVars, HostTypeOK, Stage, Answered, Taken, Callbacks, Stopped
<1>2. CASE Shutdown
  BY <1>2 DEF Shutdown, HostInv, HostTypeOK, Stage, Answered, Taken, Callbacks, Stopped
<1>3. CASE ExitDrained
  BY <1>3 DEF ExitDrained, Free, HostInv, HostTypeOK, Stage, Answered, Taken, Callbacks, Stopped
<1>4. CASE ExitForced
  BY <1>4 DEF ExitForced, Free, HostInv, HostTypeOK, Stage, Answered, Taken, Callbacks, Stopped
<1>5. ASSUME NEW i \in Invokes, RefuseInvoke(i)
      PROVE  HostInv'
  BY <1>5 DEF RefuseInvoke, Becomes, Free, HostInv, HostTypeOK, HostOutcomes, Stage, Answered,
              Taken, Callbacks, Stopped
<1>6. ASSUME NEW i \in Invokes, StartInvoke(i)
      PROVE  HostInv'
  BY <1>6, HostAssumption DEF StartInvoke, HostReturns, Becomes, Free, HostInv, HostTypeOK, HostOutcomes, Stage,
              Answered, Taken, Callbacks, Stopped
<1>7. ASSUME NEW i \in Invokes, NEW choice \in {"answered", "dismissed"},
             DialogRespond(i, choice)
      PROVE  HostInv'
  BY <1>7 DEF DialogRespond, Free, HostInv, HostTypeOK, Stage, Answered, Taken, Callbacks, Stopped
<1>8. ASSUME NEW i \in Invokes, Edit(i)
      PROVE  HostInv'
  BY <1>8, HostAssumption DEF Edit, Free, HostInv, HostTypeOK, Stage, Answered, Taken, Callbacks, Stopped
<1>9. ASSUME NEW i \in Invokes, OpenDialog(i)
      PROVE  HostInv'
  BY <1>9 DEF OpenDialog, Free, HostInv, HostTypeOK, Stage, Answered, Taken, Callbacks, Stopped
<1>10. ASSUME NEW i \in Invokes, NEW how \in {"resolved", "rejected"}, Decide(i, how)
       PROVE  HostInv'
  BY <1>10, HostAssumption DEF Decide, HostInv, HostTypeOK, HostOutcomes, Stage, Answered, Taken, Callbacks,
               Stopped
<1>11. ASSUME NEW i \in Invokes, NEW how \in {"resolved", "rejected"},
              AsyncOver(i, how)
       PROVE  HostInv'
  BY <1>11, HostAssumption DEF AsyncOver, HostReturns, Collected, Becomes, Free, HostInv, HostTypeOK,
               HostOutcomes, Stage, Answered, Taken, Callbacks, Stopped
<1>12. ASSUME NEW i \in Invokes, NEW how \in {"returns", "throws", "expires"},
              SyncEntryOver(i, how)
       PROVE  HostInv'
  BY <1>12, HostAssumption DEF SyncEntryOver, HostReturns, Collected, Becomes, HostInv, HostTypeOK, HostOutcomes,
               Stage, Answered, Taken, Callbacks, Stopped
<1>13. ASSUME NEW i \in Invokes, NEW how \in {"returns", "throws", "expires"},
              SyncOver(i, how)
       PROVE  HostInv'
  BY <1>13, HostAssumption, SMTT(20) DEF SyncOver, HostReturns, Collected, Becomes, HostInv, HostTypeOK, HostOutcomes,
               Stage, Answered, Taken, Callbacks, Stopped
<1>14. ASSUME NEW i \in Invokes, OuterDeadline(i)
       PROVE  HostInv'
  BY <1>14 DEF OuterDeadline, Free, HostInv, HostTypeOK, HostOutcomes, Stage, Answered, Taken,
               Callbacks, Stopped
<1>15. ASSUME NEW i \in Invokes, Reply(i)
       PROVE  HostInv'
  BY <1>15 DEF Reply, Free, HostInv, HostTypeOK, Stage, Answered, Taken, Callbacks, Stopped
<1> QED
  BY <1>1, <1>2, <1>3, <1>4, <1>5, <1>6, <1>7, <1>8, <1>9, <1>10, <1>11, <1>12, <1>13, <1>14,
     <1>15, HostSteps

\* An invocation is answered once, carries what was edited before its outcome
\* was decided, and calls a dialog's callback at most once.
THEOREM InvocationsAccounted == HostSpec => []AccountedOnce
<1>1. HostInv => AccountedOnce
  <2> SUFFICES ASSUME HostInv PROVE AccountedOnce
    OBVIOUS
  <2>1. EachAnsweredOnce
    BY DEF HostInv, HostTypeOK, Answered, Taken, Stopped, EachAnsweredOnce
  <2>2. EditsGoWithTheResult
    BY HostAssumption DEF HostInv, HostTypeOK, HostOutcomes, Stage, EditsGoWithTheResult
  <2>3. CalledBackOnce
    BY DEF HostInv, HostTypeOK, Callbacks, CalledBackOnce
  <2> QED
    BY <2>1, <2>2, <2>3 DEF AccountedOnce
<1> QED
  BY <1>1, HostInitInv, HostStep, PTL DEF HostSpec

-----------------------------------------------------------------------------
(* SelectorRules. *)

\* The rule takes item i in the list p, through one of its slots.
Takes(r, i, p) ==
    \E s \in SlotsOf(i, p) :
       /\ MatchesText(r.first, First(s))
       /\ r.second = Nothing \/ MatchesText(r.second, Second(s))

Picked(p) == {i \in Candidates(p) : \E j \in DOMAIN Rules(p) : Takes(Rules(p)[j], i, p)}

\* Only what a rule takes has matched.
OnlyPicked == matched \subseteq Picked("schemes") \cup Picked("sheets")

\* The second round is about the slots whose file has matched.
Round ==
    hits # NoRound =>
       /\ Active
       /\ Rules(phase)[rule].second # Nothing
       /\ hits \subseteq UNION {SlotsOf(i, phase) : i \in Pending}
       /\ \A s \in hits : MatchesText(Rules(phase)[rule].first, First(s))
       /\ ~timedOut => \A i \in Pending : \A s \in SlotsOf(i, phase) :
                          MatchesText(Rules(phase)[rule].first, First(s)) => s \in hits

\* Without a timeout, what has not matched is taken by no rule so far.
NoneMissed ==
    timedOut \/
       /\ phase # "schemes" => Picked("schemes") \subseteq matched
       /\ phase = "done" => Picked("sheets") \subseteq matched
       /\ phase # "done" => \A i \in Pending : \A j \in 1..(rule - 1) :
                               ~Takes(Rules(phase)[j], i, phase)

SelInv == SelectorTypeOK /\ OnlyPicked /\ Round /\ NoneMissed

\* What the types say of the places and the rules.
LEMMA Shapes ==
    ASSUME SelectorTypeOK
    PROVE  /\ Places \subseteq Nat \ {0}
           /\ \A p : Rules(p) \in Seq(SelRules) /\ DOMAIN Rules(p) = 1..Len(Rules(p)) /\ Len(Rules(p)) \in 0..MaxRules
           /\ \A i \in Places : items[i] \in SelItems /\ DOMAIN items[i].sources \in {1..n : n \in 0..2}
<1>1. \A s \in SeqsUpTo(SelRules, MaxRules) :
        s \in Seq(SelRules) /\ DOMAIN s = 1..Len(s) /\ Len(s) \in 0..MaxRules
  <2> TAKE s \in SeqsUpTo(SelRules, MaxRules)
  <2>1. PICK k \in 0..MaxRules : s \in [1..k -> SelRules]
    BY DEF SeqsUpTo
  <2>2. s \in Seq(SelRules) /\ Len(s) = k
    BY <2>1, SelectorAssumption
  <2> QED
    BY <2>1, <2>2
<1>2. \A p : Rules(p) \in SeqsUpTo(SelRules, MaxRules)
  BY DEF Rules, SelectorTypeOK
<1>3. PICK k \in 0..MaxItems : items \in [1..k -> SelItems]
  BY DEF SeqsUpTo, SelectorTypeOK
<1>4. Places = 1..k
  BY <1>3 DEF Places
<1> QED
  BY <1>1, <1>2, <1>3, <1>4, SelectorAssumption

\* What item-by-item resolution picks, list by list.
LEMMA ResolutionPicks ==
    ASSUME SelectorTypeOK
    PROVE  ResolveSelectorItems = Picked("schemes") \cup Picked("sheets")
<1> DEFINE S(i) == \E r \in ToSet(byScheme) : RuleTakes(r, items[i].file, items[i].scheme)
           T(i) == \E r \in ToSet(bySheet) : \E source \in ToSet(items[i].sources) :
                      RuleTakes(r, source[1], source[2])
<1>1. \A i \in Places : S(i) <=> \E j \in DOMAIN byScheme : Takes(byScheme[j], i, "schemes")
  <2> TAKE i \in Places
  <2>1. \A r : Takes(r, i, "schemes") <=>
                 /\ MatchesText(r.first, First(<<i, 0>>))
                 /\ r.second = Nothing \/ MatchesText(r.second, Second(<<i, 0>>))
    BY DEF Takes, SlotsOf
  <2>2. First(<<i, 0>>) = items[i].file /\ Second(<<i, 0>>) = items[i].scheme
    BY DEF First, Second
  <2> QED
    BY <2>1, <2>2 DEF ToSet, RuleTakes
<1>2. \A i \in Places : T(i) <=> \E j \in DOMAIN bySheet : Takes(bySheet[j], i, "sheets")
  <2> TAKE i \in Places
  <2>1. \A k \in DOMAIN items[i].sources : k # 0
    BY Shapes
  <2>2. \A r : Takes(r, i, "sheets") <=>
                 \E k \in DOMAIN items[i].sources :
                    RuleTakes(r, items[i].sources[k][1], items[i].sources[k][2])
    <3> TAKE r
    <3>1. Takes(r, i, "sheets") <=>
            \E k \in DOMAIN items[i].sources :
               /\ MatchesText(r.first, First(<<i, k>>))
               /\ r.second = Nothing \/ MatchesText(r.second, Second(<<i, k>>))
      BY DEF Takes, SlotsOf
    <3>2. \A k \in DOMAIN items[i].sources :
             /\ First(<<i, k>>) = items[i].sources[k][1]
             /\ Second(<<i, k>>) = items[i].sources[k][2]
      BY <2>1 DEF First, Second
    <3> QED
      BY <3>1, <3>2 DEF RuleTakes
  <2> QED
    BY <2>2 DEF ToSet
<1>3. Picked("schemes") = {i \in Places : HasScheme(items[i]) /\ S(i)}
  BY <1>1 DEF Picked, Candidates, Rules
<1>4. Picked("sheets") = {i \in Places : ~HasScheme(items[i]) /\ items[i].hasSources /\ T(i)}
  BY <1>2 DEF Picked, Candidates, Rules
<1> QED
  BY <1>3, <1>4 DEF ResolveSelectorItems

\* The call does not change under way, and so neither does what it should pick.
LEMMA SameCall ==
    ASSUME UNCHANGED <<items, byScheme, bySheet>>
    PROVE  /\ Places' = Places
           /\ \A p : Candidates(p)' = Candidates(p)
           /\ \A p : Rules(p)' = Rules(p)
           /\ \A p, i : SlotsOf(i, p)' = SlotsOf(i, p)
           /\ \A s : First(s)' = First(s) /\ Second(s)' = Second(s)
           /\ \A r, i, p : Takes(r, i, p)' = Takes(r, i, p)
           /\ \A p : Picked(p)' = Picked(p)
  BY DEF Places, Candidates, Rules, SlotsOf, First, Second, Takes, Picked

LEMMA SelInitInv == SelectorInit => SelInv
<1> SUFFICES ASSUME SelectorInit PROVE SelInv
  OBVIOUS
<1>1. SelectorTypeOK
  <2>1. MaxRules \in Nat
    BY SelectorAssumption
  <2>2. 1 \in 1..(MaxRules + 1)
    BY <2>1
  <2> QED
    BY <2>2 DEF SelectorInit, SelectorTypeOK
<1>2. OnlyPicked /\ Round
  BY DEF SelectorInit, OnlyPicked, Round
<1>3. NoneMissed
  <2>1. 1..(rule - 1) = {}
    BY DEF SelectorInit
  <2> QED
    BY <2>1 DEF SelectorInit, NoneMissed
<1> QED
  BY <1>1, <1>2, <1>3 DEF SelInv

LEMMA FileRoundKeeps ==
    ASSUME SelInv, FileRound
    PROVE  SelInv'
<1> DEFINE r == Rules(phase)[rule]
           slots == UNION {SlotsOf(i, phase) : i \in Pending}
<1>1. PICK slow \in BOOLEAN :
         LET hit == IF slow THEN {} ELSE Batch(r.first, [s \in slots |-> First(s)])
         IN /\ slow => slots # {}
            /\ timedOut' = (timedOut \/ slow)
            /\ IF hit = {} \/ r.second = Nothing
               THEN rule' = rule + 1 /\ matched' = matched \cup {s[1] : s \in hit}
                    /\ UNCHANGED hits
               ELSE hits' = hit /\ UNCHANGED <<rule, matched>>
  BY DEF FileRound
<1> DEFINE hit == IF slow THEN {} ELSE {s \in slots : MatchesText(r.first, First(s))}
<1>2. /\ timedOut' = (timedOut \/ slow)
      /\ IF hit = {} \/ r.second = Nothing
         THEN rule' = rule + 1 /\ matched' = matched \cup {s[1] : s \in hit}
              /\ UNCHANGED hits
         ELSE hits' = hit /\ UNCHANGED <<rule, matched>>
  BY <1>1 DEF Batch
<1>3. Active /\ hits = NoRound /\ UNCHANGED <<items, byScheme, bySheet, phase>>
  BY DEF FileRound
<1>4. SelectorTypeOK /\ OnlyPicked /\ Round /\ NoneMissed
  BY DEF SelInv
<1>5. phase \in {"schemes", "sheets"} /\ rule \in 1..Len(Rules(phase)) /\ rule \in DOMAIN Rules(phase)
      /\ Len(Rules(phase)) \in 0..MaxRules
  BY <1>3, <1>4, Shapes DEF Active, SelectorTypeOK
<1>6. \A s \in slots : s[1] \in Pending /\ s \in SlotsOf(s[1], phase) /\ s \in Slots
  BY <1>4, Shapes DEF SlotsOf, Pending, Candidates, Slots
<1>6a. \A s \in slots : s # <<0, 0>>
  BY <1>4, <1>6, Shapes DEF Slots
<1>7. \A i \in Pending : \A s \in SlotsOf(i, phase) : s[1] = i
  BY DEF SlotsOf
<1>8. Pending' = Candidates(phase) \ matched'
  BY <1>3, SameCall DEF Pending
<1>9. CASE hit = {} \/ r.second = Nothing
  <2>1. rule' = rule + 1 /\ matched' = matched \cup {s[1] : s \in hit} /\ hits' = NoRound
    BY <1>2, <1>3, <1>9
  <2>2. \A s \in hit : Takes(r, s[1], phase)
    BY <1>6, <1>9 DEF Takes
  <2>3. {s[1] : s \in hit} \subseteq Picked(phase)
    BY <2>2, <1>5, <1>6 DEF Picked, Pending
  <2>4. Picked(phase) \subseteq Picked("schemes") \cup Picked("sheets")
    BY <1>5
  <2>5. OnlyPicked'
    BY <2>1, <2>3, <2>4, <1>3, <1>4, SameCall DEF OnlyPicked
  <2>6. \A i \in Pending' : i \in Pending /\ (~slow => ~Takes(r, i, phase))
    <3> SUFFICES ASSUME NEW i \in Pending', ~slow, Takes(r, i, phase)
                 PROVE  FALSE
      BY <1>8, <2>1 DEF Pending
    <3>1. i \in Pending
      BY <1>8, <2>1 DEF Pending
    <3>2. PICK s \in SlotsOf(i, phase) : MatchesText(r.first, First(s))
      BY DEF Takes
    <3>3. s \in hit /\ s[1] = i
      BY <3>1, <3>2, <1>7
    <3> QED
      BY <3>3, <1>8, <2>1
  <2>7. NoneMissed'
    <3> SUFFICES ASSUME ~timedOut, ~slow
                 PROVE  NoneMissed'
      BY <1>2 DEF NoneMissed
    <3>1. \A i \in Pending' : \A j \in 1..(rule' - 1) : ~Takes(Rules(phase)[j], i, phase)
      BY <2>1, <2>6, <1>4, <1>5 DEF NoneMissed
    <3>2. phase # "schemes" => Picked("schemes") \subseteq matched'
      BY <2>1, <1>4 DEF NoneMissed
    <3> QED
      BY <3>1, <3>2, <1>3, <1>5, SameCall DEF NoneMissed
  <2>8. SelectorTypeOK'
    <3>1. {s[1] : s \in hit} \subseteq Places
      BY <1>6 DEF Pending, Candidates
    <3>2. rule' \in 1..(MaxRules + 1)
      BY <2>1, <1>5, SelectorAssumption DEF SelectorTypeOK
    <3>3. timedOut' \in BOOLEAN
      BY <1>2, <1>4 DEF SelectorTypeOK
    <3> QED
      BY <3>1, <3>2, <3>3, <2>1, <1>3, <1>4, SameCall DEF SelectorTypeOK
  <2>9. Round'
    BY <2>1 DEF Round, NoRound
  <2> QED
    BY <2>5, <2>7, <2>8, <2>9 DEF SelInv
<1>10. CASE ~(hit = {} \/ r.second = Nothing)
  <2>1. hits' = hit /\ rule' = rule /\ matched' = matched /\ r.second # Nothing /\ ~slow
    BY <1>2, <1>10
  <2>2. timedOut' = timedOut /\ Pending' = Pending
    BY <1>2, <2>1, <1>8, <1>4 DEF Pending, SelectorTypeOK
  <2>3. Active'
    BY <1>3, <2>1, <2>2, SameCall DEF Active
  <2>4. OnlyPicked' /\ NoneMissed'
    BY <2>1, <2>2, <1>3, <1>4, SameCall DEF OnlyPicked, NoneMissed
  <2>5. Round'
    <3>1. /\ hits' \subseteq slots
          /\ \A s \in hits' : MatchesText(r.first, First(s))
          /\ \A i \in Pending : \A s \in SlotsOf(i, phase) :
                MatchesText(r.first, First(s)) => s \in hits'
      BY <2>1
    <3> QED
      BY <3>1, <2>1, <2>2, <2>3, <1>3, SameCall DEF Round
  <2>6. SelectorTypeOK'
    <3>1. hits' \subseteq Slots
      BY <2>1, <1>6
    <3>2. Slots' = Slots
      BY <1>3, SameCall DEF Slots
    <3> QED
      BY <3>1, <3>2, <2>1, <2>2, <1>3, <1>4, SameCall DEF SelectorTypeOK
  <2> QED
    BY <2>3, <2>4, <2>5, <2>6 DEF SelInv
<1> QED
  BY <1>9, <1>10

LEMMA SecondRoundKeeps ==
    ASSUME SelInv, SecondRound
    PROVE  SelInv'
<1> DEFINE r == Rules(phase)[rule]
<1>1. PICK slow \in BOOLEAN :
         LET second == [s \in hits |-> Second(s)]
             hit == IF slow THEN {} ELSE Batch(Rules(phase)[rule].second, second)
         IN /\ timedOut' = (timedOut \/ slow)
            /\ matched' = matched \cup {s[1] : s \in hit}
  BY DEF SecondRound
<1> DEFINE hit == IF slow THEN {} ELSE {s \in hits : MatchesText(r.second, Second(s))}
<1>2. /\ timedOut' = (timedOut \/ slow)
      /\ matched' = matched \cup {s[1] : s \in hit}
  BY <1>1 DEF Batch
<1>3. /\ Active /\ hits # NoRound /\ hits' = NoRound /\ rule' = rule + 1
      /\ UNCHANGED <<items, byScheme, bySheet, phase>>
  BY DEF SecondRound
<1>4. SelectorTypeOK /\ OnlyPicked /\ Round /\ NoneMissed
  BY DEF SelInv
<1>5. phase \in {"schemes", "sheets"} /\ rule \in 1..Len(Rules(phase)) /\ rule \in DOMAIN Rules(phase)
      /\ Len(Rules(phase)) \in 0..MaxRules
  BY <1>3, <1>4, Shapes DEF Active, SelectorTypeOK
<1>6. \A s \in hits : s[1] \in Pending /\ s \in SlotsOf(s[1], phase)
  BY <1>3, <1>4 DEF SlotsOf, Round
<1>7. \A i \in Pending : \A s \in SlotsOf(i, phase) : s[1] = i
  BY DEF SlotsOf
<1>8. Pending' = Candidates(phase) \ matched'
  BY <1>3, SameCall DEF Pending
<1>9. r.second # Nothing /\ \A s \in hits : MatchesText(r.first, First(s))
  BY <1>3, <1>4 DEF Round
<1>10. \A s \in hit : Takes(r, s[1], phase)
  BY <1>6, <1>9 DEF Takes
<1>11. OnlyPicked'
  <2>1. {s[1] : s \in hit} \subseteq Picked(phase)
    BY <1>10, <1>5, <1>6 DEF Picked, Pending
  <2>2. Picked(phase) \subseteq Picked("schemes") \cup Picked("sheets")
    BY <1>5
  <2> QED
    BY <2>1, <2>2, <1>2, <1>3, <1>4, SameCall DEF OnlyPicked
<1>12. \A i \in Pending' : i \in Pending /\ (~timedOut' => ~Takes(r, i, phase))
  <2> SUFFICES ASSUME NEW i \in Pending', ~slow, ~timedOut, Takes(r, i, phase)
               PROVE  FALSE
    BY <1>8, <1>2 DEF Pending
  <2>1. i \in Pending
    BY <1>8, <1>2 DEF Pending
  <2>2. PICK s \in SlotsOf(i, phase) : MatchesText(r.first, First(s)) /\ MatchesText(r.second, Second(s))
    BY <1>9 DEF Takes
  <2>3. s \in hits
    BY <2>1, <2>2, <1>3, <1>4 DEF Round
  <2>4. s \in hit /\ s[1] = i
    BY <2>1, <2>2, <2>3, <1>7
  <2> QED
    BY <2>4, <1>8, <1>2
<1>13. NoneMissed'
  <2> SUFFICES ASSUME ~timedOut, ~slow
               PROVE  NoneMissed'
    BY <1>2 DEF NoneMissed
  <2>1. \A i \in Pending' : \A j \in 1..(rule' - 1) : ~Takes(Rules(phase)[j], i, phase)
    BY <1>2, <1>3, <1>12, <1>4, <1>5 DEF NoneMissed
  <2>2. phase # "schemes" => Picked("schemes") \subseteq matched'
    BY <1>2, <1>4 DEF NoneMissed
  <2> QED
    BY <2>1, <2>2, <1>3, <1>5, SameCall DEF NoneMissed
<1>14. SelectorTypeOK'
  <2>1. {s[1] : s \in hit} \subseteq Places
    BY <1>6 DEF Pending, Candidates
  <2>2. rule' \in 1..(MaxRules + 1)
    BY <1>3, <1>5, SelectorAssumption DEF SelectorTypeOK
  <2>3. timedOut' \in BOOLEAN
    BY <1>2, <1>4 DEF SelectorTypeOK
  <2> QED
    BY <2>1, <2>2, <2>3, <1>2, <1>3, <1>4, SameCall DEF SelectorTypeOK
<1>15. Round'
  BY <1>3 DEF Round, NoRound
<1> QED
  BY <1>11, <1>13, <1>14, <1>15 DEF SelInv

LEMMA NextPhaseKeeps ==
    ASSUME SelInv, NextPhase
    PROVE  SelInv'
<1>1. /\ phase # "done" /\ ~Active /\ rule' = 1
      /\ phase' = (IF phase = "schemes" THEN "sheets" ELSE "done")
      /\ UNCHANGED <<items, byScheme, bySheet>> /\ UNCHANGED <<matched, hits, timedOut>>
  BY DEF NextPhase
<1>2. SelectorTypeOK /\ OnlyPicked /\ Round /\ NoneMissed
  BY DEF SelInv
<1>3. hits = NoRound
  BY <1>1, <1>2 DEF Round
<1>4. SelectorTypeOK'
  BY <1>1, <1>2, <1>3, SameCall, SelectorAssumption DEF SelectorTypeOK
<1>5. OnlyPicked' /\ Round'
  BY <1>1, <1>2, <1>3, SameCall DEF OnlyPicked, Round, NoRound
<1>6. ~timedOut => Picked(phase) \subseteq matched
  <2> SUFFICES ASSUME ~timedOut, NEW i \in Picked(phase), i \notin matched
               PROVE  FALSE
    OBVIOUS
  <2>1. i \in Pending
    BY DEF Picked, Pending
  <2>2. rule > Len(Rules(phase))
    BY <2>1, <1>1, <1>2, Shapes DEF Active, SelectorTypeOK
  <2>3. PICK j \in 1..Len(Rules(phase)) : Takes(Rules(phase)[j], i, phase)
    BY <1>2, Shapes DEF Picked
  <2>4. j \in 1..(rule - 1)
    BY <2>2, <1>2, Shapes DEF SelectorTypeOK
  <2> QED
    BY <2>1, <2>3, <2>4, <1>1, <1>2 DEF NoneMissed
<1>7. NoneMissed'
  <2> SUFFICES ASSUME ~timedOut PROVE NoneMissed'
    BY <1>1 DEF NoneMissed
  <2>1. phase \in {"schemes", "sheets"}
    BY <1>1, <1>2 DEF SelectorTypeOK
  <2>2. 1..(rule' - 1) = {}
    BY <1>1
  <2>3. Picked("schemes") \subseteq matched
    BY <2>1, <1>1, <1>2, <1>6 DEF NoneMissed
  <2>4. phase = "sheets" => Picked("sheets") \subseteq matched
    BY <1>6
  <2> QED
    BY <2>1, <2>2, <2>3, <2>4, <1>1, SameCall DEF NoneMissed
<1> QED
  BY <1>4, <1>5, <1>7 DEF SelInv

LEMMA SelInvHolds == SelectorSpec => []SelInv
<1>1. SelInv /\ [SelectorNext]_selectorVars => SelInv'
  <2>1. SelInv /\ UNCHANGED selectorVars => SelInv'
    <3> SUFFICES ASSUME SelInv, UNCHANGED selectorVars PROVE SelInv'
      OBVIOUS
    <3>1. UNCHANGED <<items, byScheme, bySheet>> /\ UNCHANGED <<phase, rule, matched, hits, timedOut>>
      BY DEF selectorVars
    <3> QED
      BY <3>1, SameCall DEF SelInv, SelectorTypeOK, OnlyPicked, Round, NoneMissed, Pending,
           Active, Slots
  <2> QED
    BY <2>1, FileRoundKeeps, SecondRoundKeeps, NextPhaseKeeps DEF SelectorNext
<1> QED
  BY <1>1, SelInitInv, PTL DEF SelectorSpec

\* However the batches are cut by the time limit, they pick nothing that item
\* by item would not be picked, and without a timeout they pick all of it.
THEOREM BatchesPickTheSame == SelectorSpec => []BatchesAgree
<1>1. SelInv => BatchesAgree
  BY ResolutionPicks DEF SelInv, OnlyPicked, NoneMissed, BatchesAgree
<1> QED
  BY <1>1, SelInvHolds, PTL

-----------------------------------------------------------------------------
(* FrameChannel. *)

-----------------------------------------------------------------------------
(* What consume leaves. *)

LEMMA ConsumeDrops ==
    ASSUME NEW S, NEW cs \in Seq(Seq(S)), NEW n \in 0..Len(FlattenSeq(cs))
    PROVE  /\ Consume(cs, n) \in Seq(Seq(S))
           /\ FlattenSeq(Consume(cs, n)) = After(FlattenSeq(cs), n)
<1> DEFINE N == Len(cs)
           F == FlattenSeq(cs)
           Fits(k) == BytesOf(cs, k) <= n /\ (k < N => n < BytesOf(cs, k + 1))
           w == CHOOSE k \in 0..N : Fits(k)
<1> USE DEF BytesOf
<1>a. \A xs, ys \in Seq(Seq(S)) : /\ FlattenSeq(xs) \in Seq(S) /\ xs \o ys \in Seq(Seq(S))
                                  /\ FlattenSeq(xs \o ys) = FlattenSeq(xs) \o FlattenSeq(ys)
  BY FlattenConcat, ConcatIs
<1>b. \A c \in Seq(S) : FlattenSeq(<<c>>) = c /\ <<c>> \in Seq(Seq(S)) /\ Len(c) \in Nat
  <2>1. \A c \in Seq(S) : <<c>> \in Seq(Seq(S)) /\ Len(c) \in Nat
    OBVIOUS
  <2> QED
    BY <2>1, FlattenOne
<1>c. \A s, t \in Seq(S) : Len(s \o t) = Len(s) + Len(t)
  BY ConcatIs
<1>d. \A k \in 0..N :
        /\ SubSeq(cs, 1, k) \in Seq(Seq(S))
        /\ k = 0 => SubSeq(cs, 1, k) = <<>>
        /\ k = N => SubSeq(cs, 1, k) = cs
        /\ k < N => /\ cs[k + 1] \in Seq(S) /\ SubSeq(cs, k + 2, N) \in Seq(Seq(S))
                    /\ SubSeq(cs, 1, k + 1) = SubSeq(cs, 1, k) \o <<cs[k + 1]>>
                    /\ cs = SubSeq(cs, 1, k) \o (<<cs[k + 1]>> \o SubSeq(cs, k + 2, N))
  BY SplitAt
<1>e. N \in Nat /\ 0 \in 0..N /\ N \in 0..N
  OBVIOUS
<1> HIDE DEF N
<1>0. F \in Seq(S) /\ Len(F) \in Nat /\ n \in Nat /\ n <= Len(F)
  BY <1>a, <1>b
<1>1. \A k \in 0..N : BytesOf(cs, k) \in Nat /\ FlattenSeq(SubSeq(cs, 1, k)) \in Seq(S)
  BY <1>a, <1>b, <1>d, Zenon
<1>2. BytesOf(cs, 0) = 0 /\ BytesOf(cs, N) = Len(F)
  <2>1. SubSeq(cs, 1, 0) = <<>> /\ SubSeq(cs, 1, N) = cs
    BY <1>d, <1>e, Zenon
  <2>2. Len(FlattenSeq(<<>>)) = 0
    BY FlattenNone
  <2> QED
    BY <2>1, <2>2, Zenon
<1> HIDE DEF BytesOf, F
<1>3. \E k \in 0..N : Fits(k)
  <2> DEFINE T == {k \in 0..N : k < N => n < BytesOf(cs, k + 1)}
  <2>1. T \in SUBSET Nat /\ N \in T
    BY <1>e
  <2>2. PICK k \in T : \A m \in T : k <= m
    <3> HIDE DEF T
    <3> QED
      BY <2>1, LeastNat
  <2>3. CASE k = 0
    BY <1>0, <1>2, <2>2, <2>3
  <2>4. CASE k # 0
    <3>1. k - 1 \in 0..N /\ k - 1 + 1 = k /\ k \in 0..N
      BY <1>e, <2>2, <2>4
    <3>2. k - 1 \notin T
      <4> HIDE DEF T
      <4> QED
        BY <1>e, <2>2, <3>1
    <3>3. ~(n < BytesOf(cs, k))
      BY <3>1, <3>2
    <3>4. BytesOf(cs, k) \in Nat
      BY <1>1, <3>1
    <3>5. BytesOf(cs, k) <= n
      BY <1>0, <3>3, <3>4
    <3> QED
      BY <2>2, <3>1, <3>5
  <2> QED
    BY <2>3, <2>4
<1>4. w \in 0..N /\ Fits(w)
  BY <1>3, Zenon
<1>5. Consume(cs, n) = IF w = N THEN <<>>
                       ELSE <<SubSeq(cs[w + 1], n - BytesOf(cs, w) + 1, Len(cs[w + 1]))>>
                               \o SubSeq(cs, w + 2, N)
  BY Zenon DEF Consume, N
<1> HIDE DEF w
<1>6. CASE w = N
  <2>1. n = Len(F)
    BY <1>0, <1>2, <1>4, <1>6
  <2>2. SubSeq(F, n + 1, Len(F)) = <<>>
    BY <1>0, <2>1
  <2>3. Consume(cs, n) = <<>>
    BY <1>5, <1>6, Zenon
  <2>4. <<>> \in Seq(Seq(S))
    OBVIOUS
  <2> QED
    BY <2>2, <2>3, <2>4, FlattenNone, Zenon DEF F, After
<1>7. CASE w # N
  <2> DEFINE A == SubSeq(cs, 1, w)
             c == cs[w + 1]
             R == SubSeq(cs, w + 2, N)
             cut == SubSeq(c, n - BytesOf(cs, w) + 1, Len(c))
  <2>0. w < N /\ w \in Nat
    BY <1>e, <1>4, <1>7
  <2>1. /\ A \in Seq(Seq(S)) /\ c \in Seq(S) /\ R \in Seq(Seq(S))
        /\ SubSeq(cs, 1, w + 1) = A \o <<c>> /\ cs = A \o (<<c>> \o R)
    BY <1>d, <1>4, <2>0, Zenon
  <2>2. /\ <<c>> \in Seq(Seq(S)) /\ FlattenSeq(<<c>>) = c
        /\ FlattenSeq(A) \in Seq(S) /\ FlattenSeq(R) \in Seq(S)
    BY <1>a, <1>b, <2>1, Zenon
  <2>3. BytesOf(cs, w + 1) = Len(FlattenSeq(A)) + Len(c) /\ BytesOf(cs, w) = Len(FlattenSeq(A))
    <3>1. FlattenSeq(A \o <<c>>) = FlattenSeq(A) \o c
      BY <1>a, <2>1, <2>2, Zenon
    <3>2. Len(FlattenSeq(A) \o c) = Len(FlattenSeq(A)) + Len(c)
      BY <1>c, <2>1, <2>2, Zenon
    <3> QED
      BY <2>1, <3>1, <3>2, Zenon DEF BytesOf
  <2>4. F = FlattenSeq(A) \o (c \o FlattenSeq(R))
    <3>1. <<c>> \o R \in Seq(Seq(S)) /\ FlattenSeq(<<c>> \o R) = c \o FlattenSeq(R)
      BY <1>a, <2>1, <2>2, Zenon
    <3>2. FlattenSeq(A \o (<<c>> \o R)) = FlattenSeq(A) \o FlattenSeq(<<c>> \o R)
      BY <1>a, <2>1, <3>1, Zenon
    <3> QED
      BY <2>1, <3>1, <3>2, Zenon DEF F
  <2> DEFINE fA == FlattenSeq(A)
             fR == FlattenSeq(R)
  <2>5. Len(fA) <= n /\ n < Len(fA) + Len(c)
    <3>1. BytesOf(cs, w) <= n /\ n < BytesOf(cs, w + 1)
      BY <1>4, <2>0, Zenon
    <3> QED
      BY <2>3, <3>1, Zenon
  <2> HIDE DEF A, c, R, fA, fR
  <2>6. SubSeq(F, n + 1, Len(F)) = SubSeq(c, n - Len(fA) + 1, Len(c)) \o fR
    <3>1. fA \in Seq(S) /\ fR \in Seq(S) /\ c \in Seq(S) /\ F = fA \o (c \o fR)
      BY <2>1, <2>2, <2>4 DEF fA, fR
    <3>2. After(fA \o (c \o fR), n) = After(c, n - Len(fA)) \o fR
      BY <1>0, <2>5, <3>1, CutConcat
    <3> QED
      BY <3>1, <3>2, Zenon DEF After
  <2>7. cut = SubSeq(c, n - Len(fA) + 1, Len(c)) /\ cut \in Seq(S)
    <3>1. Len(fA) \in Nat /\ Len(c) \in Nat
      BY <1>b, <2>1, <2>2, Zenon DEF fA
    <3>2. n - Len(fA) + 1 \in Nat /\ n - Len(fA) + 1 >= 1
      BY <1>0, <2>5, <3>1
    <3>3. cut = SubSeq(c, n - Len(fA) + 1, Len(c))
      BY <2>3, Zenon DEF fA
    <3> HIDE DEF cut
    <3>4. SubSeq(c, n - Len(fA) + 1, Len(c)) \in Seq(S)
      BY <2>1, <3>1, <3>2, SubSeqIs
    <3> QED
      BY <3>3, <3>4, Zenon
  <2>8. Consume(cs, n) = <<cut>> \o R
    BY <1>5, <1>7, Zenon DEF c, R
  <2> HIDE DEF cut
  <2>9. /\ <<cut>> \o R \in Seq(Seq(S))
        /\ FlattenSeq(<<cut>> \o R) = cut \o fR
    <3>1. <<cut>> \in Seq(Seq(S)) /\ FlattenSeq(<<cut>>) = cut
      BY <1>b, <2>7, Zenon
    <3> QED
      BY <1>a, <2>1, <3>1, Zenon DEF fR
  <2> QED
    BY <2>6, <2>7, <2>8, <2>9, Zenon DEF F, After
<1> QED
  BY <1>6, <1>7

-----------------------------------------------------------------------------
(* What the stream holds. *)

Byte == Nat \X Nat

SizeOf(f) == HeadSize + frames[f].size

\* s is what the frames from lo to hi are, and at[f] bytes come before f.
Tells(at, s, lo, hi) ==
    /\ at \in [lo..(hi + 1) -> 0..Len(s)]
    /\ at[lo] = 0 /\ at[hi + 1] = Len(s)
    /\ \A f \in lo..hi : /\ at[f + 1] = at[f] + SizeOf(f)
                        /\ \A p \in 1..SizeOf(f) : s[at[f] + p] = <<f, p>>

LEMMA BytesOfFrame ==
    ASSUME HeadSize \in Nat, NEW f \in Nat, frames[f].size \in Nat
    PROVE  /\ FrameBytes(f) \in Seq(Byte) /\ Len(FrameBytes(f)) = SizeOf(f)
           /\ SizeOf(f) \in Nat
           /\ \A p \in 1..SizeOf(f) : FrameBytes(f)[p] = <<f, p>>
<1>1. SizeOf(f) \in Nat
  BY DEF SizeOf
<1>2. FrameBytes(f) = [p \in 1..SizeOf(f) |-> <<f, p>>]
  BY DEF FrameBytes, SizeOf
<1>3. FrameBytes(f) \in [1..SizeOf(f) -> Byte]
  BY <1>1, <1>2 DEF Byte
<1>4. FrameBytes(f) \in Seq(Byte)
  BY <1>1, <1>3, TableIsSeq
<1>5. Len(FrameBytes(f)) = SizeOf(f)
  BY <1>1, <1>2
<1> QED
  BY <1>1, <1>2, <1>4, <1>5

\* A frame that is written comes behind the others.
LEMMA TellsOneMore ==
    ASSUME HeadSize \in Nat, NEW s \in Seq(Byte), NEW lo \in Nat, NEW hi \in Nat, lo <= hi + 1,
           NEW at, Tells(at, s, lo, hi), \A f \in lo..(hi + 1) : frames[f].size \in Nat
    PROVE  \E at2 : Tells(at2, s \o FrameBytes(hi + 1), lo, hi + 1)
<1> DEFINE b == FrameBytes(hi + 1)
           n == SizeOf(hi + 1)
           t == s \o b
           at2 == [f \in lo..(hi + 2) |-> IF f <= hi + 1 THEN at[f] ELSE Len(s) + n]
<1>1. /\ b \in Seq(Byte) /\ Len(b) = n /\ n \in Nat /\ \A p \in 1..n : b[p] = <<hi + 1, p>>
  BY BytesOfFrame
<1> HIDE DEF b, n
<1>2. /\ Len(s) \in Nat /\ Len(t) = Len(s) + n
      /\ \A i \in 1..Len(s) : t[i] = s[i]
      /\ \A i \in 1..(Len(s) + n) : i > Len(s) => t[i] = b[i - Len(s)]
  BY <1>1, ConcatIs
<1> HIDE DEF t
<1>3. /\ at \in [lo..(hi + 1) -> 0..Len(s)] /\ at[lo] = 0 /\ at[hi + 1] = Len(s)
      /\ \A f \in lo..hi : /\ at[f + 1] = at[f] + SizeOf(f)
                          /\ \A p \in 1..SizeOf(f) : s[at[f] + p] = <<f, p>>
  BY DEF Tells
<1>4. /\ \A f \in lo..(hi + 1) : at2[f] = at[f]
      /\ at2[hi + 2] = Len(s) + n
  OBVIOUS
<1>5. at2 \in [lo..(hi + 1 + 1) -> 0..Len(t)]
  <2>1. \A f \in lo..(hi + 2) : (IF f <= hi + 1 THEN at[f] ELSE Len(s) + n) \in 0..(Len(s) + n)
    BY <1>1, <1>2, <1>3
  <2>2. hi + 1 + 1 = hi + 2
    OBVIOUS
  <2> QED
    BY <1>2, <2>1, <2>2
<1> HIDE DEF at2
<1>6. at2[lo] = 0 /\ at2[hi + 1 + 1] = Len(t)
  BY <1>2, <1>3, <1>4
<1>7. ASSUME NEW f \in lo..(hi + 1)
      PROVE  /\ at2[f + 1] = at2[f] + SizeOf(f)
             /\ \A p \in 1..SizeOf(f) : t[at2[f] + p] = <<f, p>>
  <2>1. CASE f <= hi
    <3>1. f \in lo..hi /\ f + 1 \in lo..(hi + 1)
      BY <2>1
    <3>2. at2[f] = at[f] /\ at2[f + 1] = at[f + 1] /\ at[f + 1] = at[f] + SizeOf(f)
      BY <1>3, <1>4, <3>1
    <3>3. at[f] \in Nat /\ at[f + 1] <= Len(s) /\ at[f + 1] \in Nat
      BY <1>2, <1>3, <3>1
    <3>4. ASSUME NEW p \in 1..SizeOf(f) PROVE t[at2[f] + p] = <<f, p>>
      <4>1. SizeOf(f) \in Nat
        BY DEF SizeOf
      <4>2. at[f] + p \in 1..Len(s)
        BY <1>2, <3>2, <3>3, <4>1, SMTT(30)
      <4> QED
        BY <1>2, <1>3, <3>1, <3>2, <4>2
    <3> QED
      BY <3>2, <3>4
  <2>2. CASE f = hi + 1
    <3>1. at2[f] = Len(s) /\ at2[f + 1] = Len(s) + n /\ SizeOf(f) = n
      BY <1>3, <1>4, <2>2 DEF n
    <3>2. ASSUME NEW p \in 1..n PROVE t[Len(s) + p] = <<f, p>>
      <4>1. Len(s) + p \in 1..(Len(s) + n) /\ Len(s) + p > Len(s) /\ Len(s) + p - Len(s) = p
        BY <1>1, <1>2
      <4>2. t[Len(s) + p] = b[p]
        BY <1>2, <4>1
      <4> QED
        BY <1>1, <2>2, <4>2
    <3> QED
      BY <3>1, <3>2
  <2>3. f <= hi \/ f = hi + 1
    OBVIOUS
  <2> HIDE DEF at2, t
  <2> QED
    BY <2>1, <2>2, <2>3, Zenon
<1>8. Tells(at2, t, lo, hi + 1)
  BY <1>5, <1>6, <1>7 DEF Tells
<1> QED
  BY <1>8 DEF t, b

\* The first frame is at the front; what it leaves is the frames after it.
LEMMA TellsTheFirst ==
    ASSUME HeadSize \in Nat, NEW s \in Seq(Byte), NEW lo \in Nat, NEW hi \in Nat, lo <= hi,
           NEW at, Tells(at, s, lo, hi), \A f \in lo..hi : frames[f].size \in Nat
    PROVE  /\ SizeOf(lo) \in 0..Len(s)
           /\ \A p \in 1..SizeOf(lo) : s[p] = <<lo, p>>
           /\ \E at2 : Tells(at2, After(s, SizeOf(lo)), lo + 1, hi)
<1> DEFINE n == SizeOf(lo)
           t == After(s, n)
           at2 == [f \in (lo + 1)..(hi + 1) |-> at[f] - n]
<1>1. /\ at \in [lo..(hi + 1) -> 0..Len(s)] /\ at[lo] = 0 /\ at[hi + 1] = Len(s)
      /\ \A f \in lo..hi : /\ at[f + 1] = at[f] + SizeOf(f)
                          /\ \A p \in 1..SizeOf(f) : s[at[f] + p] = <<f, p>>
  BY DEF Tells
<1>2. /\ lo \in lo..hi /\ n \in Nat /\ Len(s) \in Nat /\ lo + 1 \in lo..(hi + 1)
      /\ at[lo + 1] = n /\ n \in 0..Len(s)
  <2>1. lo \in lo..hi /\ Len(s) \in Nat /\ lo + 1 \in lo..(hi + 1) /\ n \in Nat
    BY DEF SizeOf
  <2>2. at[lo + 1] = 0 + n
    BY <1>1, <2>1
  <2> QED
    BY <1>1, <2>1, <2>2
<1>3. \A p \in 1..n : s[p] = <<lo, p>>
  <2>1. \A p \in 1..n : s[0 + p] = <<lo, p>>
    BY <1>1, <1>2
  <2> QED
    BY <1>2, <2>1
<1> HIDE DEF n
<1>4. /\ t \in Seq(Byte) /\ Len(t) = Len(s) - n
      /\ \A i \in 1..Len(t) : t[i] = s[n + i]
  <2>1. n + 1 \in Nat /\ n + 1 >= 1 /\ Len(s) <= Len(s)
    BY <1>2
  <2>2. /\ t \in Seq(Byte)
        /\ Len(t) = (IF n + 1 <= Len(s) THEN Len(s) - (n + 1) + 1 ELSE 0)
        /\ \A i \in 1..Len(t) : t[i] = s[n + 1 + i - 1]
    BY <1>2, <2>1, SubSeqIs DEF After
  <2> HIDE DEF t
  <2>3. Len(t) = Len(s) - n
    BY <1>2, <2>2
  <2>4. \A i \in 1..Len(t) : n + 1 + i - 1 = n + i
    BY <1>2
  <2> QED
    BY <2>2, <2>3, <2>4
<1> HIDE DEF t
<1>5. \A f \in (lo + 1)..(hi + 1) : at[f] \in n..Len(s)
  <2> DEFINE P == {k \in 0..(hi - lo) : at[lo + 1 + k] \in n..Len(s)}
  <2>1. 0 \in P
    BY <1>1, <1>2
  <2>2. ASSUME NEW k \in 1..(hi - lo), k - 1 \in P PROVE k \in P
    <3>1. /\ lo + k \in lo..hi /\ lo + 1 + (k - 1) = lo + k /\ lo + k + 1 = lo + 1 + k
          /\ lo + 1 + k \in lo..(hi + 1)
      OBVIOUS
    <3>2. at[lo + k] \in n..Len(s)
      BY <2>2, <3>1
    <3>3. at[lo + 1 + k] = at[lo + k] + SizeOf(lo + k) /\ at[lo + 1 + k] \in 0..Len(s)
      BY <1>1, <3>1
    <3>4. SizeOf(lo + k) \in Nat
      <4>1. frames[lo + k].size \in Nat
        BY <3>1, Zenon
      <4> DEFINE z == frames[lo + k].size
      <4>2. HeadSize + z \in Nat
        <5> HIDE DEF z
        <5> QED
          BY <4>1 DEF z
      <4> QED
        BY <4>2 DEF SizeOf
    <3>5. at[lo + 1 + k] \in n..Len(s)
      BY <1>2, <3>2, <3>3, <3>4
    <3> QED
      BY <3>5
  <2>3. hi - lo \in Nat
    OBVIOUS
  <2>4. \A k \in 0..(hi - lo) : k \in P
    <3> HIDE DEF P
    <3> QED
      BY <2>1, <2>2, <2>3, Induct
  <2>5. ASSUME NEW f \in (lo + 1)..(hi + 1) PROVE at[f] \in n..Len(s)
    <3>1. f - lo - 1 \in 0..(hi - lo) /\ lo + 1 + (f - lo - 1) = f
      OBVIOUS
    <3>2. at[lo + 1 + (f - lo - 1)] \in n..Len(s)
      BY <2>4, <3>1
    <3> QED
      BY <3>1, <3>2
  <2> QED
    BY <2>5
<1>6. at2 \in [(lo + 1)..(hi + 1) -> 0..Len(t)]
  BY <1>2, <1>4, <1>5
<1>7. \A f \in (lo + 1)..(hi + 1) : at2[f] = at[f] - n
  OBVIOUS
<1> HIDE DEF at2
<1>8. at2[lo + 1] = 0 /\ at2[hi + 1] = Len(t)
  <2>1. lo + 1 \in (lo + 1)..(hi + 1) /\ hi + 1 \in (lo + 1)..(hi + 1)
    OBVIOUS
  <2>2. at2[lo + 1] = n - n /\ at2[hi + 1] = Len(s) - n
    BY <1>1, <1>2, <1>7, <2>1, Zenon
  <2> QED
    BY <1>2, <1>4, <2>2
<1>9. ASSUME NEW f \in (lo + 1)..hi
      PROVE  /\ at2[f + 1] = at2[f] + SizeOf(f)
             /\ \A p \in 1..SizeOf(f) : t[at2[f] + p] = <<f, p>>
  <2>1. f \in lo..hi /\ f \in (lo + 1)..(hi + 1) /\ f + 1 \in (lo + 1)..(hi + 1)
    OBVIOUS
  <2>2. /\ at[f + 1] = at[f] + SizeOf(f) /\ at2[f] = at[f] - n /\ at2[f + 1] = at[f + 1] - n
        /\ at[f] \in n..Len(s) /\ at[f + 1] \in n..Len(s) /\ SizeOf(f) \in Nat
    <3>1. /\ at[f + 1] = at[f] + SizeOf(f) /\ at2[f] = at[f] - n /\ at2[f + 1] = at[f + 1] - n
          /\ at[f] \in n..Len(s) /\ at[f + 1] \in n..Len(s)
      BY <1>1, <1>5, <1>7, <2>1, Zenon
    <3>2. SizeOf(f) \in Nat
      BY <2>1 DEF SizeOf
    <3> QED
      BY <3>1, <3>2
  <2>3. ASSUME NEW p \in 1..SizeOf(f) PROVE t[at2[f] + p] = <<f, p>>
    <3>1. at2[f] + p \in 1..Len(t) /\ n + (at2[f] + p) = at[f] + p
      <4>1. at[f] \in Nat /\ at[f] + SizeOf(f) <= Len(s) /\ n <= at[f]
        BY <1>2, <2>2
      <4>2. p \in Nat /\ p <= SizeOf(f) /\ 1 <= p
        BY <2>2
      <4>3. at2[f] = at[f] - n /\ Len(t) = Len(s) - n /\ n \in Nat /\ SizeOf(f) \in Nat
            /\ Len(s) \in Nat
        BY <1>2, <1>4, <2>2
      <4> DEFINE a == at[f]
                 z == SizeOf(f)
                 l == Len(s)
      <4>4. /\ a \in Nat /\ z \in Nat /\ l \in Nat /\ n \in Nat /\ p \in Nat
            /\ a + z <= l /\ n <= a /\ p <= z /\ 1 <= p
        BY <4>1, <4>2, <4>3, Zenon
      <4> HIDE DEF a, z, l
      <4>5. (a - n) + p \in 1..(l - n) /\ n + ((a - n) + p) = a + p
        BY <4>4
      <4> QED
        BY <4>3, <4>5 DEF a, l
    <3>2. t[at2[f] + p] = s[at[f] + p]
      BY <1>4, <3>1
    <3> QED
      BY <1>1, <2>1, <3>2
  <2> QED
    BY <1>2, <2>2, <2>3, SMTT(30)
<1>10. Tells(at2, t, lo + 1, hi)
  BY <1>6, <1>8, <1>9 DEF Tells
<1> QED
  BY <1>2, <1>3, <1>10 DEF t, n

-----------------------------------------------------------------------------
(* The invariant. *)

Stream == FlattenSeq(chunks) \o pipe

Sent == Len(frames) - Len(unwritten)
Given == Len(received)

\* What waits to be written is the last frames, in order.
BacklogInOrder ==
    /\ Len(frames) <= MaxFrames /\ Len(unwritten) <= Len(frames)
    /\ \A i \in 1..Len(unwritten) : unwritten[i] = Sent + i

\* What was given is the values of the first frames, all of them sound.
GivenInOrder ==
    /\ Given <= Sent
    /\ \A i \in 1..Given : Sound(i) /\ received[i] = frames[i].value

\* The decoder stops at a frame that is not sound, and says so once.
StopsAtTheBad ==
    /\ errors = (IF poisoned THEN 1 ELSE 0)
    /\ poisoned => /\ ~draining /\ chunks = <<>>
                   /\ Given < Sent /\ ~Sound(Given + 1)

\* Until then the chunks and the pipe hold the frames that are written and not
\* given, and the decoder rests only when it has not all of the next one.
StreamIsTheRest ==
    ~poisoned =>
       /\ \E at : Tells(at, Stream, Given + 1, Sent)
       /\ ~draining /\ Given < Sent => buffered < SizeOf(Given + 1)

FrameInv ==
    /\ FrameTypeOK
    /\ chunks \in Seq(Seq(Byte)) /\ pipe \in Seq(Byte)
    /\ buffered = Len(FlattenSeq(chunks))
    /\ BacklogInOrder /\ GivenInOrder /\ StopsAtTheBad /\ StreamIsTheRest

\* What the proofs need of the types.
LEMMA FrameTypes ==
    ASSUME FrameInv
    PROVE  /\ HeadSize \in Nat \ {0} /\ MaxBytes \in Nat \ {0} /\ MaxFrames \in Nat
           /\ Len(frames) \in Nat /\ Len(unwritten) \in Nat /\ Given \in Nat /\ Sent \in Nat
           /\ Sent <= Len(frames) /\ Given <= Sent /\ Len(frames) <= MaxFrames
           /\ \A f \in 1..Len(frames) :
                 /\ frames[f] \in [value : 0..MaxFrames, size : 0..(MaxBytes + 1), valid : BOOLEAN]
                 /\ frames[f].size \in 0..(MaxBytes + 1) /\ frames[f].size \in Nat
                 /\ frames[f].value \in 0..MaxFrames /\ SizeOf(f) \in Nat
           /\ FlattenSeq(chunks) \in Seq(Byte) /\ Stream \in Seq(Byte)
           /\ buffered \in Nat /\ Len(pipe) \in Nat /\ Len(Stream) = buffered + Len(pipe)
           /\ \A i \in 1..buffered : Stream[i] = FlattenSeq(chunks)[i]
<1>1. HeadSize \in Nat \ {0} /\ MaxBytes \in Nat \ {0} /\ MaxFrames \in Nat
  BY FrameAssumption
<1>2. /\ frames \in Seq([value : 0..MaxFrames, size : 0..(MaxBytes + 1), valid : BOOLEAN])
      /\ unwritten \in Seq(FrameIds) /\ received \in Seq(0..MaxFrames) /\ pipe \in Seq(Byte)
      /\ chunks \in Seq(Seq(Byte)) /\ buffered = Len(FlattenSeq(chunks))
  BY DEF FrameInv, FrameTypeOK
<1>3. Len(frames) \in Nat /\ Len(unwritten) \in Nat /\ Given \in Nat /\ Len(pipe) \in Nat
  BY <1>2 DEF Given
<1>4. /\ Sent \in Nat /\ Sent <= Len(frames) /\ Given <= Sent
      /\ Len(frames) <= MaxFrames
  BY <1>3 DEF FrameInv, BacklogInOrder, GivenInOrder, Sent
<1>5. ASSUME NEW f \in 1..Len(frames)
      PROVE  /\ frames[f] \in [value : 0..MaxFrames, size : 0..(MaxBytes + 1), valid : BOOLEAN]
             /\ frames[f].size \in 0..(MaxBytes + 1) /\ frames[f].size \in Nat
             /\ frames[f].value \in 0..MaxFrames /\ SizeOf(f) \in Nat
  <2> DEFINE R == [value : 0..MaxFrames, size : 0..(MaxBytes + 1), valid : BOOLEAN]
  <2>0. frames \in Seq(R)
    BY <1>2
  <2> HIDE DEF R
  <2>1. frames[f] \in R
    BY <2>0
  <2> USE DEF R
  <2>2. frames[f].size \in 0..(MaxBytes + 1) /\ frames[f].value \in 0..MaxFrames
    BY <2>1
  <2> QED
    BY <1>1, <2>1, <2>2 DEF SizeOf
<1>6. FlattenSeq(chunks) \in Seq(Byte)
  BY <1>2, FlattenConcat
<1>7. /\ Stream \in Seq(Byte) /\ Len(FlattenSeq(chunks)) \in Nat
      /\ Len(Stream) = Len(FlattenSeq(chunks)) + Len(pipe)
      /\ \A i \in 1..Len(FlattenSeq(chunks)) : Stream[i] = FlattenSeq(chunks)[i]
  BY <1>2, <1>6, ConcatIs DEF Stream
<1> QED
  BY <1>1, <1>2, <1>3, <1>4, <1>5, <1>6, <1>7

-----------------------------------------------------------------------------
(* The property follows. *)

LEMMA WholeByInv ==
    ASSUME FrameInv
    PROVE  FramesArriveWhole
<1> DEFINE N == Len(frames)
           bad == {f \in DOMAIN frames : ~Sound(f)}
           first == CHOOSE f \in bad : \A g \in bad : f <= g
           last == IF bad = {} THEN N ELSE first - 1
           D == [f \in 1..last |-> frames[f].value]
<1>1. /\ N \in Nat /\ Given \in Nat /\ Sent \in Nat /\ Sent <= N /\ Given <= Sent
      /\ \A f \in 1..N : frames[f].value \in 0..MaxFrames
      /\ DOMAIN frames = 1..N /\ received \in Seq(0..MaxFrames)
  <2>1. /\ N \in Nat /\ Given \in Nat /\ Sent \in Nat /\ Sent <= N /\ Given <= Sent
        /\ \A f \in 1..N : frames[f].value \in 0..MaxFrames
    BY FrameTypes
  <2>2. received \in Seq(0..MaxFrames)
    BY DEF FrameInv, FrameTypeOK
  <2>3. DOMAIN frames = 1..N
    BY DEF FrameInv, FrameTypeOK
  <2> QED
    BY <2>1, <2>2, <2>3
<1>2. Deliverable = D
  BY DEF Deliverable
<1>3. /\ \A i \in 1..Given : Sound(i) /\ received[i] = frames[i].value
  BY DEF FrameInv, GivenInOrder
<1> HIDE DEF N
<1>4. bad # {} => first \in bad /\ \A g \in bad : first <= g
  <2>1. bad \in SUBSET Nat
    BY <1>1
  <2> HIDE DEF bad
  <2>2. bad # {} => \E f \in bad : \A g \in bad : f <= g
    BY <2>1, LeastNat
  <2> QED
    BY <2>2, Zenon
<1>5. bad \in SUBSET (1..N) /\ \A f \in bad : f > Given
  <2>1. ASSUME NEW f \in bad PROVE f \in 1..N /\ f > Given
    <3>1. f \in 1..N /\ ~Sound(f)
      BY <1>1
    <3>2. f \notin 1..Given
      BY <1>3, <3>1
    <3> QED
      BY <1>1, <3>1, <3>2
  <2> QED
    BY <2>1
<1> HIDE DEF first
<1>6. last \in Nat /\ Given <= last /\ last <= N
  <2> HIDE DEF bad
  <2>1. CASE bad = {}
    BY <1>1, <2>1
  <2>2. CASE bad # {}
    <3>1. first \in 1..N /\ first > Given
      BY <1>4, <1>5, <2>2
    <3> QED
      BY <1>1, <2>2, <3>1
  <2> QED
    BY <2>1, <2>2
<1> HIDE DEF last
<1>7. D \in Seq(0..MaxFrames) /\ Len(D) = last /\ \A i \in 1..last : D[i] = frames[i].value
  <2>1. D \in [1..last -> 0..MaxFrames]
    BY <1>1, <1>6
  <2>2. D \in Seq(0..MaxFrames)
    BY <1>6, <2>1, TableIsSeq
  <2> QED
    BY <1>6, <2>1, <2>2
<1> HIDE DEF D
<1>8. IsPrefix(received, D)
  <2>1. Len(received) = Given
    BY DEF Given
  <2>2. \A i \in 1..Given : received[i] = D[i]
    BY <1>1, <1>3, <1>6, <1>7
  <2>3. /\ SubSeq(received, 1, Given) \in Seq(0..MaxFrames)
        /\ SubSeq(D, 1, Given) \in Seq(0..MaxFrames)
        /\ Len(SubSeq(received, 1, Given)) = Given /\ Len(SubSeq(D, 1, Given)) = Given
        /\ \A i \in 1..Given : SubSeq(received, 1, Given)[i] = received[i]
        /\ \A i \in 1..Given : SubSeq(D, 1, Given)[i] = D[i]
    <3>1. \A r \in Seq(0..MaxFrames) : Given <= Len(r) =>
             /\ SubSeq(r, 1, Given) \in Seq(0..MaxFrames) /\ Len(SubSeq(r, 1, Given)) = Given
             /\ \A i \in 1..Given : SubSeq(r, 1, Given)[i] = r[i]
      <4>1. SUFFICES ASSUME NEW r \in Seq(0..MaxFrames), Given <= Len(r)
                     PROVE  /\ SubSeq(r, 1, Given) \in Seq(0..MaxFrames)
                            /\ Len(SubSeq(r, 1, Given)) = Given
                            /\ \A i \in 1..Given : SubSeq(r, 1, Given)[i] = r[i]
        OBVIOUS
      <4>2. Given \in Nat
        BY <1>1
      <4>3. 1 \in Nat /\ 1 >= 1
        OBVIOUS
      <4>4. /\ SubSeq(r, 1, Given) \in Seq(0..MaxFrames)
            /\ Len(SubSeq(r, 1, Given)) = (IF 1 <= Given THEN Given - 1 + 1 ELSE 0)
            /\ \A i \in 1..Len(SubSeq(r, 1, Given)) : SubSeq(r, 1, Given)[i] = r[1 + i - 1]
        <5> DEFINE V == 0..MaxFrames
        <5>1. r \in Seq(V) /\ Given <= Len(r)
          BY <4>1
        <5> HIDE DEF V
        <5>2. /\ SubSeq(r, 1, Given) \in Seq(V)
              /\ Len(SubSeq(r, 1, Given)) = (IF 1 <= Given THEN Given - 1 + 1 ELSE 0)
              /\ \A i \in 1..Len(SubSeq(r, 1, Given)) : SubSeq(r, 1, Given)[i] = r[1 + i - 1]
          BY <4>2, <4>3, <5>1, SubSeqIs
        <5> QED
          BY <5>2 DEF V
      <4>5. Len(SubSeq(r, 1, Given)) = Given
        BY <4>2, <4>4
      <4>6. \A i \in 1..Given : 1 + i - 1 = i
        BY <4>2
      <4> QED
        BY <4>4, <4>5, <4>6
    <3>2. Given <= Len(received) /\ Given <= Len(D)
      BY <1>1, <1>6, <1>7, <2>1
    <3> QED
      BY <1>1, <1>7, <3>1, <3>2, Zenon
  <2>4. SubSeq(received, 1, Given) = SubSeq(D, 1, Given)
    BY <2>2, <2>3, SameSeq
  <2> QED
    BY <1>6, <1>7, <2>1, <2>4 DEF IsPrefix
<1>9. ASSUME unwritten = <<>>, pipe = <<>>, ~draining
      PROVE  received = D
  <2>1. Sent = N
    BY <1>1, <1>9 DEF Sent, N
  <2>2. last = Given
    <3>1. CASE poisoned
      <4>1. Given + 1 \in bad
        BY <1>1, <2>1, <3>1 DEF FrameInv, StopsAtTheBad
      <4>2. first <= Given + 1 /\ first \in 1..N
        <5> HIDE DEF bad
        <5> QED
          BY <1>4, <1>5, <4>1
      <4>3. last = first - 1
        <5> HIDE DEF bad
        <5> QED
          BY <4>1 DEF last
      <4> QED
        BY <1>1, <1>6, <4>2, <4>3
    <3>2. CASE ~poisoned
      <4>1. Given = N
        <5>1. SUFFICES ASSUME Given < N PROVE FALSE
          BY <1>1
        <5>2. /\ \E at : Tells(at, Stream, Given + 1, Sent)
              /\ buffered < SizeOf(Given + 1)
          BY <1>9, <2>1, <3>2, <5>1 DEF FrameInv, StreamIsTheRest
        <5>3. PICK at : Tells(at, Stream, Given + 1, Sent)
          BY <5>2
        <5>4. SizeOf(Given + 1) \in 0..Len(Stream)
          <6>1. /\ HeadSize \in Nat /\ Given + 1 \in Nat /\ Given + 1 <= Sent
                /\ Stream \in Seq(Byte) /\ \A f \in (Given + 1)..Sent : frames[f].size \in Nat
            BY <1>1, <2>1, <5>1, FrameTypes DEF N
          <6> QED
            BY <1>1, <5>3, <6>1, TellsTheFirst
        <5>5. Len(Stream) = buffered + 0 /\ buffered \in Nat
          <6>1. Len(pipe) = 0
            BY <1>9
          <6> QED
            BY <6>1, FrameTypes
        <5> QED
          BY <5>2, <5>4, <5>5
      <4> QED
        BY <1>1, <1>6, <4>1
    <3> QED
      BY <3>1, <3>2
  <2>3. \A i \in 1..Given : received[i] = D[i]
    BY <1>1, <1>3, <1>6, <1>7
  <2> QED
    BY <1>1, <1>7, <2>2, <2>3, SameSeq DEF Given
<1>10. errors = (IF poisoned THEN 1 ELSE 0)
  BY DEF FrameInv, StopsAtTheBad
<1> QED
  BY <1>2, <1>8, <1>9, <1>10 DEF FramesArriveWhole

-----------------------------------------------------------------------------
(* The steps. *)

LEMMA FrameInvInit == FrameInit => FrameInv
<1> SUFFICES ASSUME FrameInit PROVE FrameInv
  OBVIOUS
<1>1. /\ frames = <<>> /\ unwritten = <<>> /\ pipe = <<>> /\ chunks = <<>> /\ buffered = 0
      /\ poisoned = FALSE /\ draining = FALSE /\ received = <<>> /\ errors = 0 /\ stopped = FALSE
  BY DEF FrameInit
<1>2. FrameTypeOK
  <2>1. {stopped, poisoned, draining} \subseteq BOOLEAN
    BY <1>1
  <2>2. <<>> \in Seq(0..MaxFrames) /\ <<>> \in Seq(FrameIds)
    OBVIOUS
  <2>3. <<>> \in Seq([value : 0..MaxFrames, size : 0..(MaxBytes + 1), valid : BOOLEAN])
    OBVIOUS
  <2> QED
    BY <1>1, <2>1, <2>2, <2>3 DEF FrameTypeOK
<1>3. FlattenSeq(chunks) = <<>> /\ Stream = <<>>
  <2>1. <<>> \o <<>> = <<>>
    OBVIOUS
  <2> QED
    BY <1>1, <2>1, FlattenNone DEF Stream
<1>4. Given = 0 /\ Sent = 0
  BY <1>1 DEF Given, Sent
<1>5. BacklogInOrder /\ GivenInOrder /\ StopsAtTheBad
  BY <1>1, <1>4, FrameAssumption DEF BacklogInOrder, GivenInOrder, StopsAtTheBad
<1>6. Tells([f \in 1..1 |-> 0], Stream, 1, 0)
  BY <1>3 DEF Tells
<1>7. StreamIsTheRest
  BY <1>4, <1>6 DEF StreamIsTheRest
<1> QED
  BY <1>1, <1>2, <1>3, <1>5, <1>7 DEF FrameInv

\* A frame on the sender's stream.
LEMMA MoreFrames ==
    ASSUME FrameInv, Len(frames) < MaxFrames,
           NEW e \in [value : 0..MaxFrames, size : 0..(MaxBytes + 1), valid : BOOLEAN],
           frames' = Append(frames, e), unwritten' = Append(unwritten, Len(frames) + 1),
           UNCHANGED <<stopped, pipe, chunks, buffered, poisoned, draining, received, errors>>
    PROVE  FrameInv'
<1> DEFINE R == [value : 0..MaxFrames, size : 0..(MaxBytes + 1), valid : BOOLEAN]
           N == Len(frames)
<1>1. /\ frames \in Seq(R) /\ unwritten \in Seq(FrameIds)
  BY DEF FrameInv, FrameTypeOK
<1>2. /\ N \in Nat /\ Len(unwritten) \in Nat /\ Given \in Nat /\ Sent \in Nat
      /\ Sent <= N /\ Given <= Sent /\ MaxFrames \in Nat
  BY FrameTypes
<1>3. /\ frames' \in Seq(R) /\ Len(frames') = N + 1 /\ \A f \in 1..N : frames'[f] = frames[f]
  <2> HIDE DEF R
  <2>1. e \in R
    BY DEF R
  <2> QED
    BY <1>1, <2>1
<1>4. /\ unwritten' \in Seq(FrameIds) /\ Len(unwritten') = Len(unwritten) + 1
      /\ \A i \in 1..Len(unwritten) : unwritten'[i] = unwritten[i]
      /\ unwritten'[Len(unwritten) + 1] = N + 1
  <2>1. N + 1 \in FrameIds
    BY <1>2 DEF FrameIds
  <2> QED
    BY <1>1, <2>1
<1> HIDE DEF R
<1>5. Sent' = Sent /\ Given' = Given /\ Stream' = Stream
  BY <1>2, <1>3, <1>4 DEF Sent, Given, Stream
<1>6. \A f \in 1..N : (Sound(f) <=> Sound(f)') /\ SizeOf(f)' = SizeOf(f)
  BY <1>3 DEF Sound, SizeOf
<1>7. FrameTypeOK'
  BY <1>3, <1>4 DEF FrameInv, FrameTypeOK, R
<1>8. BacklogInOrder'
  <2>1. \A i \in 1..(Len(unwritten) + 1) : unwritten'[i] = Sent + i
    <3>1. \A i \in 1..Len(unwritten) : unwritten[i] = Sent + i
      BY DEF FrameInv, BacklogInOrder
    <3>2. N + 1 = Sent + (Len(unwritten) + 1)
      BY <1>2 DEF Sent
    <3>3. \A i \in 1..(Len(unwritten) + 1) : i \in 1..Len(unwritten) \/ i = Len(unwritten) + 1
      BY <1>2
    <3> QED
      BY <1>4, <3>1, <3>2, <3>3
  <2>2. Len(unwritten) <= N
    BY DEF FrameInv, BacklogInOrder
  <2>3. Len(frames') <= MaxFrames /\ Len(unwritten') <= Len(frames')
    BY <1>2, <1>3, <1>4, <2>2
  <2>4. \A i \in 1..Len(unwritten') : unwritten'[i] = Sent' + i
    BY <1>4, <1>5, <2>1
  <2> QED
    BY <2>3, <2>4 DEF BacklogInOrder
<1>9. GivenInOrder'
  <2>1. \A i \in 1..Given : Sound(i) /\ received[i] = frames[i].value
    BY DEF FrameInv, GivenInOrder
  <2>2. \A i \in 1..Given : Sound(i)' /\ received'[i] = frames'[i].value
    BY <1>2, <1>3, <1>6, <2>1
  <2> QED
    BY <1>2, <1>5, <2>2 DEF GivenInOrder
<1>10. StopsAtTheBad'
  BY <1>2, <1>5, <1>6 DEF FrameInv, StopsAtTheBad
<1>11. StreamIsTheRest'
  <2> SUFFICES ASSUME ~poisoned
               PROVE  /\ \E at : Tells(at, Stream, Given + 1, Sent)'
                      /\ ~draining /\ Given < Sent => buffered < SizeOf(Given + 1)'
    BY <1>5 DEF StreamIsTheRest
  <2>1. PICK at : Tells(at, Stream, Given + 1, Sent)
    BY DEF FrameInv, StreamIsTheRest
  <2>2. \A f \in (Given + 1)..Sent : SizeOf(f)' = SizeOf(f)
    BY <1>2, <1>6
  <2>3. Tells(at, Stream, Given + 1, Sent)'
    BY <1>5, <2>1, <2>2 DEF Tells
  <2>4. ~draining /\ Given < Sent => buffered < SizeOf(Given + 1)'
    <3>1. Given < Sent => SizeOf(Given + 1)' = SizeOf(Given + 1)
      <4>2. SizeOf(Given + 1)' = HeadSize + frames'[Given + 1].size
        BY <1>5 DEF SizeOf
      <4>3. Given < Sent => Given + 1 \in 1..N
        BY <1>2
      <4> QED
        BY <1>3, <4>2, <4>3 DEF SizeOf
    <3> QED
      BY <3>1 DEF FrameInv, StreamIsTheRest
  <2> QED
    BY <2>3, <2>4
<1> QED
  BY <1>7, <1>8, <1>9, <1>10, <1>11 DEF FrameInv

LEMMA FrameInvSend ==
    ASSUME FrameInv, NEW size \in 0..(MaxBytes + 1), Send(size) \/ SendBad(size)
    PROVE  FrameInv'
<1> DEFINE n == Len(frames) + 1
           fits == size <= MaxBytes
           bytes == IF fits THEN size ELSE 1
<1>1. /\ MaxBytes \in Nat \ {0} /\ Len(frames) \in Nat /\ MaxFrames \in Nat
      /\ Len(frames) < MaxFrames
  BY FrameTypes DEF Send, SendBad
<1>2. CASE SendBad(size)
  <2>1. [value |-> n, size |-> size, valid |-> FALSE]
           \in [value : 0..MaxFrames, size : 0..(MaxBytes + 1), valid : BOOLEAN]
    BY <1>1
  <2> QED
    BY <1>1, <1>2, <2>1, MoreFrames DEF SendBad
<1>3. CASE Send(size) /\ stopped' = TRUE /\ UNCHANGED <<frames, unwritten>>
  <2>1. UNCHANGED <<frames, unwritten, pipe, chunks, buffered, poisoned, draining, received, errors>>
    BY <1>3 DEF Send
  <2>2. FrameTypeOK'
    BY <1>3, <2>1 DEF FrameInv, FrameTypeOK
  <2>3. Stream' = Stream /\ Given' = Given /\ Sent' = Sent
    BY <2>1 DEF Stream, Given, Sent
  <2>4. BacklogInOrder' /\ GivenInOrder' /\ StopsAtTheBad' /\ StreamIsTheRest'
    <3>1. BacklogInOrder' <=> BacklogInOrder
      BY <2>1, <2>3 DEF BacklogInOrder
    <3>2. GivenInOrder' <=> GivenInOrder
      BY <2>1, <2>3 DEF GivenInOrder, Sound
    <3>3. StopsAtTheBad' <=> StopsAtTheBad
      BY <2>1, <2>3 DEF StopsAtTheBad, Sound
    <3>4. StreamIsTheRest' <=> StreamIsTheRest
      <4>1. UNCHANGED <<frames, HeadSize>>
        BY <2>1
      <4>2. \A at : Tells(at, Stream, Given + 1, Sent)' <=> Tells(at, Stream, Given + 1, Sent)
        BY <2>3, <4>1 DEF Tells, SizeOf
      <4>3. SizeOf(Given + 1)' = SizeOf(Given + 1)
        BY <2>3, <4>1 DEF SizeOf
      <4> QED
        BY <2>1, <2>3, <4>2, <4>3 DEF StreamIsTheRest
    <3> QED
      BY <3>1, <3>2, <3>3, <3>4 DEF FrameInv
  <2> QED
    BY <2>1, <2>2, <2>4 DEF FrameInv
<1>4. CASE /\ Send(size)
           /\ frames' = Append(frames, [value |-> IF fits THEN n ELSE 0, size |-> bytes,
                                       valid |-> TRUE])
           /\ unwritten' = Append(unwritten, n)
           /\ UNCHANGED stopped
  <2>1. [value |-> IF fits THEN n ELSE 0, size |-> bytes, valid |-> TRUE]
           \in [value : 0..MaxFrames, size : 0..(MaxBytes + 1), valid : BOOLEAN]
    BY <1>1
  <2>2. UNCHANGED <<stopped, pipe, chunks, buffered, poisoned, draining, received, errors>>
    BY <1>4 DEF Send
  <2> HIDE DEF fits, bytes
  <2> QED
    BY <1>1, <1>4, <2>1, <2>2, MoreFrames
<1>5. Send(size) => <1>3!1 \/ <1>4!1
  BY DEF Send
<1> QED
  BY <1>2, <1>3, <1>4, <1>5

LEMMA FrameInvWrite ==
    ASSUME FrameInv, WriteFrame
    PROVE  FrameInv'
<1> DEFINE w == Sent + 1
           U == Len(unwritten)
<1>1. /\ U \in Nat /\ Sent \in Nat /\ Given \in Nat /\ Given <= Sent /\ Len(frames) \in Nat
      /\ Sent <= Len(frames) /\ HeadSize \in Nat \ {0} /\ Len(frames) <= MaxFrames
      /\ MaxFrames \in Nat
      /\ \A f \in 1..Len(frames) : frames[f].size \in Nat /\ SizeOf(f) \in Nat
      /\ FlattenSeq(chunks) \in Seq(Byte) /\ Stream \in Seq(Byte) /\ pipe \in Seq(Byte)
  BY FrameTypes DEF FrameInv
<1>2. /\ unwritten # <<>> /\ unwritten' = Tail(unwritten)
      /\ pipe' = pipe \o FrameBytes(Head(unwritten))
      /\ UNCHANGED <<frames, stopped, chunks, buffered, poisoned, draining, received, errors>>
  BY DEF WriteFrame
<1>3. /\ unwritten \in Seq(FrameIds) /\ U <= Len(frames)
      /\ \A i \in 1..U : unwritten[i] = Sent + i
  BY DEF FrameInv, FrameTypeOK, BacklogInOrder
<1>4. /\ U >= 1 /\ Head(unwritten) = w /\ w \in 1..Len(frames)
      /\ unwritten' \in Seq(FrameIds) /\ Len(unwritten') = U - 1
      /\ \A i \in 1..(U - 1) : unwritten'[i] = unwritten[i + 1]
  <2>1. U >= 1 /\ unwritten' \in Seq(FrameIds) /\ Len(unwritten') = U - 1
        /\ Head(unwritten) = unwritten[1]
    BY <1>2, <1>3
  <2>2. \A i \in 1..(U - 1) : unwritten'[i] = unwritten[i + 1]
    BY <1>2, <1>3
  <2>3. unwritten[1] = Sent + 1
    BY <1>1, <1>3, <2>1
  <2>4. w <= Len(frames)
    BY <1>1, <1>3, <2>1 DEF Sent
  <2> QED
    BY <1>1, <2>1, <2>2, <2>3, <2>4
<1>5. /\ FrameBytes(w) \in Seq(Byte) /\ Len(FrameBytes(w)) = SizeOf(w)
  <2>1. frames[w].size \in Nat /\ w \in Nat /\ HeadSize \in Nat
    BY <1>1, <1>4
  <2> QED
    BY <2>1, BytesOfFrame
<1>6. Given' = Given /\ Sent' = w
  BY <1>1, <1>2, <1>4 DEF Given, Sent
<1>7. /\ pipe' \in Seq(Byte) /\ Stream' = Stream \o FrameBytes(w)
  <2>1. pipe' = pipe \o FrameBytes(w)
    BY <1>2, <1>4
  <2>2. Stream' = FlattenSeq(chunks) \o (pipe \o FrameBytes(w))
    BY <1>2, <2>1 DEF Stream
  <2> DEFINE x == FlattenSeq(chunks)
             z == FrameBytes(w)
  <2>3. x \in Seq(Byte) /\ z \in Seq(Byte)
    BY <1>1, <1>5
  <2> HIDE DEF x, z
  <2>4. (x \o pipe) \o z = x \o (pipe \o z)
    <3>1. \A q, r, t \in Seq(Byte) : (q \o r) \o t = q \o (r \o t)
      BY ConcatAssoc
    <3>2. pipe \in Seq(Byte)
      BY <1>1
    <3> QED
      BY <2>3, <3>1, <3>2
  <2>5. pipe \o z \in Seq(Byte)
    BY <1>1, <2>3, ConcatIs
  <2> QED
    BY <2>1, <2>2, <2>4, <2>5 DEF Stream, x, z
<1>8. FrameTypeOK'
  BY <1>2, <1>4 DEF FrameInv, FrameTypeOK
<1>9. BacklogInOrder'
  <2>1. \A i \in 1..(U - 1) : unwritten'[i] = w + i
    <3>1. SUFFICES ASSUME NEW i \in 1..(U - 1) PROVE unwritten'[i] = w + i
      OBVIOUS
    <3>2. i + 1 \in 1..U /\ Sent + (i + 1) = w + i
      BY <1>1
    <3> QED
      BY <1>3, <1>4, <3>2
  <2>2. Len(frames') = Len(frames) /\ U - 1 <= Len(frames)
    BY <1>1, <1>2, <1>3
  <2> HIDE DEF U, w
  <2> QED
    BY <1>1, <1>4, <1>6, <2>1, <2>2 DEF BacklogInOrder
<1>10. GivenInOrder'
  <2>1. Given <= w
    BY <1>1
  <2> QED
    BY <1>2, <1>6, <2>1 DEF FrameInv, GivenInOrder, Sound
<1>11. StopsAtTheBad'
  <2>1. Given < Sent => Given < w
    BY <1>1
  <2> HIDE DEF w
  <2> QED
    BY <1>2, <1>6, <2>1 DEF FrameInv, StopsAtTheBad, Sound
<1>12. ASSUME ~poisoned
       PROVE  /\ \E at : Tells(at, Stream', Given + 1, w)
              /\ ~draining /\ Given < w => buffered < SizeOf(Given + 1)
  <2>1. PICK at : Tells(at, Stream, Given + 1, Sent)
    BY <1>12 DEF FrameInv, StreamIsTheRest
  <2>2. \E at2 : Tells(at2, Stream \o FrameBytes(Sent + 1), Given + 1, Sent + 1)
    <3>1. /\ Given + 1 \in Nat /\ Given + 1 <= Sent + 1 /\ HeadSize \in Nat
          /\ \A f \in (Given + 1)..(Sent + 1) : frames[f].size \in Nat
      BY <1>1, <1>4, SMTT(30)
    <3> QED
      BY <1>1, <2>1, <3>1, TellsOneMore
  <2>3. ASSUME ~draining, Given < w PROVE buffered < SizeOf(Given + 1)
    <3>1. CASE Given < Sent
      BY <1>12, <2>3, <3>1 DEF FrameInv, StreamIsTheRest
    <3>2. CASE Given = Sent
      <4>1. Len(Stream) = 0
        BY <2>1, <3>2 DEF Tells
      <4>2. buffered = 0
        BY <4>1, FrameTypes
      <4>3. SizeOf(w) >= 1
        BY <1>1, <1>4, SMTT(30) DEF SizeOf
      <4>4. Given + 1 = w /\ SizeOf(w) \in Nat
        BY <1>1, <1>4, <3>2
      <4> HIDE DEF w
      <4> QED
        BY <4>2, <4>3, <4>4
    <3> QED
      BY <1>1, <2>3, <3>1, <3>2
  <2> QED
    BY <1>7, <2>2, <2>3
<1>13. StreamIsTheRest'
  <2>1. frames' = frames
    BY <1>2
  <2>2. \A at : Tells(at, Stream', Given + 1, w) => Tells(at, Stream, Given + 1, Sent)'
    BY <1>6, <2>1 DEF Tells, SizeOf
  <2>3. SizeOf(Given + 1)' = SizeOf(Given + 1)
    BY <1>6, <2>1 DEF SizeOf
  <2> HIDE DEF w
  <2> QED
    BY <1>2, <1>6, <1>12, <2>2, <2>3 DEF StreamIsTheRest
<1> QED
  BY <1>2, <1>7, <1>8, <1>9, <1>10, <1>11, <1>13 DEF FrameInv

\* A step of the receiver leaves the sender's part as it is.
LEMMA SenderSame ==
    ASSUME FrameInv, UNCHANGED <<frames, unwritten, stopped>>
    PROVE  /\ Sent' = Sent /\ BacklogInOrder'
           /\ \A f : SizeOf(f)' = SizeOf(f) /\ (Sound(f)' <=> Sound(f))
           /\ \A at, s, lo, hi : Tells(at, s, lo, hi)' <=> Tells(at, s, lo, hi)
<1>1. Sent' = Sent
  BY DEF Sent
<1>2. BacklogInOrder'
  BY <1>1 DEF FrameInv, BacklogInOrder
<1> QED
  BY <1>1, <1>2 DEF SizeOf, Sound, Tells

LEMMA FrameInvPush ==
    ASSUME FrameInv, NEW n \in 1..Len(pipe), Push(n)
    PROVE  FrameInv'
<1> DEFINE a == SubSeq(pipe, 1, n)
           b == SubSeq(pipe, n + 1, Len(pipe))
<1>1. /\ ~draining /\ pipe' = b
      /\ UNCHANGED <<frames, unwritten, stopped, poisoned, received, errors>>
  BY DEF Push
<1>2. pipe \in Seq(Byte) /\ FlattenSeq(chunks) \in Seq(Byte) /\ chunks \in Seq(Seq(Byte))
  BY FrameTypes DEF FrameInv
<1>3. a \in Seq(Byte) /\ b \in Seq(Byte) /\ Len(a) = n
  BY <1>2
<1>4. pipe = a \o b
  BY <1>2
<1> HIDE DEF a, b
<1>5. /\ Given' = Given /\ Sent' = Sent /\ BacklogInOrder'
      /\ \A f : SizeOf(f)' = SizeOf(f) /\ (Sound(f)' <=> Sound(f))
  BY <1>1, SenderSame DEF Given
<1>6. GivenInOrder'
  BY <1>1, <1>5 DEF FrameInv, GivenInOrder
<1>7. CASE poisoned
  <2>1. UNCHANGED <<chunks, buffered, draining>>
    BY <1>7 DEF Push
  <2>2. FrameTypeOK'
    BY <1>1, <2>1 DEF FrameInv, FrameTypeOK
  <2>3. StopsAtTheBad' /\ StreamIsTheRest'
    BY <1>1, <1>5, <1>7, <2>1 DEF FrameInv, StopsAtTheBad, StreamIsTheRest
  <2> QED
    BY <1>1, <1>3, <1>5, <1>6, <2>1, <2>2, <2>3 DEF FrameInv
<1>8. CASE ~poisoned
  <2>1. chunks' = Append(chunks, a) /\ buffered' = buffered + n /\ draining' = TRUE
    BY <1>8 DEF Push, a
  <2>2. /\ chunks' \in Seq(Seq(Byte))
        /\ FlattenSeq(chunks') = FlattenSeq(chunks) \o a
    <3>1. /\ <<a>> \in Seq(Seq(Byte)) /\ FlattenSeq(<<a>>) = a
          /\ Append(chunks, a) = chunks \o <<a>> /\ Append(chunks, a) \in Seq(Seq(Byte))
      BY <1>2, <1>3, FlattenOne, SMTT(30)
    <3>2. FlattenSeq(chunks \o <<a>>) = FlattenSeq(chunks) \o FlattenSeq(<<a>>)
      BY <1>2, <3>1, FlattenConcat
    <3> QED
      BY <2>1, <3>1, <3>2
  <2>3. Stream' = Stream
    <3>1. (FlattenSeq(chunks) \o a) \o b = FlattenSeq(chunks) \o (a \o b)
      <4> DEFINE x == FlattenSeq(chunks)
      <4>1. x \in Seq(Byte)
        BY <1>2
      <4> HIDE DEF x
      <4>2. (x \o a) \o b = x \o (a \o b)
        BY <1>3, <4>1, ConcatAssoc, SMTT(30)
      <4> QED
        BY <4>2 DEF x
    <3> QED
      BY <1>1, <1>4, <2>2, <3>1 DEF Stream
  <2>4. buffered' = Len(FlattenSeq(chunks'))
    <3>1. Len(FlattenSeq(chunks) \o a) = Len(FlattenSeq(chunks)) + Len(a)
      BY <1>2, <1>3, ConcatIs
    <3> QED
      BY <1>3, <2>1, <2>2, <3>1 DEF FrameInv
  <2>5. FrameTypeOK'
    <3>1. buffered' \in Nat
      BY <2>1 DEF FrameInv, FrameTypeOK
    <3> QED
      BY <1>1, <2>1, <3>1 DEF FrameInv, FrameTypeOK
  <2>6. StopsAtTheBad'
    BY <1>1, <1>8, <1>5 DEF FrameInv, StopsAtTheBad
  <2>7. StreamIsTheRest'
    <3>1. PICK at : Tells(at, Stream, Given + 1, Sent)
      BY <1>8 DEF FrameInv, StreamIsTheRest
    <3>2. Tells(at, Stream, Given + 1, Sent)'
      BY <1>1, <1>5, <2>3, <3>1 DEF Tells
    <3> QED
      BY <2>1, <3>2 DEF StreamIsTheRest
  <2> QED
    BY <1>1, <1>3, <1>5, <1>6, <2>2, <2>4, <2>5, <2>6, <2>7 DEF FrameInv
<1> QED
  BY <1>7, <1>8

\* With a header in its buffer the decoder reads the next frame's own bytes.
LEMMA ReadsTheNext ==
    ASSUME FrameInv, draining, buffered >= HeadSize
    PROVE  LET f == Given + 1
               head == Peek(chunks, HeadSize)
               len == frames[f].size
               rest == Consume(chunks, HeadSize)
           IN /\ ~poisoned /\ Given < Sent
              /\ head[1][1] = f /\ Declared(head) = len
              /\ buffered >= HeadSize + len =>
                    /\ Parses(Peek(rest, len), f) <=> frames[f].valid
                    /\ Consume(rest, len) \in Seq(Seq(Byte))
                    /\ FlattenSeq(Consume(rest, len)) = After(FlattenSeq(chunks), HeadSize + len)
<1> DEFINE f == Given + 1
           T == FlattenSeq(chunks)
           head == Peek(chunks, HeadSize)
           len == frames[f].size
           rest == Consume(chunks, HeadSize)
           own == SubSeq(FrameBytes(f), 1, HeadSize)
<1>1. /\ HeadSize \in Nat \ {0} /\ Given \in Nat /\ Sent \in Nat /\ Given <= Sent
      /\ Sent <= Len(frames) /\ Len(frames) \in Nat
      /\ \A g \in 1..Len(frames) : frames[g].size \in Nat /\ SizeOf(g) \in Nat
      /\ T \in Seq(Byte) /\ Stream \in Seq(Byte) /\ buffered \in Nat /\ Len(pipe) \in Nat
      /\ Len(Stream) = buffered + Len(pipe) /\ Len(T) = buffered
      /\ \A i \in 1..buffered : Stream[i] = T[i]
      /\ chunks \in Seq(Seq(Byte))
  BY FrameTypes DEF FrameInv
<1>2. ~poisoned
  BY DEF FrameInv, StopsAtTheBad
<1>3. PICK at : Tells(at, Stream, f, Sent)
  BY <1>2 DEF FrameInv, StreamIsTheRest
<1> HIDE DEF T
<1>4. Given < Sent
  <2>1. SUFFICES ASSUME Given = Sent PROVE FALSE
    BY <1>1
  <2>2. Len(Stream) = 0
    BY <1>3, <2>1 DEF Tells
  <2> QED
    BY <1>1, <2>2
<1>5. f \in Nat /\ f \in 1..Len(frames) /\ len \in Nat /\ SizeOf(f) = HeadSize + len
  BY <1>1, <1>4 DEF SizeOf
<1>6. SizeOf(f) \in 0..Len(Stream) /\ \A p \in 1..SizeOf(f) : Stream[p] = <<f, p>>
  <2>1. /\ f \in Nat /\ f <= Sent /\ HeadSize \in Nat
        /\ \A g \in f..Sent : frames[g].size \in Nat
    BY <1>1, <1>4
  <2> HIDE DEF f
  <2> QED
    BY <1>1, <1>3, <2>1, TellsTheFirst
<1>7. /\ FrameBytes(f) \in Seq(Byte) /\ Len(FrameBytes(f)) = HeadSize + len
      /\ \A p \in 1..(HeadSize + len) : FrameBytes(f)[p] = <<f, p>>
  <2>1. HeadSize \in Nat
    BY <1>1
  <2> HIDE DEF f
  <2> QED
    BY <1>5, <2>1, BytesOfFrame
<1> HIDE DEF f, len
<1>8. \A p \in 1..buffered : p \in 1..(HeadSize + len) => T[p] = <<f, p>>
  BY <1>1, <1>5, <1>6
<1>9. head = own
  <2>1. 1 \in Nat /\ HeadSize \in Nat /\ 1 >= 1 /\ HeadSize >= 1 /\ HeadSize <= Len(T)
        /\ HeadSize <= Len(FrameBytes(f))
    BY <1>1, <1>5, <1>7
  <2>2. /\ head \in Seq(Byte) /\ Len(head) = HeadSize - 1 + 1
        /\ \A i \in 1..Len(head) : head[i] = T[1 + i - 1]
    BY <1>1, <2>1, SubSeqIs DEF Peek, T
  <2>3. /\ own \in Seq(Byte) /\ Len(own) = HeadSize - 1 + 1
        /\ \A i \in 1..Len(own) : own[i] = FrameBytes(f)[1 + i - 1]
    BY <1>7, <2>1, SubSeqIs
  <2> HIDE DEF head, own
  <2>4. ASSUME NEW i \in 1..Len(head) PROVE head[i] = own[i]
    <3>1. /\ i \in 1..buffered /\ i \in 1..(HeadSize + len) /\ 1 + i - 1 = i /\ i \in 1..Len(own)
      BY <1>1, <1>5, <2>1, <2>2, <2>3
    <3> QED
      BY <1>7, <1>8, <2>2, <2>3, <3>1
  <2> QED
    BY <2>2, <2>3, <2>4, SameSeq
<1>10. head[1][1] = f /\ Declared(head) = len
  <2>1. head[1] = <<f, 1>>
    <3>1. own[1] = FrameBytes(f)[1]
      BY <1>1, <1>5, <1>7
    <3>2. FrameBytes(f)[1] = <<f, 1>>
      BY <1>1, <1>5, <1>7
    <3> QED
      BY <1>9, <3>1, <3>2
  <2>2. head[1][1] = f
    BY <2>1
  <2> HIDE DEF head
  <2>3. Declared(head) = IF head = SubSeq(FrameBytes(f), 1, HeadSize) THEN frames[f].size ELSE 0
    BY <2>2 DEF Declared
  <2> QED
    BY <1>9, <2>2, <2>3 DEF own, len
<1>11. /\ rest \in Seq(Seq(Byte)) /\ FlattenSeq(rest) = After(T, HeadSize)
  <2>1. HeadSize \in 0..Len(FlattenSeq(chunks))
    BY <1>1 DEF T
  <2> QED
    BY <1>1, <2>1, ConsumeDrops DEF T
<1> HIDE DEF rest
<1>12. ASSUME buffered >= HeadSize + len
       PROVE  /\ Parses(Peek(rest, len), f) <=> frames[f].valid
              /\ Consume(rest, len) \in Seq(Seq(Byte))
              /\ FlattenSeq(Consume(rest, len)) = After(T, HeadSize + len)
  <2> DEFINE A == After(T, HeadSize)
             body == SubSeq(A, 1, len)
             its == SubSeq(FrameBytes(f), HeadSize + 1, HeadSize + len)
  <2>1. /\ A \in Seq(Byte) /\ Len(A) = buffered - HeadSize
        /\ \A i \in 1..(buffered - HeadSize) : A[i] = T[HeadSize + i]
    <3>1. HeadSize \in 0..Len(T)
      BY <1>1
    <3> QED
      BY <1>1, <3>1, AfterIs
  <2> HIDE DEF A
  <2>2. body = its
    <3>1. /\ 1 \in Nat /\ 1 >= 1 /\ len <= Len(A) /\ HeadSize + 1 \in Nat /\ HeadSize + 1 >= 1
          /\ HeadSize + len \in Nat /\ HeadSize + len <= Len(FrameBytes(f))
      BY <1>1, <1>5, <1>7, <1>12, <2>1
    <3>2. /\ body \in Seq(Byte) /\ Len(body) = (IF 1 <= len THEN len - 1 + 1 ELSE 0)
          /\ \A i \in 1..Len(body) : body[i] = A[1 + i - 1]
      BY <1>5, <2>1, <3>1, SubSeqIs
    <3>3. /\ its \in Seq(Byte)
          /\ Len(its) = (IF HeadSize + 1 <= HeadSize + len
                         THEN (HeadSize + len) - (HeadSize + 1) + 1 ELSE 0)
          /\ \A i \in 1..Len(its) : its[i] = FrameBytes(f)[HeadSize + 1 + i - 1]
      <4> DEFINE F == FrameBytes(f)
                 lo == HeadSize + 1
                 hi == HeadSize + len
      <4>1. /\ F \in Seq(Byte) /\ lo \in Nat /\ lo >= 1 /\ hi \in Nat /\ hi <= Len(F)
        BY <1>7, <3>1
      <4> HIDE DEF F, lo, hi
      <4>2. /\ SubSeq(F, lo, hi) \in Seq(Byte)
            /\ Len(SubSeq(F, lo, hi)) = (IF lo <= hi THEN hi - lo + 1 ELSE 0)
            /\ \A i \in 1..Len(SubSeq(F, lo, hi)) : SubSeq(F, lo, hi)[i] = F[lo + i - 1]
        BY <4>1, SubSeqIs
      <4> QED
        BY <4>2, Zenon DEF F, lo, hi
    <3> HIDE DEF body, its
    <3>4. Len(body) = len /\ Len(its) = len
      BY <1>1, <1>5, <3>2, <3>3
    <3>5. ASSUME NEW i \in 1..len PROVE body[i] = its[i]
      <4>1. /\ 1 + i - 1 = i /\ HeadSize + 1 + i - 1 = HeadSize + i
            /\ i \in 1..(buffered - HeadSize) /\ HeadSize + i \in 1..buffered
            /\ HeadSize + i \in 1..(HeadSize + len)
        BY <1>1, <1>5, <1>12
      <4>2. body[i] = A[i] /\ A[i] = T[HeadSize + i] /\ its[i] = FrameBytes(f)[HeadSize + i]
        BY <2>1, <3>2, <3>3, <3>4, <4>1
      <4> QED
        BY <1>7, <1>8, <4>1, <4>2
    <3> QED
      BY <3>2, <3>3, <3>4, <3>5, SameSeq
  <2>3. Peek(rest, len) = its
    BY <1>11, <2>2 DEF Peek, A
  <2>4. Parses(its, f) <=> frames[f].valid
    BY DEF Parses, len
  <2>5. /\ Consume(rest, len) \in Seq(Seq(Byte))
        /\ FlattenSeq(Consume(rest, len)) = After(FlattenSeq(rest), len)
    <3>1. len \in 0..Len(FlattenSeq(rest))
      BY <1>1, <1>5, <1>11, <1>12, <2>1 DEF A
    <3> QED
      BY <1>11, <3>1, ConsumeDrops
  <2>6. After(After(T, HeadSize), len) = After(T, HeadSize + len)
    <3>1. HeadSize \in Nat /\ HeadSize + len <= Len(T)
      BY <1>1, <1>12
    <3> QED
      BY <1>1, <1>5, <3>1, AfterAfter
  <2> QED
    BY <1>11, <2>3, <2>4, <2>5, <2>6
<1> QED
  BY <1>2, <1>4, <1>10, <1>12 DEF f, len, rest, head, T

LEMMA FrameInvDrain ==
    ASSUME FrameInv, Drain
    PROVE  FrameInv'
<1> DEFINE head == Peek(chunks, HeadSize)
           len == Declared(head)
           rest == Consume(chunks, HeadSize)
           body == Peek(rest, len)
           f == head[1][1]
           g == Given + 1
           n == HeadSize + frames[g].size
<1>1. /\ draining /\ UNCHANGED <<frames, unwritten, stopped, pipe>>
  BY DEF Drain
<1>2. /\ HeadSize \in Nat \ {0} /\ Given \in Nat /\ Sent \in Nat /\ Given <= Sent
      /\ Sent <= Len(frames) /\ Len(frames) \in Nat /\ MaxBytes \in Nat
      /\ \A i \in 1..Len(frames) : /\ frames[i].size \in Nat /\ SizeOf(i) \in Nat
                                   /\ frames[i].value \in 0..MaxFrames
      /\ FlattenSeq(chunks) \in Seq(Byte) /\ Stream \in Seq(Byte) /\ buffered \in Nat
      /\ Len(pipe) \in Nat /\ Len(Stream) = buffered + Len(pipe)
  BY FrameTypes
<1>3. /\ Len(FlattenSeq(chunks)) = buffered /\ pipe \in Seq(Byte)
      /\ chunks \in Seq(Seq(Byte)) /\ received \in Seq(0..MaxFrames)
  BY DEF FrameInv, FrameTypeOK
<1>4. /\ Sent' = Sent /\ BacklogInOrder'
      /\ \A i : SizeOf(i)' = SizeOf(i) /\ (Sound(i)' <=> Sound(i))
      /\ \A at, s, lo, hi : Tells(at, s, lo, hi)' <=> Tells(at, s, lo, hi)
  BY <1>1, SenderSame
<1>5. ~poisoned /\ errors = 0
  BY <1>1 DEF FrameInv, StopsAtTheBad
\* The decoder rests.
<1>6. ASSUME draining' = FALSE, UNCHANGED <<chunks, buffered, poisoned, received, errors>>,
             Given < Sent => buffered < SizeOf(g)
      PROVE  FrameInv'
  <2>1. Given' = Given /\ Stream' = Stream
    BY <1>1, <1>6 DEF Given, Stream
  <2>2. FrameTypeOK'
    BY <1>1, <1>6 DEF FrameInv, FrameTypeOK
  <2>3. GivenInOrder'
    BY <1>1, <1>4, <1>6, <2>1 DEF FrameInv, GivenInOrder
  <2>4. StopsAtTheBad'
    BY <1>4, <1>5, <1>6, <2>1 DEF FrameInv, StopsAtTheBad
  <2>5. StreamIsTheRest'
    <3>1. PICK at : Tells(at, Stream, Given + 1, Sent)
      BY <1>5 DEF FrameInv, StreamIsTheRest
    <3>2. Tells(at, Stream, Given + 1, Sent)'
      BY <1>1, <1>4, <2>1, <3>1 DEF Tells
    <3>3. Given < Sent => buffered < SizeOf(Given + 1)'
      BY <1>4, <1>6, <2>1 DEF SizeOf
    <3> QED
      BY <1>4, <1>6, <2>1, <3>2, <3>3 DEF StreamIsTheRest
  <2> QED
    BY <1>1, <1>3, <1>4, <1>6, <2>2, <2>3, <2>4, <2>5 DEF FrameInv
\* The decoder is poisoned.
<1>7. ASSUME Poison, Given < Sent, ~Sound(g)
      PROVE  FrameInv'
  <2>1. /\ poisoned' = TRUE /\ draining' = FALSE /\ chunks' = <<>> /\ buffered' = 0
        /\ errors' = errors + 1 /\ received' = received
    BY <1>7 DEF Poison
  <2>2. Given' = Given
    BY <2>1 DEF Given
  <2>3. FrameTypeOK'
    <3>1. {stopped', poisoned', draining'} \subseteq BOOLEAN
      BY <1>1, <2>1 DEF FrameInv, FrameTypeOK
    <3> QED
      BY <1>1, <1>5, <2>1, <3>1 DEF FrameInv, FrameTypeOK
  <2>4. GivenInOrder'
    BY <1>1, <1>4, <2>1, <2>2 DEF FrameInv, GivenInOrder
  <2>5. StopsAtTheBad'
    <3>1. ~Sound(Given + 1)'
      BY <1>1, <1>7, <2>2 DEF Sound
    <3> QED
      BY <1>4, <1>5, <1>7, <2>1, <2>2, <3>1 DEF StopsAtTheBad
  <2>6. StreamIsTheRest'
    BY <2>1 DEF StreamIsTheRest
  <2>7. Len(FlattenSeq(chunks')) = 0 /\ chunks' \in Seq(Seq(Byte))
    BY <2>1, FlattenNone
  <2> QED
    BY <1>1, <1>3, <1>4, <2>1, <2>3, <2>4, <2>5, <2>6, <2>7 DEF FrameInv
\* A value is given.
<1>8. ASSUME Given < Sent, Sound(g), buffered >= n,
             chunks' \in Seq(Seq(Byte)), FlattenSeq(chunks') = After(FlattenSeq(chunks), n),
             buffered' = buffered - n, received' = Append(received, frames[g].value),
             UNCHANGED <<poisoned, draining, errors>>
      PROVE  FrameInv'
  <2>1. g \in 1..Len(frames) /\ n = SizeOf(g) /\ n \in Nat /\ n \in 0..buffered
    <3>1. g \in 1..Len(frames)
      BY <1>2, <1>8
    <3>2. n = SizeOf(g) /\ SizeOf(g) \in Nat
      BY <1>2, <3>1, Zenon DEF SizeOf
    <3> HIDE DEF n
    <3> QED
      BY <1>2, <1>8, <3>1, <3>2
  <2>2. /\ received' \in Seq(0..MaxFrames) /\ Len(received') = g
        /\ \A i \in 1..Given : received'[i] = received[i]
        /\ received'[g] = frames[g].value
    <3>1. frames[g].value \in 0..MaxFrames
      BY <1>2, <2>1
    <3> QED
      BY <1>3, <1>8, <3>1 DEF Given
  <2>3. Given' = g
    BY <2>2 DEF Given
  <2> HIDE DEF n
  <2>4. buffered' \in Nat /\ buffered' = Len(FlattenSeq(chunks'))
    <3>1. Len(After(FlattenSeq(chunks), n)) = buffered - n
      BY <1>2, <1>3, <2>1, AfterIs
    <3> QED
      BY <1>2, <1>8, <2>1, <3>1
  <2>5. FrameTypeOK'
    BY <1>1, <1>8, <2>2, <2>4 DEF FrameInv, FrameTypeOK
  <2>6. GivenInOrder'
    <3>1. \A i \in 1..Given : Sound(i) /\ received[i] = frames[i].value
      BY DEF FrameInv, GivenInOrder
    <3>2. ASSUME NEW i \in 1..g PROVE Sound(i)' /\ received'[i] = frames[i].value
      <4>1. CASE i = g
        BY <1>4, <1>8, <2>2, <4>1
      <4>2. CASE i # g
        <5>1. i \in 1..Given
          BY <1>2, <4>2
        <5> QED
          BY <1>4, <2>2, <3>1, <5>1
      <4> QED
        BY <4>1, <4>2
    <3>3. g <= Sent
      BY <1>2, <1>8
    <3> HIDE DEF g
    <3> QED
      BY <1>1, <1>4, <2>3, <3>2, <3>3 DEF GivenInOrder
  <2>7. StopsAtTheBad'
    BY <1>5, <1>8 DEF StopsAtTheBad
  <2>8. Stream' = After(Stream, n)
    <3>1. n \in 0..Len(FlattenSeq(chunks))
      BY <1>3, <2>1
    <3>2. After(FlattenSeq(chunks), n) \o pipe = After(FlattenSeq(chunks) \o pipe, n)
      BY <1>2, <1>3, <3>1, AfterConcat
    <3> QED
      BY <1>1, <1>8, <3>2 DEF Stream
  <2>9. StreamIsTheRest'
    <3>1. PICK at : Tells(at, Stream, g, Sent)
      BY <1>5 DEF FrameInv, StreamIsTheRest
    <3>2. /\ HeadSize \in Nat /\ g \in Nat /\ g <= Sent
          /\ \A i \in g..Sent : frames[i].size \in Nat
      BY <1>2, <1>8
    <3> HIDE DEF g
    <3>3. PICK at2 : Tells(at2, After(Stream, SizeOf(g)), g + 1, Sent)
      BY <1>2, <3>1, <3>2, TellsTheFirst
    <3>4. Tells(at2, Stream, Given + 1, Sent)'
      <4> DEFINE s2 == After(Stream, n)
      <4>1. Tells(at2, s2, g + 1, Sent) /\ Stream' = s2
        BY <2>1, <2>8, <3>3, Zenon
      <4> HIDE DEF s2
      <4>2. \A i : SizeOf(i)' = SizeOf(i)
        BY <1>4
      <4> QED
        BY <1>4, <2>3, <4>1, <4>2 DEF Tells
    <3>5. draining'
      BY <1>1, <1>8
    <3> QED
      BY <3>4, <3>5 DEF StreamIsTheRest
  <2> QED
    BY <1>1, <1>3, <1>4, <1>8, <2>4, <2>5, <2>6, <2>7, <2>9 DEF FrameInv
<1>9. CASE buffered < HeadSize
  <2>1. draining' = FALSE /\ UNCHANGED <<chunks, buffered, poisoned, received, errors>>
    BY <1>9 DEF Drain
  <2>2. Given < Sent => buffered < SizeOf(g)
    <3>1. Given < Sent => frames[g].size \in Nat
      BY <1>2
    <3> QED
      BY <1>2, <1>9, <3>1 DEF SizeOf
  <2> QED
    BY <1>6, <2>1, <2>2
<1>10. CASE buffered >= HeadSize
  <2>1. /\ Given < Sent /\ f = g /\ len = frames[g].size
        /\ buffered >= HeadSize + len =>
              /\ Parses(body, f) <=> frames[g].valid
              /\ Consume(rest, len) \in Seq(Seq(Byte))
              /\ FlattenSeq(Consume(rest, len)) = After(FlattenSeq(chunks), n)
    <3> HIDE DEF head, rest
    <3>1. /\ Given < Sent /\ head[1][1] = g /\ Declared(head) = frames[g].size
          /\ buffered >= HeadSize + frames[g].size =>
                /\ Parses(Peek(rest, frames[g].size), g) <=> frames[g].valid
                /\ Consume(rest, frames[g].size) \in Seq(Seq(Byte))
                /\ FlattenSeq(Consume(rest, frames[g].size)) = After(FlattenSeq(chunks), n)
      BY <1>1, <1>10, ReadsTheNext DEF head, rest
    <3> QED
      BY <3>1
  <2>2. len \in Nat /\ g \in 1..Len(frames) /\ n = HeadSize + len /\ SizeOf(g) = n
    BY <1>2, <2>1 DEF SizeOf
  <2>3. ~(buffered < HeadSize)
    BY <1>2, <1>10
  <2>4. IF len > MaxBytes THEN Poison
        ELSE IF buffered < HeadSize + len
        THEN draining' = FALSE /\ UNCHANGED <<chunks, buffered, poisoned, received, errors>>
        ELSE IF ~Parses(body, f) THEN Poison
        ELSE /\ chunks' = Consume(rest, len)
             /\ buffered' = buffered - HeadSize - len
             /\ received' = Append(received, frames[f].value)
             /\ UNCHANGED <<poisoned, draining, errors>>
    BY <2>3 DEF Drain
  <2> HIDE DEF head, len, rest, body, f
  <2>5. CASE len > MaxBytes
    <3>1. ~Sound(g)
      BY <1>2, <2>1, <2>2, <2>5, SMTT(30) DEF Sound
    <3> QED
      BY <1>7, <2>1, <2>4, <2>5, <3>1
  <2>6. CASE ~(len > MaxBytes) /\ buffered < HeadSize + len
    BY <1>6, <2>2, <2>4, <2>6
  <2>7. CASE ~(len > MaxBytes) /\ ~(buffered < HeadSize + len) /\ ~Parses(body, f)
    <3>1. ~Sound(g)
      BY <1>2, <2>1, <2>2, <2>7, SMTT(30) DEF Sound
    <3> QED
      BY <1>7, <2>1, <2>4, <2>7, <3>1
  <2>8. CASE ~(len > MaxBytes) /\ ~(buffered < HeadSize + len) /\ Parses(body, f)
    <3> HIDE DEF n
    <3>4. buffered \in Nat /\ HeadSize \in Nat /\ len \in Nat /\ n = HeadSize + len
      BY <1>2, <2>2
    <3>1. buffered >= HeadSize + len /\ buffered - HeadSize - len = buffered - n /\ buffered >= n
      BY <2>8, <3>4
    <3>2. Sound(g)
      <4>1. len <= MaxBytes
        BY <1>2, <2>8, <3>4
      <4> QED
        BY <2>1, <2>8, <3>1, <4>1 DEF Sound
    <3>3. /\ chunks' \in Seq(Seq(Byte)) /\ FlattenSeq(chunks') = After(FlattenSeq(chunks), n)
          /\ buffered' = buffered - n /\ received' = Append(received, frames[g].value)
          /\ UNCHANGED <<poisoned, draining, errors>>
      BY <2>1, <2>4, <2>8, <3>1
    <3> QED
      BY <1>8, <2>1, <3>1, <3>2, <3>3
  <2> QED
    BY <2>5, <2>6, <2>7, <2>8
<1> QED
  BY <1>2, <1>9, <1>10

LEMMA FrameInvNext == FrameInv /\ [FrameNext]_frameVars => FrameInv'
<1> SUFFICES ASSUME FrameInv, [FrameNext]_frameVars PROVE FrameInv'
  OBVIOUS
<1>1. ASSUME NEW size \in 0..(MaxBytes + 1), Send(size) \/ SendBad(size) PROVE FrameInv'
  BY <1>1, FrameInvSend
<1>2. CASE WriteFrame
  BY <1>2, FrameInvWrite
<1>3. ASSUME NEW n \in 1..Len(pipe), Push(n) PROVE FrameInv'
  BY <1>3, FrameInvPush
<1>4. CASE Drain
  BY <1>4, FrameInvDrain
<1>5. CASE UNCHANGED frameVars
  <2>1. UNCHANGED <<frames, unwritten, stopped, pipe, chunks, buffered, poisoned, draining,
                    received, errors>>
    BY <1>5 DEF frameVars
  <2>2. FrameTypeOK' <=> FrameTypeOK
    BY <2>1 DEF FrameTypeOK
  <2>3. BacklogInOrder' <=> BacklogInOrder
    BY <2>1 DEF BacklogInOrder, Sent
  <2>4. GivenInOrder' <=> GivenInOrder
    BY <2>1 DEF GivenInOrder, Given, Sent, Sound
  <2>5. StopsAtTheBad' <=> StopsAtTheBad
    BY <2>1 DEF StopsAtTheBad, Given, Sent, Sound
  <2>6. /\ \A at : Tells(at, Stream, Given + 1, Sent)' <=> Tells(at, Stream, Given + 1, Sent)
        /\ SizeOf(Given + 1)' = SizeOf(Given + 1) /\ Given' = Given /\ Sent' = Sent
    BY <2>1 DEF Tells, Stream, Given, Sent, SizeOf
  <2>7. StreamIsTheRest' <=> StreamIsTheRest
    BY <2>1, <2>6 DEF StreamIsTheRest
  <2> QED
    BY <2>1, <2>2, <2>3, <2>4, <2>5, <2>7 DEF FrameInv
<1> QED
  BY <1>1, <1>2, <1>3, <1>4, <1>5 DEF FrameNext

\* However the stream cuts the bytes, the receiver is given the values of the
\* sender, each once and in order, up to the first frame that is not sound
\* (packages/ipc/src/index.ts): for frames of every size, every limit and
\* every backlog.
THEOREM FramesAreWhole == FrameSpec => []FramesArriveWhole
<1>1. FrameSpec => []FrameInv
  BY FrameInvInit, FrameInvNext, PTL DEF FrameSpec
<1> QED
  BY <1>1, WholeByInv, PTL

-----------------------------------------------------------------------------
(* StdinCodec.                                                              *)

LEMMA TailIs ==
    ASSUME NEW S, NEW s \in Seq(S), Len(s) > 0
    PROVE  /\ s # <<>> /\ Head(s) = s[1] /\ Tail(s) \in Seq(S) /\ Len(Tail(s)) = Len(s) - 1
           /\ \A n \in 1..Len(Tail(s)) : Tail(s)[n] = s[n + 1]
OBVIOUS

LEMMA SmallestIs ==
    ASSUME NEW S \in SUBSET Nat, NEW n \in S, \A j \in S : n <= j
    PROVE  Smallest(S) = n
<1>1. Smallest(S) \in S /\ \A j \in S : Smallest(S) <= j
  BY Zenon DEF Smallest
<1>2. n <= Smallest(S) /\ Smallest(S) <= n /\ n \in Nat /\ Smallest(S) \in Nat
  BY <1>1
<1> HIDE DEF Smallest
<1> QED
  BY <1>2

\* A token between quotes it does not hold is read whole, up to the second one.
LEMMA QuotedIsRead ==
    ASSUME NEW token \in Seq(Chars), NEW q \in Quotes, \A k \in DOMAIN token : token[k] # q,
           NEW r \in Seq(Chars)
    PROVE  LET e == <<q>> \o token \o <<q>>
           IN /\ e \in Seq(Chars) /\ Len(e) >= 1 /\ e[1] # Space
              /\ TokenLength(e \o r) = Len(e) /\ Stripped(e) = token
<1> DEFINE e == <<q>> \o token \o <<q>>
           text == e \o r
           n == Len(token)
<1>0. q \in Chars /\ q # Space
  <2>1. Single # Space /\ Double # Space
    BY DEF Single, Double, Space
  <2>2. q = Single \/ q = Double
    BY DEF Quotes
  <2> QED
    BY <2>1, <2>2 DEF Chars
<1>1. n \in Nat /\ q \in Chars /\ q # Space /\ q \in Quotes
  <2>1. n \in Nat
    OBVIOUS
  <2> HIDE DEF n
  <2> QED
    BY <1>0, <2>1
<1>2. /\ e \in Seq(Chars) /\ Len(e) = n + 2 /\ e[1] = q /\ e[n + 2] = q
      /\ \A k \in 1..n : e[k + 1] = token[k]
  BY <1>1
<1> HIDE DEF e
<1>3. /\ text \in Seq(Chars) /\ Len(text) = n + 2 + Len(r) /\ Len(r) \in Nat
      /\ \A k \in 1..(n + 2) : text[k] = e[k]
  <2>1. e \in Seq(Chars) /\ Len(e) = n + 2
    BY <1>2
  <2>2. /\ Len(r) \in Nat /\ text \in Seq(Chars) /\ Len(text) = Len(e) + Len(r)
        /\ \A k \in 1..Len(e) : text[k] = e[k]
    <3> HIDE DEF n
    <3> QED
      BY <2>1, ConcatIs
  <2> HIDE DEF text
  <2> QED
    BY <2>1, <2>2
<1> HIDE DEF text
<1>4. n + 2 \in Closings(text)
  BY <1>1, <1>2, <1>3 DEF Closings
<1>5. \A j \in Closings(text) : n + 2 <= j
  <2>1. SUFFICES ASSUME NEW j \in 2..Len(text), j < n + 2 PROVE text[j] # text[1]
    BY <1>1, <1>3 DEF Closings
  <2>2. j - 1 \in 1..n /\ j - 1 + 1 = j /\ j \in 1..(n + 2) /\ 1 \in 1..(n + 2)
    BY <1>1, <1>3, <2>1
  <2>3. text[j] = token[j - 1] /\ text[1] = q
    BY <1>2, <1>3, <2>2
  <2>4. j - 1 \in DOMAIN token
    BY <2>2
  <2> QED
    BY <2>3, <2>4
<1>6. Closings(text) \in SUBSET Nat
  BY <1>3 DEF Closings
<1>7. TokenLength(text) = n + 2
  <2>1. Smallest(Closings(text)) = n + 2
    BY <1>4, <1>5, <1>6, SmallestIs
  <2>2. text[1] \in Quotes
    BY <1>1, <1>2, <1>3
  <2> QED
    BY <1>4, <2>1, <2>2, Zenon DEF TokenLength
<1>8. Stripped(e) = token
  <2> DEFINE s == SubSeq(e, 2, Len(e) - 1)
  <2>1. Stripped(e) = s
    BY <1>1, <1>2 DEF Stripped
  <2>2. /\ s \in Seq(Chars) /\ Len(s) = n
        /\ \A k \in 1..n : s[k] = e[2 + k - 1]
    <3>1. 2 \in Nat /\ n + 1 \in Nat /\ 2 >= 1 /\ n + 1 <= Len(e) /\ Len(e) - 1 = n + 1
      BY <1>1, <1>2
    <3>2. /\ SubSeq(e, 2, n + 1) \in Seq(Chars)
          /\ Len(SubSeq(e, 2, n + 1)) = (IF 2 <= n + 1 THEN (n + 1) - 2 + 1 ELSE 0)
          /\ \A k \in 1..Len(SubSeq(e, 2, n + 1)) : SubSeq(e, 2, n + 1)[k] = e[2 + k - 1]
      <4> DEFINE m == n + 1
      <4>1. m \in Nat /\ m <= Len(e)
        BY <3>1
      <4> HIDE DEF m
      <4>2. /\ SubSeq(e, 2, m) \in Seq(Chars)
            /\ Len(SubSeq(e, 2, m)) = (IF 2 <= m THEN m - 2 + 1 ELSE 0)
            /\ \A k \in 1..Len(SubSeq(e, 2, m)) : SubSeq(e, 2, m)[k] = e[2 + k - 1]
        BY <1>2, <3>1, <4>1, SubSeqIs
      <4> QED
        BY <4>2 DEF m
    <3>3. s = SubSeq(e, 2, n + 1)
      BY <3>1
    <3> HIDE DEF s
    <3>4. Len(s) = n
      BY <1>1, <3>2, <3>3
    <3> QED
      BY <3>2, <3>3, <3>4
  <2> HIDE DEF s
  <2>3. \A k \in 1..Len(s) : s[k] = token[k]
    <3>1. \A k \in 1..n : 2 + k - 1 = k + 1
      BY <1>1
    <3> QED
      BY <1>2, <2>2, <3>1
  <2>4. s = token
    BY <2>2, <2>3, SameSeq
  <2> QED
    BY <2>1, <2>4
<1> QED
  BY <1>1, <1>2, <1>7, <1>8 DEF text, e

\* A token with no quote and no space in it is read up to the next space.
LEMMA BareIsRead ==
    ASSUME NEW token \in Seq(Chars), token # <<>>,
           \A k \in DOMAIN token : token[k] \notin Quotes /\ token[k] # Space,
           NEW r \in Seq(Chars), r = <<>> \/ r[1] = Space
    PROVE  /\ Len(token) >= 1 /\ token[1] # Space
           /\ TokenLength(token \o r) = Len(token) /\ Stripped(token) = token
<1> DEFINE text == token \o r
           n == Len(token)
           spaces == {k \in DOMAIN text : text[k] = Space}
<1>1. n \in Nat /\ n >= 1 /\ Len(r) \in Nat /\ 1 \in DOMAIN token /\ DOMAIN token = 1..n
  OBVIOUS
<1>2. /\ text \in Seq(Chars) /\ Len(text) = n + Len(r)
      /\ \A k \in 1..n : text[k] = token[k]
      /\ \A k \in 1..(n + Len(r)) : k > n => text[k] = r[k - n]
  BY ConcatIs
<1>3. DOMAIN text = 1..(n + Len(r))
  BY <1>2
<1> HIDE DEF text
<1>4. spaces \in SUBSET Nat /\ \A k \in spaces : n + 1 <= k
  BY <1>1, <1>2, <1>3, SMTT(30)
<1>5. TokenLength(text) = IF spaces = {} THEN Len(text) ELSE Smallest(spaces) - 1
  <2>1. text[1] \notin Quotes
    BY <1>1, <1>2
  <2> QED
    BY <2>1, Zenon DEF TokenLength
<1>6. TokenLength(text) = n
  <2>1. CASE r = <<>>
    <3>1. Len(r) = 0
      BY <2>1
    <3>2. spaces = {}
      BY <1>1, <1>3, <1>4, <3>1
    <3> QED
      BY <1>1, <1>2, <1>5, <3>1, <3>2
  <2>2. CASE r # <<>>
    <3>1. Len(r) >= 1 /\ r[1] = Space
      BY <2>2
    <3>2. n + 1 \in spaces
      <4>1. n + 1 \in 1..(n + Len(r)) /\ n + 1 > n /\ n + 1 - n = 1
        BY <1>1, <3>1
      <4>2. text[n + 1] = r[1]
        BY <1>2, <4>1
      <4> QED
        BY <1>3, <3>1, <4>1, <4>2
    <3>3. Smallest(spaces) = n + 1
      <4> HIDE DEF spaces
      <4> QED
        BY <1>4, <3>2, SmallestIs, SMTT(30)
    <3> HIDE DEF spaces
    <3> QED
      BY <1>1, <1>5, <3>2, <3>3
  <2> QED
    BY <2>1, <2>2
<1>7. Stripped(token) = token
  BY <1>1 DEF Stripped
<1> QED
  BY <1>1, <1>6, <1>7 DEF text

\* What the encoder makes of a token is read as that token.
LEMMA TokenIsRead ==
    ASSUME NEW token \in Seq(Chars), Encodable(token),
           NEW r \in Seq(Chars), r = <<>> \/ r[1] = Space
    PROVE  LET e == EncodeToken(token)
           IN /\ e \in Seq(Chars) /\ Len(e) >= 1 /\ e[1] # Space
              /\ TokenLength(e \o r) = Len(e) /\ Stripped(e) = token
<1>1. token # <<>> /\ ~(Quotes \subseteq ToSet(token))
  BY DEF Encodable
<1>2. ToSet(token) = {token[k] : k \in DOMAIN token}
  BY DEF ToSet
<1>3. CASE Has(token, {Double})
  <2>1. \A k \in DOMAIN token : token[k] # Single
    <3>1. Double \in ToSet(token)
      BY <1>2, <1>3 DEF Has
    <3>2. Single \notin ToSet(token)
      BY <1>1, <3>1 DEF Quotes
    <3> QED
      BY <1>2, <3>2
  <2>2. EncodeToken(token) = <<Single>> \o token \o <<Single>>
    BY <1>3 DEF EncodeToken
  <2>3. Single \in Quotes
    BY DEF Quotes
  <2> QED
    BY <2>1, <2>2, <2>3, QuotedIsRead
<1>4. CASE ~Has(token, {Double}) /\ Has(token, {Single, Space, WideSpace})
  <2>1. \A k \in DOMAIN token : token[k] # Double
    BY <1>4 DEF Has
  <2>2. EncodeToken(token) = <<Double>> \o token \o <<Double>>
    BY <1>4 DEF EncodeToken
  <2>3. Double \in Quotes
    BY DEF Quotes
  <2> QED
    BY <2>1, <2>2, <2>3, QuotedIsRead
<1>5. CASE ~Has(token, {Double}) /\ ~Has(token, {Single, Space, WideSpace})
  <2>1. \A k \in DOMAIN token : token[k] \notin Quotes /\ token[k] # Space
    BY <1>5 DEF Has, Quotes
  <2>2. EncodeToken(token) = token
    BY <1>5 DEF EncodeToken
  <2> QED
    BY <1>1, <2>1, <2>2, BareIsRead
<1> QED
  BY <1>3, <1>4, <1>5

\* The texts EncodeTaskLine joins.
Pieces(args) == [k \in DOMAIN args |->
                   IF k = 1 THEN EncodeToken(args[k]) ELSE <<Space>> \o EncodeToken(args[k])]

\* The line behind the first m arguments.
Rest(args, m) == FlattenSeq(After(Pieces(args), m))

LEMMA PiecesAre ==
    ASSUME NEW args \in Seq(Seq(Chars)), \A k \in DOMAIN args : Encodable(args[k])
    PROVE  /\ Pieces(args) \in Seq(Seq(Chars)) /\ Len(Pieces(args)) = Len(args)
           /\ \A k \in DOMAIN args :
                 /\ EncodeToken(args[k]) \in Seq(Chars)
                 /\ Pieces(args)[k] = IF k = 1 THEN EncodeToken(args[k])
                                      ELSE <<Space>> \o EncodeToken(args[k])
<1>1. \A k \in DOMAIN args : EncodeToken(args[k]) \in Seq(Chars)
  <2>1. SUFFICES ASSUME NEW k \in DOMAIN args PROVE EncodeToken(args[k]) \in Seq(Chars)
    OBVIOUS
  <2>2. args[k] \in Seq(Chars) /\ <<>> \in Seq(Chars)
    OBVIOUS
  <2> QED
    BY <2>2, TokenIsRead
<1>2. Space \in Chars
  BY DEF Chars
<1>3. \A k \in DOMAIN args : <<Space>> \o EncodeToken(args[k]) \in Seq(Chars)
  BY <1>1, <1>2
<1>4. DOMAIN args = 1..Len(args) /\ Len(args) \in Nat
  OBVIOUS
<1> QED
  BY <1>1, <1>3, <1>4 DEF Pieces

LEMMA RestIs ==
    ASSUME NEW args \in Seq(Seq(Chars)), \A k \in DOMAIN args : Encodable(args[k])
    PROVE  /\ \A m \in 0..Len(args) : Rest(args, m) \in Seq(Chars)
           /\ Rest(args, 0) = EncodeTaskLine(args)
           /\ Rest(args, Len(args)) = <<>>
           /\ \A m \in 0..(Len(args) - 1) :
                 Rest(args, m) = Pieces(args)[m + 1] \o Rest(args, m + 1)
<1> DEFINE n == Len(args)
           ps == Pieces(args)
<1>1. /\ ps \in Seq(Seq(Chars)) /\ Len(ps) = n /\ n \in Nat
      /\ ps = [k \in DOMAIN args |->
                  IF k = 1 THEN EncodeToken(args[k]) ELSE <<Space>> \o EncodeToken(args[k])]
  <2>1. ps \in Seq(Seq(Chars)) /\ Len(ps) = n
    <3> HIDE DEF ps, n
    <3> QED
      BY PiecesAre DEF ps, n
  <2>2. n \in Nat
    OBVIOUS
  <2> QED
    BY <2>1, <2>2 DEF Pieces
<1> HIDE DEF n
<1>2. FlattenSeq(ps) = EncodeTaskLine(args)
  BY <1>1, Zenon DEF EncodeTaskLine
<1> HIDE DEF ps
<1>3. \A m \in 0..n : After(ps, m) \in Seq(Seq(Chars))
  BY <1>1, AfterIs
<1>4. \A m \in 0..n : FlattenSeq(After(ps, m)) \in Seq(Chars)
  <2>1. SUFFICES ASSUME NEW m \in 0..n PROVE FlattenSeq(After(ps, m)) \in Seq(Chars)
    OBVIOUS
  <2>2. After(ps, m) \in Seq(Seq(Chars)) /\ <<>> \in Seq(Seq(Chars))
    BY <1>3
  <2> QED
    BY <2>2, FlattenConcat
<1>5. After(ps, 0) = ps /\ After(ps, n) = <<>>
  BY <1>1 DEF After
<1>6. ASSUME NEW m \in 0..(n - 1)
      PROVE  FlattenSeq(After(ps, m)) = ps[m + 1] \o FlattenSeq(After(ps, m + 1))
  <2> DEFINE a == After(ps, m)
             b == After(ps, m + 1)
             c == ps[m + 1]
             d == <<c>> \o b
  <2>1. m \in 0..n /\ m + 1 \in 0..n /\ m + 1 \in 1..n /\ n - m = 1 + (n - (m + 1))
    BY <1>1
  <2>2. /\ c \in Seq(Chars) /\ <<c>> \in Seq(Seq(Chars))
        /\ Len(<<c>>) = 1 /\ <<c>>[1] = c
    BY <1>1, <2>1
  <2>3. /\ a \in Seq(Seq(Chars)) /\ Len(a) = n - m
        /\ \A i \in 1..(n - m) : a[i] = ps[m + i]
    BY <1>1, <2>1, AfterIs
  <2>4. /\ b \in Seq(Seq(Chars)) /\ Len(b) = n - (m + 1)
        /\ \A i \in 1..(n - (m + 1)) : b[i] = ps[m + 1 + i]
    BY <1>1, <2>1, AfterIs
  <2> HIDE DEF a, b
  <2>5. a = d
    <3> DEFINE o == <<c>>
    <3>1. /\ o \in Seq(Seq(Chars)) /\ Len(o) = 1 /\ o[1] = c
      BY <2>2
    <3> HIDE DEF o, c
    <3>2. /\ o \o b \in Seq(Seq(Chars)) /\ Len(o \o b) = Len(o) + Len(b)
          /\ \A i \in 1..Len(o) : (o \o b)[i] = o[i]
          /\ \A i \in 1..(Len(o) + Len(b)) : i > Len(o) => (o \o b)[i] = b[i - Len(o)]
      BY <3>1, <2>4, ConcatIs, ZenonT(40)
    <3> DEFINE e == o \o b
    <3>3. /\ e \in Seq(Seq(Chars)) /\ Len(e) = n - m /\ e[1] = c
          /\ \A i \in 1..(n - m) : i > 1 => e[i] = b[i - 1]
      BY <2>1, <2>4, <3>1, <3>2, SMTT(30)
    <3> HIDE DEF e
    <3>4. \A i \in 1..(n - m) : a[i] = e[i]
      <4>1. SUFFICES ASSUME NEW i \in 1..(n - m) PROVE a[i] = e[i]
        OBVIOUS
      <4>2. CASE i = 1
        BY <2>3, <3>3, <4>1, <4>2 DEF c
      <4>3. CASE i > 1
        <5>1. i - 1 \in 1..(n - (m + 1)) /\ m + 1 + (i - 1) = m + i
          BY <1>1, <2>1, <4>1, <4>3
        <5>2. e[i] = b[i - 1] /\ b[i - 1] = ps[m + 1 + (i - 1)] /\ a[i] = ps[m + i]
          BY <2>3, <2>4, <3>3, <4>1, <4>3, <5>1
        <5> QED
          BY <5>1, <5>2
      <4> QED
        BY <4>2, <4>3
    <3>5. a = e
      BY <2>3, <3>3, <3>4, SameSeq
    <3> QED
      BY <3>5 DEF e, o
  <2>6. FlattenSeq(d) = FlattenSeq(<<c>>) \o FlattenSeq(b)
    <3> HIDE DEF c
    <3> QED
      BY <2>2, <2>4, FlattenConcat
  <2>7. FlattenSeq(<<c>>) = c
    <3> HIDE DEF c
    <3> QED
      BY <2>2, FlattenOne
  <2> HIDE DEF c, d
  <2>8. FlattenSeq(a) = c \o FlattenSeq(b)
    BY <2>5, <2>6, <2>7
  <2> QED
    BY <2>8 DEF a, b, c
<1>7. FlattenSeq(After(ps, n)) = <<>>
  BY <1>5, FlattenNone
<1> QED
  BY <1>2, <1>4, <1>5, <1>6, <1>7 DEF Rest, ps, n

-----------------------------------------------------------------------------

\* The JAR has the first m arguments, and the line holds the others.
GotFirst(m) ==
    /\ tokens = SubSeq(argv, 1, m)
    /\ \/ line = Rest(argv, m)
       \/ m \in 1..(Len(argv) - 1) /\ line = EncodeToken(argv[m + 1]) \o Rest(argv, m + 1)

CodecInv ==
    /\ argv \in Argvs
    /\ way \in {"none", "line", "skipped"}
    /\ way # "line" => line = <<>> /\ tokens = <<>>
    /\ way = "line" => /\ \A k \in DOMAIN argv : Encodable(argv[k])
                       /\ \E m \in 0..Len(argv) : GotFirst(m)

\* How a line with something left starts.
LEMMA LineStarts ==
    ASSUME NEW args \in Seq(Seq(Chars)), \A k \in DOMAIN args : Encodable(args[k]),
           NEW m \in 0..(Len(args) - 1)
    PROVE  LET e == EncodeToken(args[m + 1])
               r == Rest(args, m + 1)
           IN /\ e \in Seq(Chars) /\ Len(e) >= 1 /\ r \in Seq(Chars)
              /\ args[m + 1] \in Seq(Chars) /\ args[m + 1] # <<>>
              /\ TokenLength(e \o r) = Len(e) /\ Stripped(e) = args[m + 1]
              /\ e \o r # <<>> /\ Head(e \o r) # Space
              /\ m = 0 => Rest(args, m) = e \o r
              /\ m > 0 => /\ Rest(args, m) # <<>> /\ Head(Rest(args, m)) = Space
                          /\ Tail(Rest(args, m)) = e \o r
<1> DEFINE e == EncodeToken(args[m + 1])
           r == Rest(args, m + 1)
           n == Len(args)
           p == Pieces(args)[m + 1]
<1>1. n \in Nat /\ m \in Nat /\ m + 1 \in 1..n /\ m + 1 \in 0..n /\ DOMAIN args = 1..n
  OBVIOUS
<1>2. args[m + 1] \in Seq(Chars) /\ Encodable(args[m + 1])
  <2>1. args[m + 1] \in Seq(Chars)
    BY <1>1
  <2>2. m + 1 \in DOMAIN args
    BY <1>1
  <2> QED
    BY <2>1, <2>2, Zenon
<1>3. r \in Seq(Chars) /\ Rest(args, m) = p \o r
  BY <1>1, RestIs
<1>4. p = IF m + 1 = 1 THEN e ELSE <<Space>> \o e
  BY <1>1, PiecesAre
<1>5. r = <<>> \/ r[1] = Space
  <2>1. CASE m + 1 = n
    BY <2>1, RestIs
  <2>2. CASE m + 1 # n
    <3> DEFINE q == EncodeToken(args[m + 2])
               rr == Rest(args, m + 2)
    <3>1. /\ m + 1 \in 0..(n - 1) /\ m + 2 \in 1..n /\ m + 2 \in 0..n
          /\ (m + 1) + 1 = m + 2 /\ m + 2 # 1
      <4> HIDE DEF n, p, e, r, q, rr
      <4> QED
        BY <1>1, <2>2
    <3>2. r = Pieces(args)[m + 2] \o rr /\ rr \in Seq(Chars)
      BY <3>1, RestIs
    <3>3. q \in Seq(Chars) /\ Pieces(args)[m + 2] = <<Space>> \o q
      BY <1>1, <3>1, PiecesAre
    <3>4. Space \in Chars
      BY DEF Chars
    <3> HIDE DEF q, rr, r
    <3>5. ((<<Space>> \o q) \o rr)[1] = Space
      BY <3>2, <3>3, <3>4
    <3> QED
      BY <3>2, <3>3, <3>5
  <2> QED
    BY <2>1, <2>2
<1>6. /\ e \in Seq(Chars) /\ Len(e) >= 1 /\ e[1] # Space
      /\ TokenLength(e \o r) = Len(e) /\ Stripped(e) = args[m + 1]
  <2> HIDE DEF r
  <2> QED
    BY <1>2, <1>3, <1>5, TokenIsRead
<1>7. Space \in Chars /\ args[m + 1] # <<>>
  BY <1>2 DEF Chars, Encodable
<1> HIDE DEF e, r, p
<1>8. e \o r # <<>> /\ Head(e \o r) # Space
  BY <1>3, <1>6
<1> DEFINE s == <<Space>> \o e
           t == s \o r
           er == e \o r
<1>9. /\ s \in Seq(Chars) /\ Len(s) = Len(e) + 1 /\ s[1] = Space
      /\ \A k \in 1..Len(e) : s[k + 1] = e[k]
  BY <1>6, <1>7
<1> HIDE DEF s
<1>10. /\ t \in Seq(Chars) /\ t # <<>> /\ Head(t) = Space /\ Tail(t) = er
  <2>1. /\ t \in Seq(Chars) /\ Len(t) = Len(e) + 1 + Len(r) /\ t[1] = Space
        /\ \A k \in 1..Len(s) : t[k] = s[k]
        /\ \A k \in 1..Len(t) : k > Len(s) => t[k] = r[k - Len(s)]
    <3>1. /\ t \in Seq(Chars) /\ Len(t) = Len(s) + Len(r) /\ Len(s) \in Nat /\ Len(r) \in Nat
          /\ \A k \in 1..Len(s) : t[k] = s[k]
          /\ \A k \in 1..(Len(s) + Len(r)) : k > Len(s) => t[k] = r[k - Len(s)]
      <4>1. s \in Seq(Chars)
        BY <1>9
      <4> QED
        BY <1>3, <4>1, ConcatIs
    <3> HIDE DEF t
    <3>2. 1 \in 1..Len(s) /\ Len(t) = Len(e) + 1 + Len(r)
      BY <1>6, <1>9, <3>1
    <3> QED
      BY <1>9, <3>1, <3>2
  <2>2. /\ er \in Seq(Chars) /\ Len(er) = Len(e) + Len(r) /\ Len(e) \in Nat /\ Len(r) \in Nat
        /\ \A k \in 1..Len(e) : er[k] = e[k]
        /\ \A k \in 1..Len(er) : k > Len(e) => er[k] = r[k - Len(e)]
    BY <1>3, <1>6
  <2> HIDE DEF t, er
  <2>3. t # <<>> /\ Head(t) = Space /\ Tail(t) \in Seq(Chars) /\ Len(Tail(t)) = Len(t) - 1
        /\ \A k \in 1..Len(Tail(t)) : Tail(t)[k] = t[k + 1]
    <3>1. t \in Seq(Chars) /\ Len(t) > 0 /\ t[1] = Space
      BY <2>1, <2>2
    <3> QED
      BY <3>1, TailIs
  <2>4. Len(Tail(t)) = Len(er)
    BY <2>1, <2>2, <2>3
  <2>5. ASSUME NEW k \in 1..Len(er) PROVE t[k + 1] = er[k]
    <3>1. CASE k \in 1..Len(e)
      <4>1. k + 1 \in 1..Len(s)
        BY <1>9, <2>2, <3>1
      <4> QED
        BY <1>9, <2>1, <2>2, <3>1, <4>1
    <3>2. CASE k \notin 1..Len(e)
      <4>1. k > Len(e) /\ k + 1 > Len(s) /\ k + 1 \in 1..Len(t) /\ (k + 1) - Len(s) = k - Len(e)
        BY <1>9, <2>1, <2>2, <2>5, <3>2
      <4>2. t[k + 1] = r[(k + 1) - Len(s)]
        BY <2>1, <4>1, SMTT(30)
      <4>3. er[k] = r[k - Len(e)]
        BY <2>2, <2>5, <4>1
      <4> QED
        BY <4>1, <4>2, <4>3
    <3> QED
      BY <3>1, <3>2
  <2>6. Tail(t) = er
    <3>1. \A k \in 1..Len(Tail(t)) : Tail(t)[k] = er[k]
      BY <2>3, <2>4, <2>5
    <3> QED
      BY <2>2, <2>3, <2>4, <3>1, SameSeq, ZenonT(40)
  <2> QED
    BY <2>1, <2>3, <2>6
<1> HIDE DEF t, er
<1>11. m = 0 => Rest(args, m) = e \o r
  BY <1>1, <1>3, <1>4
<1>12. m > 0 => Rest(args, m) = t
  <2>1. m > 0 => p = s
    <3>1. m > 0 => m + 1 # 1
      BY <1>1
    <3> QED
      BY <1>4, <3>1 DEF s
  <2> QED
    BY <1>3, <2>1 DEF t
<1> QED
  BY <1>2, <1>3, <1>6, <1>7, <1>8, <1>10, <1>11, <1>12 DEF e, r, er

LEMMA CodecKeeps ==
    CodecInv /\ [CodecNext]_codecVars => CodecInv'
<1> SUFFICES ASSUME CodecInv, [CodecNext]_codecVars PROVE CodecInv'
  OBVIOUS
<1> DEFINE n == Len(argv)
<1>1. argv \in Seq(Seq(Chars)) /\ n \in Nat
  BY CodecAssumption DEF CodecInv
<1>2. CASE EncodeTask
  <2>1. argv' = argv /\ tokens' = tokens /\ tokens = <<>> /\ line = <<>> /\ argv' \in Argvs
    BY <1>2 DEF EncodeTask, CodecInv
  <2>2. CASE ~ \A k \in DOMAIN argv : Encodable(argv[k])
    <3>1. way' = "skipped" /\ line' = line
      BY <1>2, <2>2 DEF EncodeTask
    <3> QED
      BY <2>1, <3>1 DEF CodecInv
  <2>3. CASE \A k \in DOMAIN argv : Encodable(argv[k])
    <3>1. way' = "line" /\ line' = EncodeTaskLine(argv)
      BY <1>2, <2>3 DEF EncodeTask
    <3>2. line' = Rest(argv', 0)
      BY <1>1, <2>1, <2>3, <3>1, RestIs
    <3>3. tokens' = SubSeq(argv', 1, 0)
      BY <1>1, <2>1
    <3>4. 0 \in 0..Len(argv')
      BY <1>1, <2>1
    <3>5. GotFirst(0)'
      BY <3>2, <3>3 DEF GotFirst
    <3> QED
      BY <2>1, <2>3, <3>1, <3>4, <3>5 DEF CodecInv
  <2> QED
    BY <2>2, <2>3
<1>3. ASSUME line # <<>>, way' = way, argv' = argv,
             \A m \in 0..n : (\A k \in DOMAIN argv : Encodable(argv[k])) /\ GotFirst(m)
                              => \E l \in 0..n : GotFirst(l)'
      PROVE  CodecInv'
  <2>1. /\ way = "line" /\ \A k \in DOMAIN argv : Encodable(argv[k])
        /\ \E m \in 0..n : GotFirst(m)
    BY <1>3 DEF CodecInv
  <2>2. \E l \in 0..n : GotFirst(l)'
    BY <1>3, <2>1
  <2>3. argv' \in Argvs /\ way' = "line"
    BY <1>3, <2>1 DEF CodecInv
  <2> QED
    BY <1>3, <2>1, <2>2, <2>3 DEF CodecInv
<1>4. CASE SkipSpace
  <2>1. /\ line # <<>> /\ Head(line) = Space /\ line' = Tail(line)
        /\ argv' = argv /\ way' = way /\ tokens' = tokens
    BY <1>4 DEF SkipSpace
  <2>2. ASSUME NEW m \in 0..n, \A k \in DOMAIN argv : Encodable(argv[k]), GotFirst(m)
        PROVE  \E l \in 0..n : GotFirst(l)'
    <3>1. m \in 0..(n - 1)
      <4>1. m # n
        <5>1. Rest(argv, n) = <<>> /\ n \notin 1..(n - 1)
          <6>1. Rest(argv, n) = <<>>
            BY <1>1, <2>2, RestIs, Zenon
          <6>2. n \notin 1..(n - 1)
            BY <1>1
          <6> QED
            BY <6>1, <6>2
        <5> QED
          BY <2>1, <2>2, <5>1 DEF GotFirst
      <4> QED
        BY <1>1, <4>1
    <3>2. CASE line = Rest(argv, m)
      <4>1. m # 0
        <5>1. m = 0 => Head(Rest(argv, m)) # Space
          BY <1>1, <2>2, <3>1, LineStarts
        <5> QED
          BY <2>1, <3>2, <5>1
      <4>2. Tail(line) = EncodeToken(argv[m + 1]) \o Rest(argv, m + 1)
        <5>1. m > 0
          BY <1>1, <4>1
        <5> QED
          BY <1>1, <2>2, <3>1, <3>2, <5>1, LineStarts
      <4>3. m \in 1..(n - 1)
        BY <1>1, <3>1, <4>1
      <4>4. GotFirst(m)'
        BY <2>1, <2>2, <4>2, <4>3 DEF GotFirst
      <4> QED
        BY <4>4
    <3>3. CASE line = EncodeToken(argv[m + 1]) \o Rest(argv, m + 1)
      <4>1. Head(line) # Space
        BY <1>1, <2>2, <3>1, <3>3, LineStarts
      <4> QED
        BY <2>1, <4>1
    <3> QED
      BY <2>2, <3>2, <3>3 DEF GotFirst
  <2> QED
    BY <1>3, <2>1, <2>2
<1>5. CASE TakeToken
  <2> DEFINE len == TokenLength(line)
             token == Stripped(SubSeq(line, 1, len))
  <2>1. /\ line # <<>> /\ Head(line) # Space /\ line' = After(line, len)
        /\ tokens' = IF token = <<>> THEN tokens ELSE Append(tokens, token)
        /\ argv' = argv /\ way' = way
    BY <1>5 DEF TakeToken, After
  <2> HIDE DEF token, len
  <2>2. ASSUME NEW m \in 0..n, \A k \in DOMAIN argv : Encodable(argv[k]), GotFirst(m)
        PROVE  \E l \in 0..n : GotFirst(l)'
    <3> DEFINE e == EncodeToken(argv[m + 1])
               r == Rest(argv, m + 1)
    <3>1. m \in 0..(n - 1)
      <4>1. m # n
        <5>1. Rest(argv, n) = <<>> /\ n \notin 1..(n - 1)
          <6>1. Rest(argv, n) = <<>>
            BY <1>1, <2>2, RestIs, Zenon
          <6>2. n \notin 1..(n - 1)
            BY <1>1
          <6> QED
            BY <6>1, <6>2
        <5> QED
          BY <2>1, <2>2, <5>1 DEF GotFirst
      <4> QED
        BY <1>1, <4>1
    <3>2. /\ e \in Seq(Chars) /\ Len(e) >= 1 /\ r \in Seq(Chars)
          /\ argv[m + 1] \in Seq(Chars) /\ argv[m + 1] # <<>>
          /\ TokenLength(e \o r) = Len(e) /\ Stripped(e) = argv[m + 1]
          /\ m = 0 => Rest(argv, m) = e \o r
          /\ m > 0 => Head(Rest(argv, m)) = Space
      BY <1>1, <2>2, <3>1, LineStarts
    <3>3. line = e \o r
      <4>1. line = Rest(argv, m) \/ line = e \o r
        BY <2>2 DEF GotFirst
      <4>2. m = 0 \/ m > 0
        BY <1>1
      <4> QED
        BY <2>1, <3>2, <4>1, <4>2
    <3> HIDE DEF e, r
    <3>4. SubSeq(e \o r, 1, Len(e)) = e /\ After(e \o r, Len(e)) = r
      BY <3>2 DEF After
    <3>5. len = Len(e)
      BY <3>2, <3>3 DEF len
    <3>6. token = argv[m + 1]
      BY <3>2, <3>3, <3>4, <3>5 DEF token
    <3>7. line' = r
      BY <2>1, <3>3, <3>4, <3>5
    <3>8. tokens' = SubSeq(argv, 1, m + 1)
      <4>1. tokens' = Append(SubSeq(argv, 1, m), argv[m + 1])
        BY <2>1, <2>2, <3>2, <3>6 DEF GotFirst
      <4>2. m + 1 \in 1..n
        BY <1>1, <3>1
      <4> QED
        BY <1>1, <4>1, <4>2
    <3>9. m + 1 \in 0..n
      BY <1>1, <3>1
    <3>10. GotFirst(m + 1)'
      BY <2>1, <3>7, <3>8 DEF GotFirst, r
    <3> QED
      BY <3>9, <3>10
  <2> QED
    BY <1>3, <2>1, <2>2
<1>6. CASE UNCHANGED codecVars
  BY <1>6 DEF codecVars, CodecInv, GotFirst
<1> QED
  BY <1>2, <1>4, <1>5, <1>6 DEF CodecNext

LEMMA CodecInvHolds ==
    CodecSpec => []CodecInv
<1>1. CodecInit => CodecInv
  BY DEF CodecInit, CodecInv
<1> QED
  BY <1>1, CodecKeeps, PTL DEF CodecSpec

LEMMA CodecInvTyped ==
    CodecInv => CodecTypeOK
<1> SUFFICES ASSUME CodecInv PROVE CodecTypeOK
  OBVIOUS
<1>1. argv \in Seq(Seq(Chars)) /\ argv \in Argvs /\ way \in {"none", "line", "skipped"}
  BY CodecAssumption DEF CodecInv
<1>2. CASE way # "line"
  BY <1>1, <1>2 DEF CodecInv, CodecTypeOK
<1>3. CASE way = "line"
  <2>1. PICK m \in 0..Len(argv) : GotFirst(m)
    BY <1>3 DEF CodecInv
  <2>2. \A k \in DOMAIN argv : Encodable(argv[k])
    BY <1>3 DEF CodecInv
  <2>3. Len(argv) \in Nat
    BY <1>1
  <2>4. tokens \in Seq(Seq(Chars))
    BY <1>1, <2>1, <2>3, SplitAt DEF GotFirst
  <2>5. Rest(argv, m) \in Seq(Chars)
    BY <1>1, <2>2, RestIs
  <2>6. m \in 1..(Len(argv) - 1) => EncodeToken(argv[m + 1]) \o Rest(argv, m + 1) \in Seq(Chars)
    <3>1. SUFFICES ASSUME m \in 1..(Len(argv) - 1)
                   PROVE  EncodeToken(argv[m + 1]) \o Rest(argv, m + 1) \in Seq(Chars)
      OBVIOUS
    <3>2. m \in 0..(Len(argv) - 1)
      BY <3>1
    <3>3. EncodeToken(argv[m + 1]) \in Seq(Chars) /\ Rest(argv, m + 1) \in Seq(Chars)
      BY <1>1, <2>2, <3>2, LineStarts
    <3> QED
      BY <3>3
  <2>7. line \in Seq(Chars)
    BY <2>1, <2>5, <2>6 DEF GotFirst
  <2> QED
    BY <1>1, <2>4, <2>7 DEF CodecTypeOK
<1> QED
  BY <1>2, <1>3

\* Whatever quotes and spaces are in the arguments of a task, and however many
\* and long they are, the JAR reads from the line that encodeTaskLine made just
\* those arguments, if the line was written at all (stdin-encoder.ts).
THEOREM ArgumentsArrive ==
    CodecSpec => []ArgvArrives
<1>1. CodecInv => ArgvArrives
  <2>1. SUFFICES ASSUME CodecInv, way = "line", line = <<>> PROVE tokens = argv
    BY DEF ArgvArrives
  <2>2. argv \in Seq(Seq(Chars)) /\ Len(argv) \in Nat
    BY <2>1, CodecAssumption DEF CodecInv
  <2>3. PICK m \in 0..Len(argv) : GotFirst(m)
    BY <2>1 DEF CodecInv
  <2>4. \A k \in DOMAIN argv : Encodable(argv[k])
    BY <2>1 DEF CodecInv
  <2>5. m = Len(argv)
    <3>1. SUFFICES ASSUME m # Len(argv) PROVE FALSE
      OBVIOUS
    <3>2. m \in 0..(Len(argv) - 1) /\ (m = 0 \/ m > 0)
      BY <2>2, <3>1
    <3>3. /\ EncodeToken(argv[m + 1]) \o Rest(argv, m + 1) # <<>>
          /\ m = 0 => Rest(argv, m) = EncodeToken(argv[m + 1]) \o Rest(argv, m + 1)
          /\ m > 0 => Rest(argv, m) # <<>>
      BY <2>2, <2>4, <3>2, LineStarts
    <3> QED
      BY <2>1, <2>3, <3>2, <3>3 DEF GotFirst
  <2>6. tokens = SubSeq(argv, 1, m)
    BY <2>3 DEF GotFirst
  <2> QED
    BY <2>2, <2>5, <2>6
<1> QED
  BY <1>1, CodecInvHolds, PTL

-----------------------------------------------------------------------------
(* ConversionPlan. *)

-----------------------------------------------------------------------------
(* Counting by places. *)

\* There are n of them, and the i-th has i - 1 before it.
Ranks(n, P, Lt, g) ==
    /\ Cardinality(P) = n
    /\ \A i \in 1..n : Cardinality({q \in P : <<q, g[i]>> \in Lt}) = i - 1

\* What tells the elements of P in the order Lt tells their ranks.
LEMMA Ranked ==
    ASSUME NEW n \in Nat, NEW P, NEW Lt, NEW g \in [1..n -> P],
           \A p \in P : \E i \in 1..n : g[i] = p,
           \A i, j \in 1..n : <<g[i], g[j]>> \in Lt <=> i < j
    PROVE  Ranks(n, P, Lt, g)
<1>1. \A i, j \in 1..n : g[i] = g[j] => i = j
  <2>1. SUFFICES ASSUME NEW i \in 1..n, NEW j \in 1..n, g[i] = g[j] PROVE i = j
    OBVIOUS
  <2>2. ~(i < j) /\ ~(j < i)
    <3>1. <<g[i], g[j]>> \in Lt <=> i < j
      OBVIOUS
    <3>2. <<g[j], g[i]>> \in Lt <=> j < i
      OBVIOUS
    <3>3. <<g[i], g[j]>> \in Lt <=> <<g[j], g[i]>> \in Lt
      BY <2>1
    <3>4. (i < j) => ~(j < i)
      OBVIOUS
    <3> QED
      BY <3>1, <3>2, <3>3, <3>4
  <2> QED
    BY <2>2
<1>2. Cardinality(P) = n
  <2>1. g \in Bijection(1..n, P)
    BY <1>1, Zenon DEF Bijection, Injection, Surjection, IsInjective
  <2> QED
    BY <2>1, FS_CountingElements, Zenon DEF ExistsBijection
<1>3. ASSUME NEW i \in 1..n PROVE Cardinality({q \in P : <<q, g[i]>> \in Lt}) = i - 1
  <2> DEFINE Q == {q \in P : <<q, g[i]>> \in Lt}
             f == [k \in 1..(i - 1) |-> g[k]]
  <2>1. i - 1 \in Nat /\ \A k \in 1..(i - 1) : k \in 1..n /\ k < i
    OBVIOUS
  <2>2. \A k \in 1..n : k < i => k \in 1..(i - 1)
    OBVIOUS
  <2>3. \A k \in 1..(i - 1) : g[k] \in Q
    BY <2>1
  <2>4. \A q \in Q : \E k \in 1..(i - 1) : g[k] = q
    <3>1. SUFFICES ASSUME NEW q \in Q PROVE \E k \in 1..(i - 1) : g[k] = q
      OBVIOUS
    <3>2. PICK k \in 1..n : g[k] = q
      OBVIOUS
    <3>3. k < i
      BY <3>1, <3>2
    <3> QED
      BY <2>2, <3>2, <3>3
  <2> HIDE DEF Q
  <2>5. f \in Bijection(1..(i - 1), Q)
    <3>1. f \in [1..(i - 1) -> Q]
      BY <2>3
    <3>2. \A a, b \in 1..(i - 1) : f[a] = f[b] => a = b
      BY <1>1, <2>1
    <3>3. \A q \in Q : \E k \in 1..(i - 1) : f[k] = q
      BY <2>4
    <3> HIDE DEF f
    <3> QED
      BY <3>1, <3>2, <3>3, Zenon DEF Bijection, Injection, Surjection, IsInjective
  <2>6. Cardinality(Q) = i - 1
    <3> HIDE DEF f
    <3> QED
      BY <2>1, <2>5, FS_CountingElements, Zenon DEF ExistsBijection
  <2> QED
    BY <2>6 DEF Q
<1> QED
  BY <1>2, <1>3 DEF Ranks

-----------------------------------------------------------------------------
(* A list of lists, row by row. *)

Lex(p, q) == p[1] < q[1] \/ (p[1] = q[1] /\ p[2] < q[2])

\* The elements of t are those of the first n of the lists cs, in order: the
\* i-th comes from the row g[i][1] and has the column g[i][2]; the columns of
\* row k are at[k].
Placed(g, t, cs, at, n) ==
    /\ g \in [1..Len(t) -> Nat \X Nat]
    /\ \A i \in 1..Len(t) :
          /\ g[i][1] \in 1..n
          /\ \E j \in 1..Len(cs[g[i][1]]) : g[i][2] = at[g[i][1]][j] /\ t[i] = cs[g[i][1]][j]
    /\ \A k \in 1..n : \A j \in 1..Len(cs[k]) : \E i \in 1..Len(t) : g[i] = <<k, at[k][j]>>
    /\ \A i, j \in 1..Len(t) : i < j => Lex(g[i], g[j])

LEMMA PlacedMore ==
    ASSUME NEW S, NEW cs \in Seq(Seq(S)), NEW at, NEW n \in 1..Len(cs), NEW t \in Seq(S),
           NEW g, Placed(g, t, cs, at, n - 1),
           at[n] \in [1..Len(cs[n]) -> Nat],
           \A i, j \in 1..Len(cs[n]) : i < j => at[n][i] < at[n][j]
    PROVE  \E f : Placed(f, t \o cs[n], cs, at, n)
<1> DEFINE c == cs[n]
           a == at[n]
           L == Len(t)
           M == Len(c)
           u == t \o c
           f == [i \in 1..(L + M) |-> IF i <= L THEN g[i] ELSE <<n, a[i - L]>>]
<1>1. c \in Seq(S) /\ n \in Nat /\ n >= 1 /\ n - 1 \in Nat /\ n \in 1..n
  OBVIOUS
<1>2. /\ L \in Nat /\ M \in Nat /\ u \in Seq(S) /\ Len(u) = L + M
      /\ \A i \in 1..L : u[i] = t[i]
      /\ \A i \in 1..(L + M) : i > L => u[i] = c[i - L]
  <2> HIDE DEF c
  <2> QED
    BY <1>1, ConcatIs
<1>3. /\ a \in [1..M -> Nat] /\ \A i, j \in 1..M : i < j => a[i] < a[j]
      /\ cs[n] = c /\ at[n] = a
  OBVIOUS
<1>4. /\ g \in [1..L -> Nat \X Nat]
      /\ \A i \in 1..L :
            /\ g[i][1] \in 1..(n - 1)
            /\ \E j \in 1..Len(cs[g[i][1]]) : g[i][2] = at[g[i][1]][j] /\ t[i] = cs[g[i][1]][j]
      /\ \A k \in 1..(n - 1) : \A j \in 1..Len(cs[k]) : \E i \in 1..L : g[i] = <<k, at[k][j]>>
      /\ \A i, j \in 1..L : i < j => Lex(g[i], g[j])
  BY DEF Placed
<1>5. cs[n] = c /\ at[n] = a /\ Len(cs[n]) = M
  OBVIOUS
<1> HIDE DEF c, a, L, u, M
<1>6. \A i \in 1..(L + M) : i <= L \/ (i > L /\ i - L \in 1..M /\ ~(i <= L))
  BY <1>2
<1>7. \A i \in 1..(L + M) : i <= L => i \in 1..L
  BY <1>2
<1>8. /\ \A i \in 1..(L + M) : i <= L => f[i] = g[i]
      /\ \A i \in 1..(L + M) : ~(i <= L) => f[i] = <<n, a[i - L]>>
  OBVIOUS
<1>9. f \in [1..(L + M) -> Nat \X Nat]
  <2>1. SUFFICES ASSUME NEW i \in 1..(L + M)
                 PROVE  (IF i <= L THEN g[i] ELSE <<n, a[i - L]>>) \in Nat \X Nat
    OBVIOUS
  <2>2. CASE i <= L
    BY <1>4, <1>7, <2>2
  <2>3. CASE ~(i <= L)
    <3>1. a[i - L] \in Nat
      BY <1>3, <1>6, <2>3
    <3> QED
      BY <1>1, <2>3, <3>1
  <2> QED
    BY <2>2, <2>3
<1> HIDE DEF f
<1>10. ASSUME NEW i \in 1..(L + M)
       PROVE  /\ f[i][1] \in 1..n
              /\ \E j \in 1..Len(cs[f[i][1]]) : f[i][2] = at[f[i][1]][j] /\ u[i] = cs[f[i][1]][j]
  <2>1. CASE i <= L
    <3>1. i \in 1..L /\ f[i] = g[i] /\ u[i] = t[i]
      BY <1>2, <1>7, <1>8, <2>1
    <3>2. g[i][1] \in 1..(n - 1) => g[i][1] \in 1..n
      BY <1>1
    <3> QED
      BY <1>4, <3>1, <3>2
  <2>2. CASE ~(i <= L)
    <3>1. i - L \in 1..M /\ f[i] = <<n, a[i - L]>> /\ u[i] = c[i - L]
      BY <1>2, <1>6, <1>8, <2>2
    <3>2. f[i][1] = n /\ f[i][2] = a[i - L]
      BY <3>1
    <3> QED
      BY <1>1, <1>5, <3>1, <3>2
  <2> QED
    BY <2>1, <2>2
<1>11. ASSUME NEW k \in 1..n, NEW j \in 1..Len(cs[k])
       PROVE  \E i \in 1..(L + M) : f[i] = <<k, at[k][j]>>
  <2>1. CASE k \in 1..(n - 1)
    <3>1. PICK i \in 1..L : g[i] = <<k, at[k][j]>>
      BY <1>4, <2>1
    <3>2. i \in 1..(L + M) /\ i <= L
      BY <1>2
    <3> QED
      BY <1>8, <3>1, <3>2
  <2>2. CASE k = n
    <3>1. j \in 1..M
      BY <1>5, <2>2
    <3>2. L + j \in 1..(L + M) /\ ~(L + j <= L) /\ (L + j) - L = j
      BY <1>2, <3>1
    <3>3. f[L + j] = <<n, a[j]>>
      BY <1>8, <3>2
    <3> QED
      BY <1>5, <2>2, <3>2, <3>3
  <2>3. k \in 1..(n - 1) \/ k = n
    BY <1>1
  <2> QED
    BY <2>1, <2>2, <2>3
<1>12. ASSUME NEW i \in 1..(L + M), NEW j \in 1..(L + M), i < j
       PROVE  Lex(f[i], f[j])
  <2>1. CASE j <= L
    <3>1. i <= L
      BY <1>2, <1>12, <2>1
    <3> QED
      BY <1>4, <1>7, <1>8, <1>12, <2>1, <3>1
  <2>2. CASE i <= L /\ ~(j <= L)
    <3>1. f[i][1] \in 1..(n - 1)
      BY <1>4, <1>7, <1>8, <2>2
    <3>2. f[j][1] = n
      BY <1>8, <2>2
    <3>3. f[i][1] < f[j][1]
      BY <1>1, <3>1, <3>2
    <3> QED
      BY <3>3 DEF Lex
  <2>3. CASE ~(i <= L)
    <3>1. ~(j <= L)
      BY <1>2, <1>12, <2>3
    <3>2. f[i] = <<n, a[i - L]>> /\ f[j] = <<n, a[j - L]>>
      BY <1>8, <2>3, <3>1
    <3>3. i - L \in 1..M /\ j - L \in 1..M /\ i - L < j - L
      BY <1>2, <1>6, <1>12, <2>3, <3>1
    <3>4. a[i - L] < a[j - L]
      BY <1>3, <3>3
    <3>5. f[i][1] = f[j][1] /\ f[i][2] < f[j][2]
      BY <3>2, <3>4
    <3> QED
      BY <3>5 DEF Lex
  <2> QED
    BY <2>1, <2>2, <2>3
<1>13. Placed(f, u, cs, at, n)
  <2>1. Len(u) = L + M
    BY <1>2
  <2>2. f \in [1..Len(u) -> Nat \X Nat]
    BY <1>9, <2>1
  <2>3. \A i \in 1..Len(u) :
          /\ f[i][1] \in 1..n
          /\ \E j \in 1..Len(cs[f[i][1]]) : f[i][2] = at[f[i][1]][j] /\ u[i] = cs[f[i][1]][j]
    BY <1>10, <2>1
  <2>4. \A k \in 1..n : \A j \in 1..Len(cs[k]) : \E i \in 1..Len(u) : f[i] = <<k, at[k][j]>>
    BY <1>11, <2>1
  <2>5. \A i, j \in 1..Len(u) : i < j => Lex(f[i], f[j])
    BY <1>12, <2>1
  <2> QED
    BY <2>2, <2>3, <2>4, <2>5, Zenon DEF Placed
<1> QED
  BY <1>13 DEF u, c

LEMMA FlattenPlaced ==
    ASSUME NEW S, NEW cs \in Seq(Seq(S)), NEW at,
           \A k \in 1..Len(cs) :
              /\ at[k] \in [1..Len(cs[k]) -> Nat]
              /\ \A i, j \in 1..Len(cs[k]) : i < j => at[k][i] < at[k][j]
    PROVE  \E g : Placed(g, FlattenSeq(cs), cs, at, Len(cs))
<1>1. PICK h : Flats(h, S, cs)
  BY FlatsExist
<1> DEFINE N == Len(cs)
<1>2. N \in Nat
  OBVIOUS
<1>3. /\ h \in [0..N -> Seq(S)] /\ h[0] = <<>>
      /\ \A n \in 1..N : h[n] = h[n - 1] \o cs[n]
  BY <1>1, FlatsStep
<1>4. FlattenSeq(cs) = h[N]
  BY <1>1, FlatsLast
<1> DEFINE Good == {n \in 0..N : \E g : Placed(g, h[n], cs, at, n)}
<1>5. 0 \in Good
  <2> DEFINE g == [i \in 1..0 |-> <<1, 1>>]
  <2>1. Len(<<>>) = 0 /\ 1..0 = {} /\ g \in [1..0 -> Nat \X Nat]
    OBVIOUS
  <2> HIDE DEF g
  <2>2. Placed(g, <<>>, cs, at, 0)
    BY <2>1 DEF Placed
  <2> QED
    BY <1>2, <1>3, <2>2
<1>6. ASSUME NEW n \in 1..N, n - 1 \in Good PROVE n \in Good
  <2>1. PICK g : Placed(g, h[n - 1], cs, at, n - 1)
    BY <1>6
  <2>2. n - 1 \in 0..N /\ n \in 0..N
    BY <1>2
  <2>3. h[n - 1] \in Seq(S) /\ h[n] = h[n - 1] \o cs[n]
    BY <1>3, <2>2
  <2>4. \E f : Placed(f, h[n - 1] \o cs[n], cs, at, n)
    BY <2>1, <2>3, PlacedMore
  <2> QED
    BY <2>2, <2>3, <2>4
<1> HIDE DEF Good
<1>7. \A n \in 0..N : n \in Good
  BY <1>2, <1>5, <1>6, Induct
<1>8. N \in Good
  BY <1>2, <1>7
<1> QED
  BY <1>4, <1>8 DEF Good

-----------------------------------------------------------------------------
(* ConversionPlan. *)

Overrides == [type : Texts \cup {Unset}, rename : Texts \cup {Unset},
              outputDir : Texts \cup {Unset}, matrix : {{}} \cup {{m} : m \in Matrices}]

\* The form is up to date, and a plan was made with what it shows.
PlanInv ==
    /\ config \in Configs
    /\ overrides \in Overrides
    /\ form = EffectiveSettings(config, overrides)
    /\ planned \in BOOLEAN
    /\ tasks = IF planned THEN PlanTasks(config, overrides) ELSE <<>>

\* The rules of the form.
Shown(c, o) == IF MatrixOf(c, o) = <<>> THEN <<NoRule>> ELSE MatrixOf(c, o)

\* A lone rule with a directory of its own.
Lone(c, o) ==
    /\ ~IsMatrixMode(MatrixOf(c, o)) /\ MatrixOf(c, o) # <<>>
    /\ MatrixOf(c, o)[1].outputDir \notin {Unset, Blank}

Used(mode, value, own, shown) ==
    Otherwise(value, Blank) = IF mode THEN Otherwise(own, shown) ELSE shown

LEMMA Texts2 == Unset # Blank /\ "bin" # Unset /\ "bin" # Blank
  BY DEF Unset, Blank

LEMMA MatrixIs ==
    ASSUME NEW c \in Configs, NEW o \in Overrides
    PROVE  MatrixOf(c, o) \in Seq(MatrixRules)
<1>1. c.matrix \in Seq(MatrixRules)
  BY PlanAssumption
<1>2. o.matrix = {} \/ \E m \in Matrices : o.matrix = {m}
  BY DEF Overrides
<1>3. ASSUME NEW m \in Matrices, o.matrix = {m} PROVE MatrixOf(c, o) = m
  BY <1>3 DEF MatrixOf
<1>4. o.matrix = {} => MatrixOf(c, o) = c.matrix
  BY DEF MatrixOf
<1> QED
  BY <1>1, <1>2, <1>3, <1>4, PlanAssumption

\* What a rule of the plan has is what the form shows of it.
RuleIs(c, o, j) ==
    LET e == EffectiveRules(c, o)[j]
        r == Shown(c, o)[j]
        f == EffectiveSettings(c, o)
        mode == IsMatrixMode(MatrixOf(c, o))
    IN /\ e.tags = r.tags /\ e.classes = r.classes
       /\ Used(mode, e.type, r.type, f.type)
       /\ Used(mode, e.rename, r.rename, f.rename)
       /\ Used(~Lone(c, o), e.outputDir, r.outputDir, f.outputDir)

LEMMA RulesAre ==
    ASSUME NEW c \in Configs, NEW o \in Overrides
    PROVE  /\ Len(Shown(c, o)) \in Nat /\ DOMAIN Shown(c, o) = 1..Len(Shown(c, o))
           /\ \E S : EffectiveRules(c, o) \in Seq(S)
           /\ Len(EffectiveRules(c, o)) = Len(Shown(c, o))
           /\ \A j \in 1..Len(Shown(c, o)) : RuleIs(c, o, j)
<1> DEFINE matrix == MatrixOf(c, o)
           eff == EffectiveRules(c, o)
           f == EffectiveSettings(c, o)
           rename == Coalesce(o.rename, c.rename)
           dir == Otherwise(Coalesce(o.outputDir, c.outputDir), Unset)
<1>1. matrix \in Seq(MatrixRules) /\ Len(matrix) \in Nat /\ DOMAIN matrix = 1..Len(matrix)
  BY MatrixIs
<1>2. CASE ~IsMatrixMode(matrix)
  <2> DEFINE type == Coalesce(o.type, Coalesce(FirstOf(matrix, "type"), "bin"))
             one == Coalesce(o.rename, Coalesce(FirstOf(matrix, "rename"), c.rename))
             e == [type |-> Otherwise(type, Unset), rename |-> Otherwise(one, Unset),
                   outputDir |-> dir, tags |-> {}, classes |-> {}]
  <2>1. eff = <<e>>
    BY <1>2, Zenon DEF EffectiveRules
  <2>2. /\ Len(Shown(c, o)) = 1 /\ DOMAIN Shown(c, o) = 1..1
        /\ Shown(c, o)[1] = IF matrix = <<>> THEN NoRule ELSE matrix[1]
        /\ Shown(c, o)[1].tags = {} /\ Shown(c, o)[1].classes = {}
    <3>1. CASE matrix = <<>>
      BY <3>1 DEF Shown, NoRule
    <3>2. CASE matrix # <<>>
      <4>1. Len(matrix) = 1 /\ matrix[1].tags = {} /\ matrix[1].classes = {}
        BY <1>1, <1>2, <3>2 DEF IsMatrixMode
      <4> QED
        BY <1>1, <3>2, <4>1 DEF Shown
    <3> QED
      BY <3>1, <3>2
  <2>3. /\ f.type = type
        /\ f.rename = Coalesce(o.rename, Coalesce(FirstOf(matrix, "rename"), Coalesce(c.rename, Blank)))
        /\ f.outputDir = Coalesce(o.outputDir, Coalesce(c.outputDir, Blank))
    BY <1>2 DEF EffectiveSettings
  <2>4. /\ Otherwise(Otherwise(type, Unset), Blank) = type
        /\ Otherwise(Otherwise(one, Unset), Blank)
              = Coalesce(o.rename, Coalesce(FirstOf(matrix, "rename"), Coalesce(c.rename, Blank)))
        /\ Otherwise(dir, Blank) = Coalesce(o.outputDir, Coalesce(c.outputDir, Blank))
    BY Texts2 DEF Otherwise, Coalesce
  <2>5. /\ e.type = Otherwise(type, Unset) /\ e.rename = Otherwise(one, Unset)
        /\ e.outputDir = dir /\ e.tags = {} /\ e.classes = {}
    OBVIOUS
  <2>d. Used(~Lone(c, o), dir, Shown(c, o)[1].outputDir, f.outputDir)
    <3>1. CASE Lone(c, o)
      BY <2>3, <2>4, <3>1 DEF Used
    <3>2. CASE ~Lone(c, o)
      <4>1. Shown(c, o)[1].outputDir \in {Unset, Blank}
        BY <1>2, <2>2, <3>2 DEF Lone, NoRule
      <4>2. Otherwise(Shown(c, o)[1].outputDir, f.outputDir) = f.outputDir
        BY <4>1 DEF Otherwise
      <4> HIDE DEF f, dir
      <4> QED
        BY <2>3, <2>4, <3>2, <4>2 DEF Used
    <3> QED
      BY <3>1, <3>2
  <2> HIDE DEF eff, f, e, dir, type, one
  <2>6. RuleIs(c, o, 1)
    <3>1. eff[1] = e
      BY <2>1
    <3>2. /\ Used(IsMatrixMode(matrix), e.type, Shown(c, o)[1].type, f.type)
          /\ Used(IsMatrixMode(matrix), e.rename, Shown(c, o)[1].rename, f.rename)
      BY <1>2, <2>3, <2>4, <2>5 DEF Used
    <3>3. /\ e.tags = Shown(c, o)[1].tags /\ e.classes = Shown(c, o)[1].classes
          /\ Used(~Lone(c, o), e.outputDir, Shown(c, o)[1].outputDir, f.outputDir)
      BY <2>2, <2>5, <2>d
    <3> QED
      BY <3>1, <3>2, <3>3, Zenon DEF RuleIs, eff, f
  <2>7. \A j \in 1..1 : j = 1
    OBVIOUS
  <2>8. eff \in Seq({e}) /\ Len(eff) = 1
    BY <2>1
  <2> QED
    BY <2>2, <2>6, <2>7, <2>8 DEF eff
<1>3. CASE IsMatrixMode(matrix)
  <2> DEFINE eachOf(r) == [r EXCEPT !.type = Otherwise(@, Coalesce(o.type, "bin")),
                                    !.rename = Otherwise(@, Otherwise(rename, Unset)),
                                    !.outputDir = Otherwise(@, dir)]
  <2>1. eff = [k \in DOMAIN matrix |-> eachOf(matrix[k])]
    BY <1>3, Zenon DEF EffectiveRules
  <2>2. Shown(c, o) = matrix /\ ~Lone(c, o)
    BY <1>3 DEF Shown, Lone, IsMatrixMode
  <2>3. /\ f.type = Coalesce(o.type, "bin")
        /\ f.rename = Coalesce(o.rename, Coalesce(c.rename, Blank))
        /\ f.outputDir = Coalesce(o.outputDir, Coalesce(c.outputDir, Blank))
    BY <1>3 DEF EffectiveSettings, Coalesce
  <2>4. ASSUME NEW r \in MatrixRules
        PROVE  /\ eachOf(r).tags = r.tags /\ eachOf(r).classes = r.classes
               /\ eachOf(r).type = Otherwise(r.type, Coalesce(o.type, "bin"))
               /\ eachOf(r).rename = Otherwise(r.rename, Otherwise(rename, Unset))
               /\ eachOf(r).outputDir = Otherwise(r.outputDir, dir)
    <3> HIDE DEF rename, dir
    <3> QED
      BY DEF MatrixRules
  <2>5. \A own :
          /\ Otherwise(Otherwise(own, Coalesce(o.type, "bin")), Blank)
                = Otherwise(own, Coalesce(o.type, "bin"))
          /\ Otherwise(Otherwise(own, Otherwise(rename, Unset)), Blank)
                = Otherwise(own, Coalesce(o.rename, Coalesce(c.rename, Blank)))
          /\ Otherwise(Otherwise(own, dir), Blank)
                = Otherwise(own, Coalesce(o.outputDir, Coalesce(c.outputDir, Blank)))
    BY Texts2 DEF Otherwise, Coalesce
  <2> HIDE DEF eff, f, eachOf, dir, rename
  <2>6. ASSUME NEW j \in 1..Len(matrix) PROVE RuleIs(c, o, j)
    <3> DEFINE r == matrix[j]
    <3>1. r \in MatrixRules /\ eff[j] = eachOf(r)
      BY <1>1, <2>1
    <3> HIDE DEF r
    <3>2. /\ eff[j].tags = r.tags /\ eff[j].classes = r.classes
          /\ Used(TRUE, eff[j].type, r.type, f.type)
          /\ Used(TRUE, eff[j].rename, r.rename, f.rename)
          /\ Used(TRUE, eff[j].outputDir, r.outputDir, f.outputDir)
      BY <2>3, <2>4, <2>5, <3>1 DEF Used
    <3>3. IsMatrixMode(matrix) = TRUE /\ (~Lone(c, o)) = TRUE /\ Shown(c, o)[j] = r
      BY <1>3, <2>2 DEF r, IsMatrixMode, Lone
    <3> QED
      BY <3>2, <3>3, Zenon DEF RuleIs, eff, f
  <2>7. eff \in Seq({eff[k] : k \in DOMAIN matrix}) /\ Len(eff) = Len(matrix)
    <3>1. DOMAIN eff = 1..Len(matrix)
      BY <1>1, <2>1
    <3>2. eff = [k \in 1..Len(matrix) |-> eff[k]]
      BY <1>1, <2>1
    <3>3. eff \in [1..Len(matrix) -> {eff[k] : k \in DOMAIN matrix}]
      BY <1>1, <3>2
    <3> QED
      BY <1>1, <3>1, <3>3
  <2> QED
    BY <1>1, <2>2, <2>6, <2>7 DEF eff
<1> QED
  BY <1>2, <1>3

\* The tasks of a plan, one for each item and each rule that is for it.
PairsOf(rules) == {p \in (DOMAIN PlanItems) \X (DOMAIN rules) :
                      RuleMatchesItem(rules[p[2]], PlanItems[p[1]])}

BeforeIn(rules, p) == {q \in PairsOf(rules) : q[1] < p[1] \/ (q[1] = p[1] /\ q[2] < p[2])}

PlanTold(c, o) ==
    LET plan == PlanTasks(c, o)
        eff == EffectiveRules(c, o)
        place(p) == Cardinality(BeforeIn(Shown(c, o), p)) + 1
    IN /\ DOMAIN plan = 1..Cardinality(PairsOf(Shown(c, o)))
       /\ Len(plan) = Cardinality(PairsOf(Shown(c, o)))
       /\ \A p \in PairsOf(Shown(c, o)) :
             /\ place(p) \in DOMAIN plan
             /\ plan[place(p)] =
                   [item |-> PlanItems[p[1]].id, name |-> PlanItems[p[1]].name,
                    type |-> eff[p[2]].type, rename |-> eff[p[2]].rename,
                    outputDir |-> eff[p[2]].outputDir]
       /\ \A i \in DOMAIN plan : \E k \in DOMAIN PlanItems : plan[i].item = PlanItems[k].id

LEMMA PlanIs ==
    ASSUME NEW c \in Configs, NEW o \in Overrides
    PROVE  PlanTold(c, o)
<1> DEFINE rules == Shown(c, o)
           eff == EffectiveRules(c, o)
           plan == PlanTasks(c, o)
           N == Len(PlanItems)
           R == Len(rules)
           matches(k) == {j \in DOMAIN eff : RuleMatchesItem(eff[j], PlanItems[k])}
           of(k) == Filtered(eff, matches(k))
           task(item, row) == [item |-> item.id, name |-> item.name, type |-> row.type,
                                rename |-> row.rename, outputDir |-> row.outputDir]
           of1(item) == Filtered(eff, {j \in DOMAIN eff : RuleMatchesItem(eff[j], item)})
           cs == [k \in DOMAIN PlanItems |->
                    [j \in DOMAIN of1(PlanItems[k]) |-> task(PlanItems[k], of1(PlanItems[k])[j])]]
           S == {task(PlanItems[k], eff[j]) : k \in 1..N, j \in 1..R}
           at == [k \in 1..N |-> CHOOSE h : Picks(h, of(k), eff, matches(k))]
           pairs == PairsOf(rules)
           before(p) == BeforeIn(rules, p)
<1>1. N \in Nat /\ DOMAIN PlanItems = 1..N
  BY PlanAssumption
<1>2. /\ R \in Nat /\ DOMAIN rules = 1..R /\ Len(eff) = R
      /\ \A j \in 1..R : eff[j].tags = rules[j].tags /\ eff[j].classes = rules[j].classes
  <2>1. R \in Nat /\ DOMAIN rules = 1..R /\ Len(eff) = R /\ \A j \in 1..R : RuleIs(c, o, j)
    BY RulesAre
  <2> QED
    BY <2>1 DEF RuleIs
<1>3. PICK T : eff \in Seq(T)
  BY RulesAre
<1>4. plan = FlattenSeq(cs)
  BY Zenon DEF PlanTasks
<1> HIDE DEF rules, eff, plan, N, R
<1>5. DOMAIN eff = 1..R
  BY <1>2, <1>3
<1>6. \A k \in 1..N : /\ of(k) \in Seq(T) /\ Len(of(k)) \in Nat /\ DOMAIN of(k) = 1..Len(of(k))
                      /\ Picks(at[k], of(k), eff, matches(k))
  <2>1. SUFFICES ASSUME NEW k \in 1..N
                 PROVE  /\ of(k) \in Seq(T) /\ Len(of(k)) \in Nat /\ DOMAIN of(k) = 1..Len(of(k))
                        /\ Picks(at[k], of(k), eff, matches(k))
    OBVIOUS
  <2> DEFINE keep == matches(k)
  <2> HIDE DEF keep
  <2>2. Filtered(eff, keep) \in Seq(T) /\ \E h : Picks(h, Filtered(eff, keep), eff, keep)
    BY <1>3, FilteredPlaces
  <2> DEFINE r == Filtered(eff, keep)
  <2>3. r \in Seq(T) /\ Len(r) \in Nat /\ DOMAIN r = 1..Len(r)
    BY <2>2
  <2>4. Picks(CHOOSE h : Picks(h, r, eff, keep), r, eff, keep)
    <3> HIDE DEF r
    <3> QED
      BY <2>2, Zenon DEF r
  <2>5. at[k] = CHOOSE h : Picks(h, r, eff, keep)
    BY DEF keep
  <2> HIDE DEF at
  <2>6. of(k) = r
    BY DEF keep
  <2> HIDE DEF r
  <2> QED
    BY <2>3, <2>4, <2>5, <2>6, Zenon DEF keep
<1>7. \A k \in 1..N :
        /\ at[k] \in [1..Len(of(k)) -> 1..R]
        /\ \A j \in 1..Len(of(k)) : at[k][j] \in matches(k) /\ of(k)[j] = eff[at[k][j]]
        /\ \A m \in 1..R : m \in matches(k) => \E j \in 1..Len(of(k)) : at[k][j] = m
        /\ \A i, j \in 1..Len(of(k)) : i < j => at[k][i] < at[k][j]
  <2>1. SUFFICES ASSUME NEW k \in 1..N
                 PROVE
        /\ at[k] \in [1..Len(of(k)) -> 1..R]
        /\ \A j \in 1..Len(of(k)) : at[k][j] \in matches(k) /\ of(k)[j] = eff[at[k][j]]
        /\ \A m \in 1..R : m \in matches(k) => \E j \in 1..Len(of(k)) : at[k][j] = m
        /\ \A i, j \in 1..Len(of(k)) : i < j => at[k][i] < at[k][j]
    OBVIOUS
  <2> DEFINE keep == matches(k)
             r == of(k)
             h == at[k]
  <2>2. Picks(h, r, eff, keep) /\ Len(eff) = R
    BY <1>2, <1>6
  <2> HIDE DEF keep, r, h
  <2>3. /\ h \in [1..Len(r) -> 1..R]
        /\ \A j \in 1..Len(r) : h[j] \in keep /\ r[j] = eff[h[j]]
        /\ \A m \in 1..R : m \in keep => \E j \in 1..Len(r) : h[j] = m
        /\ \A i, j \in 1..Len(r) : i < j => h[i] < h[j]
    BY <2>2 DEF Picks
  <2> QED
    BY <2>3, Zenon DEF keep, r, h
<1> HIDE DEF at
<1>8. \A k \in 1..N : of1(PlanItems[k]) = of(k)
  OBVIOUS
<1> HIDE DEF of, of1
<1>9. /\ DOMAIN cs = 1..N
      /\ \A k \in 1..N : cs[k] = [j \in 1..Len(of(k)) |-> task(PlanItems[k], of(k)[j])]
  <2>1. \A k \in 1..N : cs[k] = [j \in DOMAIN of(k) |-> task(PlanItems[k], of(k)[j])]
    BY <1>1, <1>8
  <2>2. DOMAIN cs = 1..N
    BY <1>1
  <2> HIDE DEF cs
  <2> QED
    BY <1>6, <2>1, <2>2
<1> HIDE DEF task
<1> HIDE DEF S, cs
<1>10. \A k \in 1..N : cs[k] \in Seq(S) /\ Len(cs[k]) = Len(of(k))
  <2>1. SUFFICES ASSUME NEW k \in 1..N PROVE cs[k] \in Seq(S) /\ Len(cs[k]) = Len(of(k))
    OBVIOUS
  <2>2. Len(of(k)) \in Nat /\ cs[k] = [j \in 1..Len(of(k)) |-> task(PlanItems[k], of(k)[j])]
    BY <1>6, <1>9
  <2>3. \A j \in 1..Len(of(k)) : task(PlanItems[k], of(k)[j]) \in S
    <3>1. SUFFICES ASSUME NEW j \in 1..Len(of(k)) PROVE task(PlanItems[k], of(k)[j]) \in S
      OBVIOUS
    <3>2. at[k][j] \in 1..R /\ of(k)[j] = eff[at[k][j]]
      BY <1>7
    <3> QED
      BY <3>2 DEF S
  <2> QED
    BY <2>2, <2>3
<1>11. cs \in Seq(Seq(S)) /\ Len(cs) = N
  <2>1. cs \in [1..N -> Seq(S)]
    <3>1. cs = [k \in 1..N |-> cs[k]]
      BY <1>9 DEF cs
    <3> QED
      BY <1>10, <3>1
  <2> QED
    BY <1>1, <1>9, <2>1, TableIsSeq
<1>12. \A k \in 1..Len(cs) :
          /\ at[k] \in [1..Len(cs[k]) -> Nat]
          /\ \A i, j \in 1..Len(cs[k]) : i < j => at[k][i] < at[k][j]
  <2>1. SUFFICES ASSUME NEW k \in 1..N
                 PROVE  /\ at[k] \in [1..Len(cs[k]) -> Nat]
                        /\ \A i, j \in 1..Len(cs[k]) : i < j => at[k][i] < at[k][j]
    BY <1>11
  <2>2. at[k] \in [1..Len(cs[k]) -> 1..R] /\ \A i, j \in 1..Len(cs[k]) : i < j => at[k][i] < at[k][j]
    BY <1>7, <1>10
  <2> QED
    BY <2>2
<1>13. PICK g : Placed(g, plan, cs, at, N)
  BY <1>4, <1>11, <1>12, FlattenPlaced
<1>14. plan \in Seq(S)
  <2>1. FlattenSeq(cs) \in Seq(S)
    BY <1>11, FlattenConcat
  <2> QED
    BY <1>4, <2>1
<1> DEFINE L == Len(plan)
<1>15. L \in Nat /\ DOMAIN plan = 1..L
  BY <1>14
<1>16. /\ g \in [1..L -> Nat \X Nat]
       /\ \A i \in 1..L :
             /\ g[i][1] \in 1..N
             /\ \E j \in 1..Len(cs[g[i][1]]) : g[i][2] = at[g[i][1]][j] /\ plan[i] = cs[g[i][1]][j]
       /\ \A k \in 1..N : \A j \in 1..Len(cs[k]) : \E i \in 1..L : g[i] = <<k, at[k][j]>>
       /\ \A i, j \in 1..L : i < j => Lex(g[i], g[j])
  BY <1>13 DEF Placed
<1> HIDE DEF L
<1>17. \A k \in 1..N, j \in 1..R :
          /\ j \in matches(k) <=> RuleMatchesItem(rules[j], PlanItems[k])
          /\ <<k, j>> \in pairs <=> j \in matches(k)
  <2>1. \A k \in 1..N, j \in 1..R :
          RuleMatchesItem(eff[j], PlanItems[k]) <=> RuleMatchesItem(rules[j], PlanItems[k])
    BY <1>2 DEF RuleMatchesItem
  <2> QED
    BY <1>1, <1>2, <1>5, <2>1 DEF PairsOf
<1> HIDE DEF matches
<1>18. ASSUME NEW i \in 1..L
       PROVE  /\ g[i] \in pairs /\ g[i] = <<g[i][1], g[i][2]>>
              /\ g[i][1] \in 1..N /\ g[i][2] \in 1..R
              /\ plan[i] = task(PlanItems[g[i][1]], eff[g[i][2]])
  <2> DEFINE k == g[i][1]
             m == g[i][2]
  <2>1. k \in 1..N /\ g[i] = <<k, m>>
    BY <1>16
  <2>2. PICK j \in 1..Len(cs[k]) : m = at[k][j] /\ plan[i] = cs[k][j]
    BY <1>16
  <2> HIDE DEF k, m
  <2>3. j \in 1..Len(of(k))
    BY <1>10, <2>1, <2>2
  <2>4. m \in 1..R /\ m \in matches(k) /\ of(k)[j] = eff[m]
    BY <1>7, <2>1, <2>2, <2>3
  <2>5. plan[i] = task(PlanItems[k], eff[m])
    BY <1>9, <2>1, <2>2, <2>3, <2>4
  <2>6. <<k, m>> \in pairs
    BY <1>17, <2>1, <2>4
  <2> QED
    BY <2>1, <2>4, <2>5, <2>6 DEF k, m
<1>19. ASSUME NEW p \in pairs
       PROVE  /\ p = <<p[1], p[2]>> /\ p[1] \in 1..N /\ p[2] \in 1..R
              /\ \E i \in 1..L : g[i] = p
  <2>1. p = <<p[1], p[2]>> /\ p[1] \in 1..N /\ p[2] \in 1..R
    BY <1>1, <1>2 DEF PairsOf
  <2>2. p[2] \in matches(p[1])
    BY <1>17, <2>1
  <2>3. PICK j \in 1..Len(of(p[1])) : at[p[1]][j] = p[2]
    BY <1>7, <2>1, <2>2
  <2>4. j \in 1..Len(cs[p[1]])
    BY <1>10, <2>1
  <2>5. \E i \in 1..L : g[i] = <<p[1], at[p[1]][j]>>
    BY <1>16, <2>1, <2>4
  <2> QED
    BY <2>1, <2>3, <2>5
<1> DEFINE Lt == {x \in pairs \X pairs : Lex(x[1], x[2])}
<1>20. \A i, j \in 1..L : <<g[i], g[j]>> \in Lt <=> i < j
  <2>1. SUFFICES ASSUME NEW i \in 1..L, NEW j \in 1..L PROVE Lex(g[i], g[j]) <=> i < j
    BY <1>18
  <2>2. i < j => Lex(g[i], g[j])
    BY <1>16
  <2>3. j < i => Lex(g[j], g[i])
    BY <1>16
  <2>4. ~(Lex(g[i], g[j]) /\ Lex(g[j], g[i])) /\ ~Lex(g[i], g[i])
    <3>1. g[i][1] \in Nat /\ g[i][2] \in Nat /\ g[j][1] \in Nat /\ g[j][2] \in Nat
      BY <1>16
    <3> QED
      BY <3>1 DEF Lex
  <2>5. i < j \/ j < i \/ i = j
    BY <1>15
  <2>6. ~(i < j /\ j < i)
    BY <1>15
  <2> QED
    BY <2>2, <2>3, <2>4, <2>5, <2>6
<1>21. \A p \in pairs : {q \in pairs : <<q, p>> \in Lt} = before(p)
  BY DEF Lex, BeforeIn
<1> HIDE DEF pairs, Lt
<1>22. g \in [1..L -> pairs]
  BY <1>16, <1>18
<1>23. /\ Cardinality(pairs) = L
       /\ \A i \in 1..L : Cardinality({q \in pairs : <<q, g[i]>> \in Lt}) = i - 1
  <2>1. \A p \in pairs : \E i \in 1..L : g[i] = p
    BY <1>19
  <2>2. Ranks(L, pairs, Lt, g)
    BY <1>15, <1>20, <1>22, <2>1, Ranked, Zenon
  <2> QED
    BY <2>2 DEF Ranks
<1>24. ASSUME NEW p \in pairs
       PROVE  /\ Cardinality(before(p)) + 1 \in 1..L
              /\ plan[Cardinality(before(p)) + 1] = task(PlanItems[p[1]], eff[p[2]])
  <2>1. PICK i \in 1..L : g[i] = p
    BY <1>19
  <2>2. Cardinality(before(p)) = i - 1
    <3>1. before(p) = {q \in pairs : <<q, g[i]>> \in Lt}
      BY <1>21, <2>1
    <3> HIDE DEF before
    <3> QED
      BY <1>23, <3>1
  <2> HIDE DEF before
  <2>3. Cardinality(before(p)) + 1 = i
    BY <1>15, <2>2
  <2> QED
    BY <1>18, <2>1, <2>3
<1>25. \A i \in 1..L : \E k \in DOMAIN PlanItems : plan[i].item = PlanItems[k].id
  <2>1. \A item, row : task(item, row).item = item.id
    BY DEF task
  <2> QED
    BY <1>1, <1>18, <2>1
<1> HIDE DEF before
<1> QED
  BY <1>15, <1>23, <1>24, <1>25, Zenon DEF PlanTold, L, task, plan, eff, rules, pairs, before

LEMMA PlanKeeps ==
    PlanInv /\ [PlanNext]_planVars => PlanInv'
<1> SUFFICES ASSUME PlanInv, [PlanNext]_planVars PROVE PlanInv'
  OBVIOUS
<1>1. ASSUME NEW field \in Fields, NEW text \in Texts, EnterText(field, text) PROVE PlanInv'
  <2>1. overrides' \in Overrides
    BY <1>1 DEF PlanInv, EnterText, Overrides, Fields
  <2> QED
    BY <1>1, <2>1 DEF PlanInv, EnterText
<1>2. ASSUME NEW matrix \in Matrices, EnterMatrix(matrix) PROVE PlanInv'
  <2>1. overrides' \in Overrides
    BY <1>2 DEF PlanInv, EnterMatrix, Overrides
  <2> QED
    BY <1>2, <2>1 DEF PlanInv, EnterMatrix
<1>3. CASE BuildPlan
  BY <1>3 DEF PlanInv, BuildPlan
<1>4. CASE UNCHANGED planVars
  BY <1>4 DEF PlanInv, planVars
<1> QED
  BY <1>1, <1>2, <1>3, <1>4 DEF PlanNext

LEMMA PlanInvHolds ==
    PlanSpec => []PlanInv
<1>1. PlanInit => PlanInv
  <2>1. NoOverrides \in Overrides
    BY DEF NoOverrides, Overrides
  <2> QED
    BY <2>1 DEF PlanInit, PlanInv
<1> QED
  BY <1>1, PlanKeeps, PTL DEF PlanSpec

LEMMA PlanInvTyped ==
    PlanInv => PlanTypeOK
<1> SUFFICES ASSUME PlanInv PROVE PlanTypeOK
  OBVIOUS
<1>1. form.type # Unset /\ form.rename # Unset /\ form.outputDir # Unset
  BY Texts2 DEF PlanInv, EffectiveSettings, Coalesce
<1>2. ASSUME NEW k \in DOMAIN tasks PROVE tasks[k].item \in {PlanItems[j].id : j \in DOMAIN PlanItems}
  <2>1. CASE ~planned
    BY <1>2, <2>1 DEF PlanInv
  <2>2. CASE planned
    <3>1. config \in Configs /\ overrides \in Overrides
      BY DEF PlanInv
    <3>2. \A i \in DOMAIN tasks : \E j \in DOMAIN PlanItems : tasks[i].item = PlanItems[j].id
      BY <2>2, <3>1, PlanIs DEF PlanTold, PlanInv
    <3> QED
      BY <1>2, <3>2
  <2> QED
    BY <2>1, <2>2 DEF PlanInv
<1> QED
  BY <1>1, <1>2 DEF PlanInv, PlanTypeOK, Overrides

\* Whatever the files say, whatever is selected and whatever the user enters, a
\* plan is what the form shows: plan-builder.ts computes the two apart.
THEOREM PlansAreShown ==
    PlanSpec => []PlanIsWhatIsShown
<1>1. PlanInv => FormTellsTheRule
  <2> SUFFICES ASSUME PlanInv, ~IsMatrixMode(form.matrix), form.matrix # <<>>
               PROVE  /\ overrides.type = Unset /\ form.matrix[1].type # Unset =>
                            form.type = form.matrix[1].type
                      /\ overrides.rename = Unset /\ form.matrix[1].rename # Unset =>
                            form.rename = form.matrix[1].rename
    BY DEF FormTellsTheRule
  <2> DEFINE matrix == MatrixOf(config, overrides)
  <2>1. form.matrix = matrix /\ ~IsMatrixMode(matrix)
    BY DEF PlanInv, EffectiveSettings
  <2>2. FirstOf(matrix, "type") = matrix[1].type /\ FirstOf(matrix, "rename") = matrix[1].rename
    BY <2>1 DEF FirstOf
  <2>3. /\ form.type = Coalesce(overrides.type, Coalesce(FirstOf(matrix, "type"), "bin"))
        /\ form.rename = Coalesce(overrides.rename,
              Coalesce(FirstOf(matrix, "rename"), Coalesce(config.rename, Blank)))
    BY <2>1 DEF PlanInv, EffectiveSettings
  <2> HIDE DEF matrix
  <2> QED
    BY <2>1, <2>2, <2>3 DEF Coalesce
<1>2. ASSUME PlanInv, planned
      PROVE  /\ Len(tasks) = Cardinality(PlanPairs)
             /\ \A p \in PlanPairs :
                   /\ TaskOf(p).item = PlanItems[p[1]].id
                   /\ \A field \in {"type", "rename"} :
                         IF IsMatrixMode(form.matrix) THEN OwnFirst(p, field)
                         ELSE FormOnly(p, field)
                   /\ IF LoneDirectory THEN FormOnly(p, "outputDir")
                      ELSE OwnFirst(p, "outputDir")
  <2> DEFINE eff == EffectiveRules(config, overrides)
             mode == IsMatrixMode(MatrixOf(config, overrides))
             shown == Shown(config, overrides)
  <2>1. /\ config \in Configs /\ overrides \in Overrides
        /\ form = EffectiveSettings(config, overrides) /\ tasks = PlanTasks(config, overrides)
    BY <1>2 DEF PlanInv
  <2>2. form.matrix = MatrixOf(config, overrides)
    BY <2>1 DEF EffectiveSettings
  <2>3. ShownRules = shown /\ (LoneDirectory <=> Lone(config, overrides))
    BY <2>2, Zenon DEF Shown, ShownRules, Lone, LoneDirectory
  <2> HIDE DEF eff
  <2>4. PlanPairs = PairsOf(shown) /\ \A p : PairsBefore(p) = BeforeIn(shown, p)
    BY <2>3, Zenon DEF PairsOf, BeforeIn, PlanPairs, PairsBefore
  <2>5. /\ Len(tasks) = Cardinality(PlanPairs)
        /\ \A p \in PlanPairs : TaskOf(p) =
                             [item |-> PlanItems[p[1]].id, name |-> PlanItems[p[1]].name,
                              type |-> eff[p[2]].type, rename |-> eff[p[2]].rename,
                              outputDir |-> eff[p[2]].outputDir]
    <3>1. PlanTold(config, overrides)
      BY <2>1, PlanIs
    <3>2. Len(tasks) = Cardinality(PlanPairs)
      BY <2>1, <2>4, <3>1, Zenon DEF PlanTold
    <3>3. ASSUME NEW p \in PlanPairs
          PROVE  TaskOf(p) =
                             [item |-> PlanItems[p[1]].id, name |-> PlanItems[p[1]].name,
                              type |-> eff[p[2]].type, rename |-> eff[p[2]].rename,
                              outputDir |-> eff[p[2]].outputDir]
      <4>1. TaskOf(p) = tasks[Cardinality(BeforeIn(shown, p)) + 1] /\ p \in PairsOf(shown)
        BY <2>4, Zenon DEF TaskOf
      <4>2. tasks[Cardinality(BeforeIn(shown, p)) + 1] =
                             [item |-> PlanItems[p[1]].id, name |-> PlanItems[p[1]].name,
                              type |-> eff[p[2]].type, rename |-> eff[p[2]].rename,
                              outputDir |-> eff[p[2]].outputDir]
        BY <2>1, <3>1, <4>1, Zenon DEF PlanTold, eff
      <4> QED
        BY <4>1, <4>2
    <3> QED
      BY <3>2, <3>3
  <2>6. \A p \in PlanPairs : RuleIs(config, overrides, p[2])
    <3>1. /\ DOMAIN shown = 1..Len(shown)
          /\ \A j \in 1..Len(shown) : RuleIs(config, overrides, j)
      BY <2>1, RulesAre
    <3>2. \A p \in PlanPairs : p[2] \in DOMAIN shown
      BY <2>4 DEF PairsOf
    <3> QED
      BY <3>1, <3>2
  <2>7. ASSUME NEW p \in PlanPairs
        PROVE  /\ TaskOf(p).item = PlanItems[p[1]].id
               /\ \A field \in {"type", "rename"} :
                     IF IsMatrixMode(form.matrix) THEN OwnFirst(p, field) ELSE FormOnly(p, field)
               /\ IF LoneDirectory THEN FormOnly(p, "outputDir") ELSE OwnFirst(p, "outputDir")
    <3> DEFINE j == p[2]
               row == ShownRules[j]
    <3>1. /\ TaskOf(p).item = PlanItems[p[1]].id
          /\ TaskOf(p).type = eff[j].type /\ TaskOf(p).rename = eff[j].rename
          /\ TaskOf(p).outputDir = eff[j].outputDir
      BY <2>5
    <3>2. RuleIs(config, overrides, j)
      BY <2>6
    <3> HIDE DEF j
    <3>3. /\ Used(mode, eff[j].type, row.type, form.type)
          /\ Used(mode, eff[j].rename, row.rename, form.rename)
          /\ Used(~Lone(config, overrides), eff[j].outputDir, row.outputDir, form.outputDir)
      BY <2>1, <2>3, <3>2, Zenon DEF RuleIs, eff
    <3>4. /\ Used(mode, TaskOf(p).type, row.type, form.type)
          /\ Used(mode, TaskOf(p).rename, row.rename, form.rename)
          /\ Used(~LoneDirectory, TaskOf(p).outputDir, row.outputDir, form.outputDir)
      BY <2>3, <3>1, <3>3, Zenon DEF Used
    <3>5. /\ IF mode THEN OwnFirst(p, "type") ELSE FormOnly(p, "type")
          /\ IF mode THEN OwnFirst(p, "rename") ELSE FormOnly(p, "rename")
          /\ IF LoneDirectory THEN FormOnly(p, "outputDir") ELSE OwnFirst(p, "outputDir")
      BY <3>4, Zenon DEF Used, OwnFirst, FormOnly, j
    <3>6. IsMatrixMode(form.matrix) = mode
      BY <2>2
    <3> QED
      BY <3>1, <3>5, <3>6
  <2> QED
    BY <2>5, <2>7
<1>3. PlanInv => PlanIsWhatIsShown
  BY <1>1, <1>2, Zenon DEF PlanIsWhatIsShown
<1> QED
  BY <1>3, PlanInvHolds, PTL

-----------------------------------------------------------------------------
(* ConfigLoader. *)

-----------------------------------------------------------------------------
(* What reaches what. *)

Includes == [Files -> Seq(Files)]

ClosedUnder(inc, Z) == \A x \in Z : ToSet(inc[x]) \subseteq Z

LEMMA IncludedAreFiles ==
    ASSUME NEW inc \in Includes, NEW f \in Files
    PROVE  /\ ToSet(inc[f]) \subseteq Files
           /\ Len(inc[f]) \in Nat /\ DOMAIN inc[f] = 1..Len(inc[f])
           /\ ToSet(inc[f]) = {inc[f][k] : k \in DOMAIN inc[f]}
           /\ \A k \in DOMAIN inc[f] : inc[f][k] \in Files
<1>1. inc[f] \in Seq(Files)
  BY DEF Includes
<1>2. ToSet(inc[f]) = {inc[f][k] : k \in DOMAIN inc[f]}
  BY DEF ToSet
<1> QED
  BY <1>1, <1>2

\* w tells what is reached within n includes, for n up to N.
Reaches(w, inc, N) ==
    /\ w \in [0..N -> [Files -> SUBSET Files]]
    /\ \A f \in Files : w[0][f] = {f}
    /\ \A n \in 1..N : \A f \in Files :
          w[n][f] = {f} \cup UNION {w[n - 1][g] : g \in ToSet(inc[f])}

LEMMA ReachSteps ==
    ASSUME NEW inc \in Includes
    PROVE  \E w : /\ Reaches(w, inc, Cardinality(Files))
                  /\ Reach(inc) = w[Cardinality(Files)]
<1> DEFINE N == Cardinality(Files)
           Row(v, n) == [f \in Files |-> IF n = 0 THEN {f}
                                       ELSE {f} \cup UNION {v[g] : g \in ToSet(inc[f])}]
           Rows(w) == w = [n \in 0..N |-> Row(w[n - 1], n)]
           S == [Files -> SUBSET Files]
           s == Row(<<>>, 0)
           F == [p \in S \X (1..N) |-> Row(p[1], p[2])]
           c == CHOOSE w : Rows(w)
<1>1. N \in Nat
  BY LoaderAssumption, FS_CardinalityType
<1>2. Reach(inc) = c[N]
  BY Zenon DEF Reach
<1> HIDE DEF N
<1>3. s \in S /\ \A f \in Files : s[f] = {f}
  OBVIOUS
<1>4. \A v \in S, n \in 1..N : /\ Row(v, n) \in S
                              /\ \A f \in Files : Row(v, n)[f] = {f} \cup UNION {v[g] : g \in ToSet(inc[f])}
  <2>1. SUFFICES ASSUME NEW v \in S, NEW n \in 1..N
                 PROVE  \A f \in Files : {f} \cup UNION {v[g] : g \in ToSet(inc[f])} \in SUBSET Files
    BY <1>1
  <2> QED
    BY IncludedAreFiles
<1> HIDE DEF s
<1>5. F \in [S \X (1..N) -> S]
  <2>1. \A p \in S \X (1..N) : Row(p[1], p[2]) \in S
    <3> HIDE DEF Row, S
    <3> QED
      BY <1>4
  <2> HIDE DEF Row, S
  <2> QED
    BY <2>1
<1>6. PICK w : Iterated(w, S, s, F, N)
  <2> HIDE DEF F, S
  <2> QED
    BY <1>1, <1>3, <1>5, Iterates
<1>7. /\ w \in [0..N -> S] /\ w[0] = s
      /\ \A n \in 1..N : w[n] = F[<<w[n - 1], n>>]
  BY <1>6 DEF Iterated
<1>8. \A n \in 1..N : n - 1 \in 0..N /\ n \in 0..N /\ n # 0
  BY <1>1
<1>9. \A n \in 1..N : w[n] = Row(w[n - 1], n)
  <2> HIDE DEF Row, S
  <2> QED
    BY <1>7, <1>8
<1>10. \A n \in 0..N : w[n] = Row(w[n - 1], n)
  <2>1. w[0] = Row(w[0 - 1], 0)
    BY <1>7 DEF s
  <2>2. \A n \in 0..N : n = 0 \/ n \in 1..N
    BY <1>1
  <2> HIDE DEF Row
  <2> QED
    BY <1>9, <2>1, <2>2
<1>11. Rows(w)
  <2> HIDE DEF Row, S
  <2>1. w = [n \in 0..N |-> w[n]]
    BY <1>7
  <2>2. [n \in 0..N |-> w[n]] = [n \in 0..N |-> Row(w[n - 1], n)]
    BY <1>10
  <2> QED
    BY <2>1, <2>2
<1>12. Rows(c)
  <2> HIDE DEF Rows
  <2> QED
    BY <1>11
<1>13. \A n \in 0..N : c[n] = Row(c[n - 1], n)
  <2> HIDE DEF Row, c
  <2> QED
    BY <1>12
<1>14. \A n \in 0..N : c[n] = w[n]
  <2> DEFINE P == {n \in 0..N : c[n] = w[n]}
  <2>1. 0 \in P
    <3>1. c[0] = Row(c[0 - 1], 0) /\ w[0] = Row(w[0 - 1], 0) /\ 0 \in 0..N
      <4> HIDE DEF Row, c
      <4> QED
        BY <1>1, <1>10, <1>13
    <3>2. Row(c[0 - 1], 0) = Row(w[0 - 1], 0)
      <4> HIDE DEF c
      <4> QED
        OBVIOUS
    <3> HIDE DEF Row, c
    <3> QED
      BY <3>1, <3>2
  <2>2. ASSUME NEW n \in 1..N, n - 1 \in P PROVE n \in P
    <3> HIDE DEF Row, c
    <3> QED
      BY <1>8, <1>10, <1>13, <2>2
  <2> HIDE DEF P
  <2>3. \A n \in 0..N : n \in P
    BY <1>1, <2>1, <2>2, Induct
  <2> QED
    BY <2>3 DEF P
<1>15. Reaches(w, inc, N)
  <2>1. \A f \in Files : w[0][f] = {f}
    BY <1>3, <1>7
  <2>2. ASSUME NEW n \in 1..N, NEW f \in Files
        PROVE  w[n][f] = {f} \cup UNION {w[n - 1][g] : g \in ToSet(inc[f])}
    <3>1. w[n - 1] \in S
      BY <1>7, <1>8
    <3> DEFINE v == w[n - 1]
    <3>2. w[n] = Row(v, n)
      BY <1>9
    <3> HIDE DEF Row, S, v
    <3> QED
      BY <1>4, <3>1, <3>2 DEF v
  <2> QED
    BY <1>7, <2>1, <2>2 DEF Reaches
<1>16. N \in 0..N
  BY <1>1
<1>17. Reach(inc) = w[N]
  <2> HIDE DEF c
  <2> QED
    BY <1>2, <1>14, <1>16
<1> QED
  BY <1>15, <1>17 DEF N

LEMMA ReachesMore ==
    ASSUME NEW inc \in Includes, NEW N \in Nat, NEW w, Reaches(w, inc, N)
    PROVE  /\ \A n \in 0..N, f \in Files : f \in w[n][f] /\ w[n][f] \subseteq Files
           /\ \A n \in 1..N, f \in Files : w[n - 1][f] \subseteq w[n][f]
           /\ \A n \in 1..N, f \in Files : \A x \in w[n - 1][f] : ToSet(inc[x]) \subseteq w[n][f]
           /\ \A n \in 1..N, f \in Files : \A y \in w[n][f] :
                 y = f \/ \E x \in w[n - 1][f] : y \in ToSet(inc[x])
<1>1. /\ w \in [0..N -> [Files -> SUBSET Files]]
      /\ \A f \in Files : w[0][f] = {f}
      /\ \A n \in 1..N : \A f \in Files :
            w[n][f] = {f} \cup UNION {w[n - 1][g] : g \in ToSet(inc[f])}
  BY DEF Reaches
<1>2. \A n \in 1..N : n - 1 \in 0..N /\ n \in 0..N /\ (n - 1 = 0 \/ n - 1 \in 1..N)
  OBVIOUS
<1>3. \A n \in 0..N : n = 0 \/ n \in 1..N
  OBVIOUS
<1>4. \A f \in Files : ToSet(inc[f]) \subseteq Files
  BY IncludedAreFiles
<1>5. \A n \in 0..N, f \in Files : f \in w[n][f] /\ w[n][f] \subseteq Files
  BY <1>1, <1>3
<1>6. \A n \in 1..N, f \in Files : \A g \in ToSet(inc[f]) : w[n - 1][g] \subseteq w[n][f]
  BY <1>1
<1>7. \A n \in 1..N, f \in Files : \A y \in w[n][f] :
         y = f \/ \E g \in ToSet(inc[f]) : y \in w[n - 1][g]
  BY <1>1
<1> DEFINE P == {n \in 0..N : n \in 1..N =>
                   \A f \in Files :
                      /\ w[n - 1][f] \subseteq w[n][f]
                      /\ \A x \in w[n - 1][f] : ToSet(inc[x]) \subseteq w[n][f]
                      /\ \A y \in w[n][f] : y = f \/ \E x \in w[n - 1][f] : y \in ToSet(inc[x])}
<1>8. 0 \in P
  OBVIOUS
<1>9. ASSUME NEW n \in 1..N, n - 1 \in P PROVE n \in P
  <2> DEFINE m == n - 1
  <2>1. SUFFICES ASSUME NEW f \in Files
                 PROVE  /\ w[m][f] \subseteq w[n][f]
                        /\ \A x \in w[m][f] : ToSet(inc[x]) \subseteq w[n][f]
                        /\ \A y \in w[n][f] : y = f \/ \E x \in w[m][f] : y \in ToSet(inc[x])
    BY <1>2
  <2>2. m \in 0..N /\ f \in w[m][f] /\ f \in w[n][f] /\ \A g \in Files : g \in w[m][g]
    BY <1>2, <1>5
  <2>3. \A g \in ToSet(inc[f]) : g \in Files /\ w[m][g] \subseteq w[n][f]
    BY <1>4, <1>6
  <2>4. \A y \in w[n][f] : y = f \/ \E g \in ToSet(inc[f]) : y \in w[m][g]
    BY <1>7
  <2>5. CASE m = 0
    <3>1. \A g \in Files : w[m][g] = {g}
      BY <1>1, <2>5
    <3> HIDE DEF m
    <3> QED
      BY <2>2, <2>3, <2>4, <3>1
  <2>6. CASE m \in 1..N
    <3> DEFINE l == m - 1
    <3>1. \A g \in Files :
            /\ w[l][g] \subseteq w[m][g]
            /\ \A x \in w[l][g] : ToSet(inc[x]) \subseteq w[m][g]
            /\ \A y \in w[m][g] : y = g \/ \E x \in w[l][g] : y \in ToSet(inc[x])
      BY <1>9, <2>6
    <3>2. \A y \in w[m][f] : y = f \/ \E g \in ToSet(inc[f]) : y \in w[l][g]
      BY <1>7, <2>6
    <3>3. \A g \in ToSet(inc[f]) : w[l][g] \subseteq w[m][f]
      BY <1>6, <2>6
    <3> HIDE DEF m, l
    <3>4. w[m][f] \subseteq w[n][f]
      BY <2>2, <2>3, <3>1, <3>2
    <3>5. ASSUME NEW x \in w[m][f] PROVE ToSet(inc[x]) \subseteq w[n][f]
      <4>1. CASE x = f
        BY <2>2, <2>3, <4>1
      <4>2. CASE \E g \in ToSet(inc[f]) : x \in w[l][g]
        BY <2>3, <3>1, <4>2
      <4> QED
        BY <3>2, <4>1, <4>2
    <3>6. ASSUME NEW y \in w[n][f], y # f PROVE \E x \in w[m][f] : y \in ToSet(inc[x])
      <4>1. PICK g \in ToSet(inc[f]) : y \in w[m][g]
        BY <2>4, <3>6
      <4>2. CASE y = g
        BY <2>2, <4>1, <4>2
      <4>3. CASE \E x \in w[l][g] : y \in ToSet(inc[x])
        BY <3>3, <4>1, <4>3
      <4> QED
        BY <2>3, <3>1, <4>1, <4>2, <4>3
    <3> QED
      BY <3>4, <3>5, <3>6
  <2> QED
    BY <1>2, <2>5, <2>6
<1> HIDE DEF P
<1>10. \A n \in 0..N : n \in P
  BY <1>8, <1>9, Induct
<1> QED
  BY <1>2, <1>5, <1>10 DEF P

\* Reach(inc)[f] is the least set with f that inc does not leave: a path to a
\* file need not be longer than there are files.
LEMMA ReachIs ==
    ASSUME NEW inc \in Includes, NEW f \in Files
    PROVE  /\ Reach(inc)[f] \subseteq Files /\ f \in Reach(inc)[f] /\ ClosedUnder(inc, Reach(inc)[f])
           /\ \A Z \in SUBSET Files : f \in Z /\ ClosedUnder(inc, Z) => Reach(inc)[f] \subseteq Z
<1> DEFINE N == Cardinality(Files)
<1>1. N \in Nat /\ IsFiniteSet(Files)
  BY LoaderAssumption, FS_CardinalityType
<1>2. PICK w : Reaches(w, inc, N) /\ Reach(inc) = w[N]
  BY ReachSteps
<1> HIDE DEF N
<1>3. /\ \A n \in 0..N, g \in Files : g \in w[n][g] /\ w[n][g] \subseteq Files
      /\ \A n \in 1..N, g \in Files : \A x \in w[n - 1][g] : ToSet(inc[x]) \subseteq w[n][g]
      /\ \A n \in 1..N, g \in Files : \A y \in w[n][g] :
            y = g \/ \E x \in w[n - 1][g] : y \in ToSet(inc[x])
      /\ \A n \in 1..N, g \in Files : w[n - 1][g] \subseteq w[n][g]
  BY <1>1, <1>2, ReachesMore
<1>4. \A n \in 1..N : n - 1 \in 0..N /\ n \in 0..N
  BY <1>1
<1>5. N \in 0..N /\ 0 \in 0..N
  BY <1>1
<1>6. \A n \in 0..N : IsFiniteSet(w[n][f]) /\ Cardinality(w[n][f]) \in Nat /\ Cardinality(w[n][f]) <= N
  <2>1. SUFFICES ASSUME NEW n \in 0..N
                 PROVE  IsFiniteSet(w[n][f]) /\ Cardinality(w[n][f]) \in Nat /\ Cardinality(w[n][f]) <= N
    OBVIOUS
  <2>2. w[n][f] \in SUBSET Files
    BY <1>3
  <2> QED
    BY <1>1, <2>2, FS_Subset, FS_CardinalityType DEF N
<1> DEFINE P == {n \in 0..N : Cardinality(w[n][f]) >= n + 1 \/ ClosedUnder(inc, w[n][f])}
<1>7. 0 \in P
  <2>1. w[0][f] = {f}
    BY <1>2 DEF Reaches
  <2>2. Cardinality({f}) = 1
    BY FS_Singleton
  <2> QED
    BY <1>5, <2>1, <2>2
<1>8. ASSUME NEW n \in 1..N, n - 1 \in P PROVE n \in P
  <2> DEFINE A == w[n - 1][f]
             B == w[n][f]
  <2>1. A \subseteq B /\ f \in A /\ IsFiniteSet(B) /\ IsFiniteSet(A)
        /\ Cardinality(A) \in Nat /\ Cardinality(B) \in Nat
    BY <1>3, <1>4, <1>6
  <2>2. /\ \A x \in A : ToSet(inc[x]) \subseteq B
        /\ \A y \in B : y = f \/ \E x \in A : y \in ToSet(inc[x])
    BY <1>3
  <2>3. Cardinality(A) >= n - 1 + 1 \/ ClosedUnder(inc, A)
    BY <1>8
  <2> HIDE DEF A, B
  <2>4. CASE ClosedUnder(inc, A)
    <3>1. A = B
      BY <2>1, <2>2, <2>4 DEF ClosedUnder
    <3> QED
      BY <1>4, <2>4, <3>1 DEF B
  <2>5. CASE ~ClosedUnder(inc, A) /\ Cardinality(A) >= n - 1 + 1
    <3>1. A # B
      BY <2>2, <2>5 DEF ClosedUnder
    <3>2. Cardinality(A) < Cardinality(B)
      BY <2>1, <3>1, FS_Subset
    <3>3. Cardinality(B) >= n + 1
      BY <2>1, <2>5, <3>2
    <3> QED
      BY <1>4, <3>3 DEF B
  <2> QED
    BY <2>3, <2>4, <2>5
<1> HIDE DEF P
<1>9. \A n \in 0..N : n \in P
  BY <1>1, <1>7, <1>8, Induct
<1>10. ClosedUnder(inc, w[N][f])
  BY <1>1, <1>5, <1>6, <1>9 DEF P
<1>11. ASSUME NEW Z \in SUBSET Files, f \in Z, ClosedUnder(inc, Z) PROVE w[N][f] \subseteq Z
  <2> DEFINE Q == {n \in 0..N : w[n][f] \subseteq Z}
  <2>1. 0 \in Q
    <3>1. w[0][f] = {f}
      BY <1>2 DEF Reaches
    <3> QED
      BY <1>5, <1>11, <3>1
  <2>2. ASSUME NEW n \in 1..N, n - 1 \in Q PROVE n \in Q
    BY <1>3, <1>4, <1>11, <2>2 DEF ClosedUnder
  <2> HIDE DEF Q
  <2>3. \A n \in 0..N : n \in Q
    BY <1>1, <2>1, <2>2, Induct
  <2> QED
    BY <1>5, <2>3 DEF Q
<1> QED
  BY <1>2, <1>3, <1>5, <1>10, <1>11

-----------------------------------------------------------------------------
(* What is in force. *)

LEMMA GreatestIn ==
    ASSUME NEW N \in Nat, NEW T \in SUBSET (1..N), T # {}
    PROVE  \E k \in T : \A j \in T : j <= k
<1> DEFINE D == {n \in Nat : \E k \in T : n = N - k}
<1>1. \A k \in T : k \in Nat /\ N - k \in Nat
  OBVIOUS
<1>2. D \in SUBSET Nat /\ D # {}
  BY <1>1
<1>3. \A n \in D : \E k \in T : n = N - k
  OBVIOUS
<1>4. \A k \in T : N - k \in D
  BY <1>1
<1> HIDE DEF D
<1>5. PICK n \in D : \A m \in D : n <= m
  BY <1>2, LeastNat
<1>6. PICK k \in T : n = N - k
  BY <1>3
<1>7. ASSUME NEW j \in T PROVE j <= k
  <2>1. N - k <= N - j
    BY <1>4, <1>5, <1>6
  <2> QED
    BY <1>1, <2>1
<1> QED
  BY <1>7

\* What f says by itself, or by what v says of its includes.
Said(inc, setting, v, f) ==
    IF f \in setting THEN f
    ELSE LET tell == {k \in DOMAIN inc[f] : v[inc[f][k]] # None}
         IN IF tell = {} THEN None
            ELSE v[inc[f][CHOOSE k \in tell : \A j \in tell : j <= k]]

SaidTold(inc, setting, v, f) ==
    LET says(k) == v[inc[f][k]]
    IN /\ f \in setting => Said(inc, setting, v, f) = f
       /\ f \notin setting /\ (\A k \in DOMAIN inc[f] : says(k) = None)
             => Said(inc, setting, v, f) = None
       /\ \A k \in DOMAIN inc[f] :
             f \notin setting /\ says(k) # None
                /\ (\A j \in DOMAIN inc[f] : j > k => says(j) = None)
             => Said(inc, setting, v, f) = says(k)
       /\ Said(inc, setting, v, f) \in {f, None} \cup {says(k) : k \in DOMAIN inc[f]}

LEMMA SaidIs ==
    ASSUME NEW inc \in Includes, NEW setting, NEW v, NEW f \in Files
    PROVE  SaidTold(inc, setting, v, f)
<1> DEFINE says(k) == v[inc[f][k]]
           D == DOMAIN inc[f]
           tell == {k \in D : says(k) # None}
           last == CHOOSE k \in tell : \A j \in tell : j <= k
<1>1. Len(inc[f]) \in Nat /\ D = 1..Len(inc[f])
  BY IncludedAreFiles
<1>2. Said(inc, setting, v, f) =
        IF f \in setting THEN f ELSE IF tell = {} THEN None ELSE says(last)
  BY Zenon DEF Said
<1> HIDE DEF D
<1>3. tell \in SUBSET D /\ \A k \in D : k \in tell <=> says(k) # None
  OBVIOUS
<1> HIDE DEF tell, says
<1>4. tell # {} => last \in tell /\ \A j \in tell : j <= last
  <2>1. tell # {} => \E k \in tell : \A j \in tell : j <= k
    BY <1>1, <1>3, GreatestIn
  <2> QED
    BY <2>1
<1> HIDE DEF last
<1>5. ASSUME NEW k \in D, says(k) # None, \A j \in D : j > k => says(j) = None
      PROVE  tell # {} /\ last = k
  <2>1. k \in tell /\ tell # {}
    BY <1>3, <1>5
  <2>2. k <= last /\ last \in D /\ ~(last > k)
    BY <1>3, <1>4, <1>5, <2>1
  <2> QED
    BY <1>1, <2>1, <2>2
<1>6. (\A k \in D : says(k) = None) => tell = {}
  BY <1>3
<1>7. tell # {} => last \in D
  BY <1>3, <1>4
<1> QED
  BY <1>2, <1>5, <1>6, <1>7 DEF says, D, SaidTold

LEMMA SaidAlike ==
    ASSUME NEW inc \in Includes, NEW setting, NEW u, NEW v, NEW f \in Files,
           \A k \in DOMAIN inc[f] : u[inc[f][k]] = v[inc[f][k]]
    PROVE  Said(inc, setting, u, f) = Said(inc, setting, v, f)
<1> DEFINE D == DOMAIN inc[f]
           tell(w) == {k \in D : w[inc[f][k]] # None}
           last(w) == CHOOSE k \in tell(w) : \A j \in tell(w) : j <= k
<1>1. \A w : Said(inc, setting, w, f) =
        IF f \in setting THEN f ELSE IF tell(w) = {} THEN None ELSE w[inc[f][last(w)]]
  BY Zenon DEF Said
<1>2. tell(u) = tell(v)
  OBVIOUS
<1>3. last(u) = last(v)
  <2> HIDE DEF tell
  <2> QED
    BY <1>2
<1>4. tell(u) # {} => last(u) \in D
  <2>1. Len(inc[f]) \in Nat /\ D = 1..Len(inc[f])
    BY IncludedAreFiles
  <2>2. tell(u) \in SUBSET D
    OBVIOUS
  <2> HIDE DEF tell, D
  <2>3. tell(u) # {} => \E k \in tell(u) : \A j \in tell(u) : j <= k
    BY <2>1, <2>2, GreatestIn
  <2> QED
    BY <2>2, <2>3
<1> HIDE DEF tell, last
<1> QED
  BY <1>1, <1>2, <1>3, <1>4

LEMMA InForceSteps ==
    ASSUME NEW inc \in Includes, NEW setting \in SUBSET Files
    PROVE  \E w : /\ w \in [0..Cardinality(Files) -> [Files -> Files \cup {None}]]
                  /\ \A n \in 1..Cardinality(Files), f \in Files :
                        w[n][f] = Said(inc, setting, w[n - 1], f)
                  /\ InForce(inc, setting) = w[Cardinality(Files)]
<1> DEFINE N == Cardinality(Files)
           Row(v, n) == [f \in Files |->
                           IF f \in setting THEN f
                           ELSE IF n = 0 THEN None
                           ELSE LET tell == {k \in DOMAIN inc[f] : v[inc[f][k]] # None}
                                IN IF tell = {} THEN None
                                   ELSE v[inc[f][CHOOSE k \in tell : \A j \in tell : j <= k]]]
           Rows(w) == w = [n \in 0..N |-> Row(w[n - 1], n)]
           S == [Files -> Files \cup {None}]
           s == [f \in Files |-> IF f \in setting THEN f ELSE None]
           F == [p \in S \X (1..N) |-> Row(p[1], p[2])]
           c == CHOOSE w : Rows(w)
<1>1. N \in Nat
  BY LoaderAssumption, FS_CardinalityType
<1>2. InForce(inc, setting) = c[N]
  BY Zenon DEF InForce
<1> HIDE DEF N
<1>3. s \in S
  OBVIOUS
<1>3a. \A v : Row(v, 0) = s
  OBVIOUS
<1>3b. \A v, n : n # 0 => Row(v, n) = [f \in Files |-> Said(inc, setting, v, f)]
  <2>1. SUFFICES ASSUME NEW v, NEW n, n # 0 PROVE Row(v, n) = [f \in Files |-> Said(inc, setting, v, f)]
    OBVIOUS
  <2> DEFINE tell(f) == {k \in DOMAIN inc[f] : v[inc[f][k]] # None}
             told(f) == IF tell(f) = {} THEN None
                        ELSE v[inc[f][CHOOSE k \in tell(f) : \A j \in tell(f) : j <= k]]
  <2>2. Row(v, n) = [f \in Files |-> IF f \in setting THEN f ELSE IF n = 0 THEN None ELSE told(f)]
    BY Zenon
  <2>3. \A f : Said(inc, setting, v, f) = IF f \in setting THEN f ELSE told(f)
    BY Zenon DEF Said
  <2> HIDE DEF told, Row
  <2> QED
    BY <2>1, <2>2, <2>3
<1> HIDE DEF Row
<1>4. \A v \in S, n \in 1..N : Row(v, n) \in S
  <2>1. SUFFICES ASSUME NEW v \in S, NEW n \in 1..N, NEW f \in Files
                 PROVE  Said(inc, setting, v, f) \in Files \cup {None}
    BY <1>1, <1>3b
  <2>2. \A k \in DOMAIN inc[f] : v[inc[f][k]] \in Files \cup {None}
    BY IncludedAreFiles
  <2> QED
    BY <2>2, SaidIs DEF SaidTold
<1> HIDE DEF s
<1>5. F \in [S \X (1..N) -> S]
  <2>1. \A p \in S \X (1..N) : Row(p[1], p[2]) \in S
    <3> HIDE DEF S
    <3> QED
      BY <1>4
  <2> HIDE DEF S
  <2> QED
    BY <2>1
<1>6. PICK w : Iterated(w, S, s, F, N)
  <2> HIDE DEF F, S
  <2> QED
    BY <1>1, <1>3, <1>5, Iterates
<1>7. /\ w \in [0..N -> S] /\ w[0] = s
      /\ \A n \in 1..N : w[n] = F[<<w[n - 1], n>>]
  BY <1>6 DEF Iterated
<1>8. \A n \in 1..N : n - 1 \in 0..N /\ n \in 0..N /\ n # 0
  BY <1>1
<1> HIDE DEF S
<1>9. \A n \in 1..N : w[n] = Row(w[n - 1], n)
  BY <1>7, <1>8
<1>10. \A n \in 0..N : w[n] = Row(w[n - 1], n)
  <2>1. w[0] = Row(w[0 - 1], 0)
    BY <1>3a, <1>7
  <2>2. \A n \in 0..N : n = 0 \/ n \in 1..N
    BY <1>1
  <2> QED
    BY <1>9, <2>1, <2>2
<1>11. Rows(w)
  <2>1. w = [n \in 0..N |-> w[n]]
    BY <1>7
  <2>2. [n \in 0..N |-> w[n]] = [n \in 0..N |-> Row(w[n - 1], n)]
    BY <1>10
  <2> QED
    BY <2>1, <2>2
<1>12. Rows(c)
  <2> HIDE DEF Rows
  <2> QED
    BY <1>11
<1>13. \A n \in 0..N : c[n] = Row(c[n - 1], n)
  <2> HIDE DEF c
  <2> QED
    BY <1>12
<1> HIDE DEF c
<1>14. \A n \in 0..N : c[n] = w[n]
  <2> DEFINE P == {n \in 0..N : c[n] = w[n]}
  <2>1. 0 \in P
    BY <1>1, <1>3a, <1>10, <1>13
  <2>2. ASSUME NEW n \in 1..N, n - 1 \in P PROVE n \in P
    BY <1>8, <1>10, <1>13, <2>2
  <2> HIDE DEF P
  <2>3. \A n \in 0..N : n \in P
    BY <1>1, <2>1, <2>2, Induct
  <2> QED
    BY <2>3 DEF P
<1>15. \A n \in 1..N, f \in Files : w[n][f] = Said(inc, setting, w[n - 1], f)
  BY <1>3b, <1>8, <1>9
<1>16. N \in 0..N
  BY <1>1
<1>17. InForce(inc, setting) = w[N]
  BY <1>2, <1>14, <1>16
<1> QED
  BY <1>7, <1>15, <1>17 DEF N, S

\* In ls every file comes once, behind what it includes.
InOrder(inc, ls) ==
    /\ \A p, q \in DOMAIN ls : ls[p] = ls[q] => p = q
    /\ \A p \in DOMAIN ls : \A k \in DOMAIN inc[ls[p]] :
          \E q \in DOMAIN ls : q < p /\ ls[q] = inc[ls[p]][k]

\* v gives every file of ls what the file says by what v gives its includes.
Agrees(inc, setting, v, ls) == \A p \in DOMAIN ls : v[ls[p]] = Said(inc, setting, v, ls[p])

\* Only what is in force agrees with the files.
LEMMA InForceIs ==
    ASSUME NEW inc \in Includes, NEW setting \in SUBSET Files, NEW ls \in Seq(Files),
           InOrder(inc, ls), NEW v, Agrees(inc, setting, v, ls)
    PROVE  \A p \in DOMAIN ls : InForce(inc, setting)[ls[p]] = v[ls[p]]
<1> DEFINE N == Cardinality(Files)
           L == Len(ls)
<1>1. N \in Nat /\ IsFiniteSet(Files)
  BY LoaderAssumption, FS_CardinalityType
<1>2. PICK w : /\ \A n \in 1..N, f \in Files : w[n][f] = Said(inc, setting, w[n - 1], f)
               /\ InForce(inc, setting) = w[N]
  BY InForceSteps
<1>3. L \in Nat /\ DOMAIN ls = 1..L /\ \A p \in 1..L : ls[p] \in Files
  OBVIOUS
<1>4. /\ \A p, q \in 1..L : ls[p] = ls[q] => p = q
      /\ \A p \in 1..L : \A k \in DOMAIN inc[ls[p]] :
            \E q \in 1..L : q < p /\ ls[q] = inc[ls[p]][k]
  BY <1>3 DEF InOrder
<1>5. L <= N
  <2> DEFINE T == {ls[p] : p \in 1..L}
             b == [p \in 1..L |-> ls[p]]
  <2>1. T \in SUBSET Files
    BY <1>3
  <2>2. b \in Bijection(1..L, T)
    <3>1. b \in [1..L -> T]
      OBVIOUS
    <3>2. \A p, q \in 1..L : b[p] = b[q] => p = q
      BY <1>4
    <3>3. \A t \in T : \E p \in 1..L : b[p] = t
      OBVIOUS
    <3> HIDE DEF b, T
    <3> QED
      BY <3>1, <3>2, <3>3, Zenon DEF Bijection, Injection, Surjection, IsInjective
  <2> HIDE DEF b, T, L, N
  <2>3. Cardinality(T) = L
    BY <1>3, <2>2, FS_CountingElements, Zenon DEF ExistsBijection
  <2>4. Cardinality(T) <= N
    BY <1>1, <2>1, FS_Subset DEF N
  <2> QED
    BY <2>3, <2>4
<1> HIDE DEF N, L
<1> DEFINE Q == {n \in 0..N : \A p \in 1..L : p <= n => w[n][ls[p]] = v[ls[p]]}
<1>6. 0 \in Q
  BY <1>1, <1>3
<1>7. ASSUME NEW n \in 1..N, n - 1 \in Q PROVE n \in Q
  <2>1. SUFFICES ASSUME NEW p \in 1..L, p <= n PROVE w[n][ls[p]] = v[ls[p]]
    BY <1>1
  <2>2. \A k \in DOMAIN inc[ls[p]] : w[n - 1][inc[ls[p]][k]] = v[inc[ls[p]][k]]
    <3>1. SUFFICES ASSUME NEW k \in DOMAIN inc[ls[p]]
                   PROVE  w[n - 1][inc[ls[p]][k]] = v[inc[ls[p]][k]]
      OBVIOUS
    <3>2. PICK q \in 1..L : q < p /\ ls[q] = inc[ls[p]][k]
      BY <1>4
    <3>3. q <= n - 1
      BY <1>1, <1>3, <2>1, <3>2
    <3>4. w[n - 1][ls[q]] = v[ls[q]]
      BY <1>7, <3>3
    <3> QED
      BY <3>2, <3>4
  <2>3. Said(inc, setting, w[n - 1], ls[p]) = Said(inc, setting, v, ls[p])
    BY <1>3, <2>2, SaidAlike
  <2>4. w[n][ls[p]] = Said(inc, setting, w[n - 1], ls[p])
    BY <1>2, <1>3
  <2>5. v[ls[p]] = Said(inc, setting, v, ls[p])
    BY <1>3 DEF Agrees
  <2> QED
    BY <2>3, <2>4, <2>5
<1> HIDE DEF Q
<1>8. \A n \in 0..N : n \in Q
  BY <1>1, <1>6, <1>7, Induct
<1>9. N \in Q /\ \A p \in 1..L : p <= N
  BY <1>1, <1>3, <1>5, <1>8
<1> QED
  BY <1>2, <1>3, <1>9 DEF Q

-----------------------------------------------------------------------------
(* The load on its way. *)

\* The k-th file being read, its next include, and the last that is loaded.
At(vis, k) == vis[k].file
Nx(vis, k) == vis[k].next
Dn(vis, k) == IF k = Len(vis) THEN Nx(vis, k) - 1 ELSE Nx(vis, k) - 2

\* Every file being read is the current include of the one before.
Chained(inc, vis) ==
    /\ vis # <<>> => At(vis, 1) = EntryFile
    /\ \A k \in DOMAIN vis : Nx(vis, k) \in 1..(Len(inc[At(vis, k)]) + 1)
    /\ \A k \in DOMAIN vis : k < Len(vis) =>
          Nx(vis, k) > 1 /\ inc[At(vis, k)][Nx(vis, k) - 1] = At(vis, k + 1)

\* No file is read twice, none that is loaded; the includes that are behind
\* are loaded.
Apart(inc, vis, ls) ==
    /\ \A j, k \in DOMAIN vis : At(vis, j) = At(vis, k) => j = k
    /\ \A k \in DOMAIN vis : At(vis, k) \notin ToSet(ls)
    /\ \A k \in DOMAIN vis : \A i \in 1..Dn(vis, k) : inc[At(vis, k)][i] \in ToSet(ls)

\* The lines of includes that were followed: those of the loaded files, and of
\* the files being read those before the next.
Followed(inc, vis, ls) ==
    (UNION {{<<g, i>> : i \in DOMAIN inc[g]} : g \in ToSet(ls)})
      \cup (UNION {{<<At(vis, k), i>> : i \in 1..(Nx(vis, k) - 1)} : k \in DOMAIN vis})

\* Each led to a file of its own, and each file but the entry has one.
LedTo(inc, T, Z) ==
    /\ \A e \in T : inc[e[1]][e[2]] \in Z \ {EntryFile}
    /\ \A e, d \in T : inc[e[1]][e[2]] = inc[d[1]][d[2]] => e = d
    /\ \A f \in Z \ {EntryFile} : \E e \in T : inc[e[1]][e[2]] = f

\* The value so far is that of the last include that has one.
LastWord(inc, vis, v, sc) ==
    LET says(k, i) == v[inc[At(vis, k)][i]]
    IN \/ sc = None /\ \A k \in DOMAIN vis : \A i \in 1..Dn(vis, k) : says(k, i) = None
       \/ \E k \in DOMAIN vis : \E i \in 1..Dn(vis, k) :
             /\ sc = says(k, i) /\ sc # None
             /\ \A h \in DOMAIN vis : \A j \in 1..Dn(vis, h) :
                   h > k \/ (h = k /\ j > i) => says(h, j) = None

Valued(inc, setting, vis, ls, sc) ==
    \E v \in [Files -> Files \cup {None}] :
        Agrees(inc, setting, v, ls) /\ LastWord(inc, vis, v, sc)

FilesIn(vis, ls) == ToSet(ls) \cup {At(vis, k) : k \in DOMAIN vis}

Built(inc, cond, setting, vis, ls, opts) ==
    /\ Chained(inc, vis)
    /\ Apart(inc, vis, ls)
    /\ InOrder(inc, ls)
    /\ \A f \in FilesIn(vis, ls) : cond[f] = "good"
    /\ FilesIn(vis, ls) \subseteq Reach(inc)[EntryFile]
    /\ LedTo(inc, Followed(inc, vis, ls), FilesIn(vis, ls))
    /\ ToSet(opts) = setting \cap ToSet(ls) /\ IsInjective(opts)

OnTheWay(inc, cond, setting, vis, ls, sc, opts) ==
    /\ vis = <<>> => ls = <<>>
    /\ Built(inc, cond, setting, vis, ls, opts)
    /\ Valued(inc, setting, vis, ls, sc)

LoaderInv ==
    /\ LoaderTypeOK
    /\ LoadsWhatFilesSay
    /\ outcome = "none" =>
          OnTheWay(includes, condition, setters, visiting, loadedFiles, scalar, list)

Stack == Seq([file : Files, next : Nat])

LEMMA StackIs ==
    ASSUME NEW vis \in Stack
    PROVE  /\ Len(vis) \in Nat /\ DOMAIN vis = 1..Len(vis)
           /\ \A k \in 1..Len(vis) : At(vis, k) \in Files /\ Nx(vis, k) \in Nat
           /\ vis # <<>> => Len(vis) \in 1..Len(vis)
           /\ \A k \in 1..Len(vis) : vis[k] \in [file : Files, next : Nat]
<1> DEFINE Rec == [file : Files, next : Nat]
<1>1. \A x \in Rec : x.file \in Files /\ x.next \in Nat
  OBVIOUS
<1>2. vis \in Seq(Rec)
  BY DEF Stack
<1> HIDE DEF Rec
<1>3. /\ Len(vis) \in Nat /\ DOMAIN vis = 1..Len(vis)
      /\ vis # <<>> => Len(vis) \in 1..Len(vis)
      /\ \A k \in 1..Len(vis) : vis[k] \in Rec
  BY <1>2
<1> QED
  BY <1>1, <1>3 DEF At, Nx, Rec

\* w is vis with g, its next include, on top.
OneMore(w, vis, g) ==
    /\ w \in Stack /\ Len(w) = Len(vis) + 1
    /\ \A k \in 1..Len(vis) : At(w, k) = At(vis, k) /\ Dn(w, k) = Dn(vis, k)
    /\ \A k \in 1..Len(vis) : Nx(w, k) = IF k = Len(vis) THEN Nx(vis, k) + 1 ELSE Nx(vis, k)
    /\ At(w, Len(w)) = g /\ Nx(w, Len(w)) = 1 /\ Dn(w, Len(w)) = 0

LEMMA Pushed ==
    ASSUME NEW vis \in Stack, vis # <<>>, NEW g \in Files
    PROVE  OneMore(Append([vis EXCEPT ![Len(vis)].next = @ + 1], [file |-> g, next |-> 1]), vis, g)
<1> DEFINE n == Len(vis)
           u == [vis EXCEPT ![n].next = @ + 1]
           r == [file |-> g, next |-> 1]
           w == Append(u, r)
           Rec == [file : Files, next : Nat]
<1>1. n \in Nat /\ DOMAIN vis = 1..n /\ n \in 1..n
  BY StackIs
<1>2. \A k \in 1..n : vis[k] \in Rec
  BY StackIs
<1>3. u = [k \in 1..n |-> IF k = n THEN [vis[k] EXCEPT !.next = @ + 1] ELSE vis[k]]
  BY <1>1
<1>4. \A x \in Rec : /\ [x EXCEPT !.next = @ + 1] \in Rec
                     /\ [x EXCEPT !.next = @ + 1].file = x.file
                     /\ [x EXCEPT !.next = @ + 1].next = x.next + 1
  OBVIOUS
<1>5. r \in Rec /\ r.file = g /\ r.next = 1
  OBVIOUS
<1> HIDE DEF Rec, r
<1>6. \A k \in 1..n : /\ u[k] \in Rec /\ u[k].file = vis[k].file
                      /\ u[k].next = IF k = n THEN vis[k].next + 1 ELSE vis[k].next
  BY <1>2, <1>3, <1>4
<1>7. u \in Seq(Rec) /\ Len(u) = n
  <2>1. DOMAIN u = 1..n
    BY <1>3
  <2>2. u = [k \in 1..n |-> u[k]]
    BY <1>3
  <2> HIDE DEF u, n
  <2> QED
    BY <1>1, <1>6, <2>1, <2>2, TableIsSeq
<1> HIDE DEF u
<1>8. /\ w \in Seq(Rec) /\ Len(w) = n + 1 /\ w[n + 1] = r
      /\ \A k \in 1..n : w[k] = u[k]
  BY <1>1, <1>5, <1>7
<1> HIDE DEF w
<1>9. \A k \in 1..n : k # n + 1
  BY <1>1
<1>10. \A k \in 1..n : At(w, k) = At(vis, k)
                       /\ Nx(w, k) = IF k = n THEN Nx(vis, k) + 1 ELSE Nx(vis, k)
  BY <1>6, <1>8 DEF At, Nx
<1>11. At(w, n + 1) = g /\ Nx(w, n + 1) = 1 /\ Dn(w, n + 1) = 0
  BY <1>5, <1>8 DEF At, Nx, Dn
<1>12. \A k \in 1..n : Dn(w, k) = Dn(vis, k)
  <2>1. SUFFICES ASSUME NEW k \in 1..n PROVE Dn(w, k) = Dn(vis, k)
    OBVIOUS
  <2>2. Nx(vis, k) \in Nat
    BY StackIs
  <2>3. Dn(w, k) = Nx(w, k) - 2
    BY <1>8, <1>9 DEF Dn
  <2> QED
    BY <1>10, <2>2, <2>3 DEF Dn
<1> QED
  BY <1>8, <1>10, <1>11, <1>12 DEF OneMore, Stack, w, u, r, Rec

\* w is vis without the file on top, its include being done.
OneLess(w, vis) ==
    /\ w \in Stack /\ Len(w) = Len(vis) - 1
    /\ \A k \in 1..(Len(vis) - 1) : At(w, k) = At(vis, k) /\ Nx(w, k) = Nx(vis, k)
    /\ \A k \in 1..(Len(vis) - 1) :
          Dn(w, k) = IF k = Len(vis) - 1 THEN Dn(vis, k) + 1 ELSE Dn(vis, k)

LEMMA Popped ==
    ASSUME NEW vis \in Stack, vis # <<>>
    PROVE  OneLess(Front(vis), vis)
<1> DEFINE n == Len(vis)
           w == Front(vis)
<1>1. n \in Nat /\ n \in 1..n
  BY StackIs
<1>2. w \in Stack /\ Len(w) = n - 1 /\ \A k \in 1..(n - 1) : w[k] = vis[k]
  <2> DEFINE Rec == [file : Files, next : Nat]
  <2>1. vis \in Seq(Rec)
    BY DEF Stack
  <2> HIDE DEF Rec
  <2>2. w \in Seq(Rec) /\ Len(w) = n - 1 /\ \A k \in 1..(n - 1) : w[k] = vis[k]
    <3>1. w = SubSeq(vis, 1, n - 1)
      BY DEF Front
    <3> DEFINE m == n - 1
    <3>2. m \in Nat /\ m <= n /\ 1 >= 1 /\ (IF 1 <= m THEN (m - 1) + 1 ELSE 0) = m
      <4> HIDE DEF n, w
      <4> QED
        BY <1>1
    <3>3. \A k \in 1..m : 1 + k - 1 = k
      BY <3>2
    <3> HIDE DEF w, m
    <3>4. /\ w \in Seq(Rec) /\ Len(w) = IF 1 <= m THEN m - 1 + 1 ELSE 0
          /\ \A k \in 1..Len(w) : w[k] = vis[1 + k - 1]
      BY <2>1, <3>1, <3>2, SubSeqIs DEF m
    <3> QED
      BY <3>2, <3>3, <3>4 DEF m
  <2> QED
    BY <2>2 DEF Stack, Rec
<1> HIDE DEF w
<1>3. \A k \in 1..(n - 1) : At(w, k) = At(vis, k) /\ Nx(w, k) = Nx(vis, k)
  BY <1>2 DEF At, Nx
<1>4. ASSUME NEW k \in 1..(n - 1) PROVE Dn(w, k) = IF k = n - 1 THEN Dn(vis, k) + 1 ELSE Dn(vis, k)
  <2>1. k # n /\ k \in 1..n
    BY <1>1
  <2>2. Nx(vis, k) \in Nat
    BY <2>1, StackIs
  <2>3. Dn(vis, k) = Nx(vis, k) - 2
    BY <2>1 DEF Dn
  <2>4. Dn(w, k) = IF k = n - 1 THEN Nx(vis, k) - 1 ELSE Nx(vis, k) - 2
    BY <1>2, <1>3 DEF Dn
  <2> QED
    BY <2>2, <2>3, <2>4
<1> QED
  BY <1>2, <1>3, <1>4 DEF OneLess, w

WasFollowed(inc, vis, ls, e) ==
    \/ \E g \in ToSet(ls) : \E i \in DOMAIN inc[g] : e = <<g, i>>
    \/ \E k \in 1..Len(vis) : \E i \in 1..(Nx(vis, k) - 1) : e = <<At(vis, k), i>>

LEMMA FollowedIs ==
    ASSUME NEW inc, NEW vis \in Stack, NEW ls
    PROVE  \A e : e \in Followed(inc, vis, ls) <=> WasFollowed(inc, vis, ls, e)
<1>0. SUFFICES ASSUME NEW e PROVE e \in Followed(inc, vis, ls) <=> WasFollowed(inc, vis, ls, e)
  OBVIOUS
<1>1. DOMAIN vis = 1..Len(vis)
  BY StackIs
<1> DEFINE A == UNION {{<<g, i>> : i \in DOMAIN inc[g]} : g \in ToSet(ls)}
           B == UNION {{<<At(vis, k), i>> : i \in 1..(Nx(vis, k) - 1)} : k \in DOMAIN vis}
<1>2. e \in A <=> \E g \in ToSet(ls) : \E i \in DOMAIN inc[g] : e = <<g, i>>
  OBVIOUS
<1>3. e \in B <=> \E k \in 1..Len(vis) : \E i \in 1..(Nx(vis, k) - 1) : e = <<At(vis, k), i>>
  BY <1>1
<1>4. Followed(inc, vis, ls) = A \cup B
  BY Zenon DEF Followed
<1> HIDE DEF A, B
<1> QED
  BY <1>2, <1>3, <1>4 DEF WasFollowed

LEMMA FilesInIs ==
    ASSUME NEW vis \in Stack, NEW ls, NEW f
    PROVE  f \in FilesIn(vis, ls) <=> f \in ToSet(ls) \/ \E k \in 1..Len(vis) : f = At(vis, k)
<1>1. DOMAIN vis = 1..Len(vis)
  BY StackIs
<1> QED
  BY <1>1, Zenon DEF FilesIn

\* A file that was not seen goes on top.
LEMMA PushedBuilt ==
    ASSUME NEW inc \in Includes, NEW cond, NEW setting, NEW vis \in Stack, NEW ls \in Seq(Files),
           NEW opts, NEW g, NEW w, vis # <<>>,
           Built(inc, cond, setting, vis, ls, opts),
           LET f == At(vis, Len(vis))
               i == Nx(vis, Len(vis))
           IN i \in DOMAIN inc[f] /\ inc[f][i] = g,
           g \notin FilesIn(vis, ls), cond[g] = "good", OneMore(w, vis, g)
    PROVE  Built(inc, cond, setting, w, ls, opts)
<1> DEFINE n == Len(vis)
           f == At(vis, n)
           i == Nx(vis, n)
           e == <<f, i>>
<1>1. n \in Nat /\ DOMAIN vis = 1..n /\ n \in 1..n /\ (\A k \in 1..n : At(vis, k) \in Files /\ Nx(vis, k) \in Nat)
  BY StackIs
<1>2. /\ Chained(inc, vis) /\ Apart(inc, vis, ls) /\ InOrder(inc, ls)
      /\ \A x \in FilesIn(vis, ls) : cond[x] = "good"
      /\ FilesIn(vis, ls) \subseteq Reach(inc)[EntryFile]
      /\ LedTo(inc, Followed(inc, vis, ls), FilesIn(vis, ls))
      /\ ToSet(opts) = setting \cap ToSet(ls) /\ IsInjective(opts)
  BY DEF Built
<1>3. /\ w \in Stack /\ Len(w) = n + 1
      /\ \A k \in 1..n : At(w, k) = At(vis, k) /\ Dn(w, k) = Dn(vis, k)
      /\ \A k \in 1..n : Nx(w, k) = IF k = n THEN Nx(vis, k) + 1 ELSE Nx(vis, k)
      /\ At(w, n + 1) = g /\ Nx(w, n + 1) = 1 /\ Dn(w, n + 1) = 0
  BY DEF OneMore
<1>4. DOMAIN w = 1..(n + 1)
  BY <1>3, StackIs
<1>5. i \in DOMAIN inc[f] /\ inc[f][i] = g /\ f \in Files /\ i \in Nat
  BY <1>1
<1>6. Len(inc[f]) \in Nat /\ DOMAIN inc[f] = 1..Len(inc[f]) /\ g \in Files
  BY <1>5, IncludedAreFiles
<1>7. EntryFile \in FilesIn(vis, ls) /\ f \in FilesIn(vis, ls)
  <2>1. At(vis, 1) = EntryFile /\ 1 \in 1..n
    BY <1>1, <1>2 DEF Chained
  <2> HIDE DEF n
  <2> QED
    BY <1>1, <2>1, FilesInIs DEF n
<1>8. \A x : x \in FilesIn(vis, ls) <=> x \in ToSet(ls) \/ \E k \in 1..n : x = At(vis, k)
  BY FilesInIs
<1>9. \A x : x \in Followed(inc, vis, ls) <=>
              \/ \E h \in ToSet(ls) : \E j \in DOMAIN inc[h] : x = <<h, j>>
              \/ \E k \in 1..n : \E j \in 1..(Nx(vis, k) - 1) : x = <<At(vis, k), j>>
  BY FollowedIs DEF WasFollowed
<1>10. \A x : x \in FilesIn(w, ls) <=> x \in ToSet(ls) \/ \E k \in 1..(n + 1) : x = At(w, k)
  BY <1>3, FilesInIs
<1>11. \A x : x \in Followed(inc, w, ls) <=>
              \/ \E h \in ToSet(ls) : \E j \in DOMAIN inc[h] : x = <<h, j>>
              \/ \E k \in 1..(n + 1) : \E j \in 1..(Nx(w, k) - 1) : x = <<At(w, k), j>>
  BY <1>3, FollowedIs DEF WasFollowed
<1> HIDE DEF n, f, i
<1>12. /\ \A k \in 1..(n + 1) : k \in 1..n \/ k = n + 1
       /\ \A k \in 1..n : k \in 1..(n + 1) /\ k # n + 1
       /\ n + 1 \in 1..(n + 1)
  BY <1>1
<1>13. \A x : x \in FilesIn(w, ls) <=> x \in FilesIn(vis, ls) \/ x = g
  BY <1>3, <1>8, <1>10, <1>12
<1>14. \A x : x \in Followed(inc, w, ls) <=> x \in Followed(inc, vis, ls) \/ x = e
  <2>1. ASSUME NEW x, NEW k \in 1..n, NEW j \in 1..(Nx(w, k) - 1), x = <<At(w, k), j>>
        PROVE  x = e \/ \E l \in 1..n : \E m \in 1..(Nx(vis, l) - 1) : x = <<At(vis, l), m>>
    <3>1. CASE k = n /\ j = i
      BY <1>3, <2>1, <3>1 DEF f
    <3>2. CASE k # n \/ j # i
      <4>1. j \in 1..(Nx(vis, k) - 1)
        BY <1>1, <1>3, <3>2 DEF i
      <4> QED
        BY <1>3, <2>1, <4>1
    <3> QED
      BY <3>1, <3>2
  <2>2. ASSUME NEW j \in 1..(Nx(w, n + 1) - 1) PROVE FALSE
    BY <1>3
  <2>3. ASSUME NEW x, NEW k \in 1..n, NEW j \in 1..(Nx(vis, k) - 1), x = <<At(vis, k), j>>
        PROVE  \E m \in 1..(Nx(w, k) - 1) : x = <<At(w, k), m>>
    <3>1. j \in 1..(Nx(w, k) - 1)
      BY <1>1, <1>3, SMTT(30)
    <3> QED
      BY <1>3, <2>3, <3>1
  <2>4. i \in 1..(Nx(w, n) - 1) /\ e = <<At(w, n), i>>
    BY <1>1, <1>3, <1>5, <1>6 DEF f, i
  <2> HIDE DEF e
  <2>5. ASSUME NEW x \in Followed(inc, w, ls) PROVE x \in Followed(inc, vis, ls) \/ x = e
    BY <1>9, <1>11, <1>12, <2>1, <2>2
  <2>6. ASSUME NEW x \in Followed(inc, vis, ls) PROVE x \in Followed(inc, w, ls)
    BY <1>9, <1>11, <1>12, <2>3
  <2>7. e \in Followed(inc, w, ls)
    BY <1>1, <1>11, <1>12, <2>4
  <2> QED
    BY <2>5, <2>6, <2>7
<1> DEFINE T == Followed(inc, vis, ls)
           Z == FilesIn(vis, ls)
<1>15. Chained(inc, w)
  <2>1. At(w, 1) = EntryFile
    BY <1>1, <1>2, <1>3 DEF Chained
  <2>2. ASSUME NEW k \in 1..(n + 1) PROVE Nx(w, k) \in 1..(Len(inc[At(w, k)]) + 1)
    <3>1. CASE k = n + 1
      <4>1. Len(inc[g]) \in Nat
        BY <1>6, IncludedAreFiles
      <4> QED
        BY <1>3, <3>1, <4>1
    <3>2. CASE k = n
      BY <1>1, <1>3, <1>5, <1>6, <3>2 DEF f, i
    <3>3. CASE k \in 1..n /\ k # n
      BY <1>1, <1>2, <1>3, <3>3 DEF Chained
    <3> QED
      BY <1>12, <3>1, <3>2, <3>3
  <2>3. ASSUME NEW k \in 1..(n + 1), k < n + 1
        PROVE  Nx(w, k) > 1 /\ inc[At(w, k)][Nx(w, k) - 1] = At(w, k + 1)
    <3>1. CASE k = n
      <4>1. Nx(w, n) = i + 1 /\ i >= 1 /\ At(w, n) = f /\ At(w, n + 1) = g
        BY <1>1, <1>3, <1>5, <1>6 DEF f, i
      <4>2. i + 1 - 1 = i /\ i + 1 > 1
        BY <1>5, <4>1
      <4> QED
        BY <1>5, <3>1, <4>1, <4>2
    <3>2. CASE k # n
      <4>1. k \in 1..n /\ k + 1 \in 1..n /\ k < n
        BY <1>1, <2>3, <3>2
      <4>2. Nx(vis, k) > 1 /\ inc[At(vis, k)][Nx(vis, k) - 1] = At(vis, k + 1)
        BY <1>1, <1>2, <4>1 DEF Chained, n
      <4> QED
        BY <1>3, <3>2, <4>1, <4>2
    <3> QED
      BY <3>1, <3>2
  <2> QED
    BY <1>3, <1>4, <2>1, <2>2, <2>3 DEF Chained
<1>16. Apart(inc, w, ls)
  <2>1. \A j, k \in 1..n : At(vis, j) = At(vis, k) => j = k
    BY <1>1, <1>2 DEF Apart
  <2>2. \A k \in 1..n : At(vis, k) \notin ToSet(ls)
    BY <1>1, <1>2 DEF Apart
  <2>3. \A k \in 1..n : \A j \in 1..Dn(vis, k) : inc[At(vis, k)][j] \in ToSet(ls)
    BY <1>1, <1>2 DEF Apart
  <2>4. g \notin ToSet(ls) /\ \A k \in 1..n : g # At(vis, k)
    BY <1>8
  <2>5. \A j, k \in 1..(n + 1) : At(w, j) = At(w, k) => j = k
    BY <1>3, <1>12, <2>1, <2>4
  <2>6. \A k \in 1..(n + 1) : At(w, k) \notin ToSet(ls)
    BY <1>3, <1>12, <2>2, <2>4
  <2>7. ASSUME NEW k \in 1..(n + 1), NEW j \in 1..Dn(w, k) PROVE inc[At(w, k)][j] \in ToSet(ls)
    <3>1. k # n + 1
      BY <1>3
    <3> QED
      BY <1>3, <1>12, <2>3, <3>1
  <2> QED
    BY <1>4, <2>5, <2>6, <2>7 DEF Apart
<1>17. \A x \in FilesIn(w, ls) : cond[x] = "good"
  BY <1>2, <1>13
<1>18. FilesIn(w, ls) \subseteq Reach(inc)[EntryFile]
  <2>1. f \in Reach(inc)[EntryFile]
    BY <1>2, <1>7
  <2>2. g \in ToSet(inc[f])
    <3>1. ToSet(inc[f]) = {inc[f][k] : k \in DOMAIN inc[f]}
      BY <1>5, IncludedAreFiles
    <3> QED
      BY <1>5, <3>1
  <2>3. g \in Reach(inc)[EntryFile]
    BY <2>1, <2>2, ReachIs, LoaderAssumption DEF ClosedUnder
  <2> QED
    BY <1>2, <1>13, <2>3
<1>19. LedTo(inc, Followed(inc, w, ls), FilesIn(w, ls))
  <2>1. /\ \A x \in T : inc[x[1]][x[2]] \in Z \ {EntryFile}
        /\ \A x, y \in T : inc[x[1]][x[2]] = inc[y[1]][y[2]] => x = y
        /\ \A z \in Z \ {EntryFile} : \E x \in T : inc[x[1]][x[2]] = z
    BY <1>2 DEF LedTo
  <2>2. inc[e[1]][e[2]] = g /\ g \notin Z /\ EntryFile \in Z
    BY <1>5, <1>7
  <2> HIDE DEF e, T, Z
  <2>3. \A x : x \in Followed(inc, w, ls) <=> x \in T \/ x = e
    BY <1>14 DEF T
  <2>4. \A x : x \in FilesIn(w, ls) <=> x \in Z \/ x = g
    BY <1>13 DEF Z
  <2> QED
    BY <2>1, <2>2, <2>3, <2>4 DEF LedTo
<1> QED
  BY <1>2, <1>15, <1>16, <1>17, <1>18, <1>19 DEF Built

LEMMA PushedValue ==
    ASSUME NEW inc \in Includes, NEW setting, NEW vis \in Stack, NEW ls, NEW sc, NEW g, NEW w,
           Valued(inc, setting, vis, ls, sc), OneMore(w, vis, g)
    PROVE  Valued(inc, setting, w, ls, sc)
<1> DEFINE n == Len(vis)
<1>1. n \in Nat /\ DOMAIN vis = 1..n
  BY StackIs
<1>2. /\ w \in Stack /\ Len(w) = n + 1
      /\ \A k \in 1..n : At(w, k) = At(vis, k) /\ Dn(w, k) = Dn(vis, k)
      /\ Dn(w, n + 1) = 0
  BY DEF OneMore
<1>3. DOMAIN w = 1..(n + 1)
  BY <1>2, StackIs
<1>4. PICK v \in [Files -> Files \cup {None}] :
         Agrees(inc, setting, v, ls) /\ LastWord(inc, vis, v, sc)
  BY DEF Valued
<1> HIDE DEF n
<1>5. /\ \A k \in 1..(n + 1) : k \in 1..n \/ k = n + 1
      /\ \A k \in 1..n : k \in 1..(n + 1)
      /\ \A j \in 1..Dn(w, n + 1) : FALSE
  BY <1>1, <1>2
<1>6. CASE sc = None /\ \A k \in 1..n : \A i \in 1..Dn(vis, k) : v[inc[At(vis, k)][i]] = None
  <2>1. \A k \in 1..(n + 1) : \A i \in 1..Dn(w, k) : v[inc[At(w, k)][i]] = None
    BY <1>2, <1>5, <1>6
  <2>2. LastWord(inc, w, v, sc)
    BY <1>3, <1>6, <2>1 DEF LastWord
  <2> QED
    BY <1>4, <2>2 DEF Valued
<1>7. ASSUME NEW k \in 1..n, NEW i \in 1..Dn(vis, k), sc = v[inc[At(vis, k)][i]], sc # None,
             \A h \in 1..n : \A j \in 1..Dn(vis, h) :
                h > k \/ (h = k /\ j > i) => v[inc[At(vis, h)][j]] = None
      PROVE  Valued(inc, setting, w, ls, sc)
  <2>1. k \in 1..(n + 1) /\ i \in 1..Dn(w, k) /\ sc = v[inc[At(w, k)][i]]
    BY <1>2, <1>5, <1>7
  <2>2. \A h \in 1..(n + 1) : \A j \in 1..Dn(w, h) :
           h > k \/ (h = k /\ j > i) => v[inc[At(w, h)][j]] = None
    BY <1>2, <1>5, <1>7
  <2>3. LastWord(inc, w, v, sc)
    BY <1>3, <1>7, <2>1, <2>2 DEF LastWord
  <2> QED
    BY <1>4, <2>3 DEF Valued
<1>8. \/ sc = None /\ \A k \in 1..n : \A i \in 1..Dn(vis, k) : v[inc[At(vis, k)][i]] = None
      \/ \E k \in 1..n : \E i \in 1..Dn(vis, k) :
            /\ sc = v[inc[At(vis, k)][i]] /\ sc # None
            /\ \A h \in 1..n : \A j \in 1..Dn(vis, h) :
                  h > k \/ (h = k /\ j > i) => v[inc[At(vis, h)][j]] = None
  BY <1>1, <1>4, SMTT(30) DEF LastWord
<1> QED
  BY <1>6, <1>7, <1>8

LEMMA AppendedSet ==
    ASSUME NEW S, NEW s \in Seq(S), NEW e \in S
    PROVE  /\ Append(s, e) \in Seq(S) /\ \A x : x \in ToSet(Append(s, e)) <=> x \in ToSet(s) \/ x = e
           /\ e \notin ToSet(s) /\ IsInjective(s) => IsInjective(Append(s, e))
<1> DEFINE a == Append(s, e)
           n == Len(s)
<1>1. /\ n \in Nat /\ DOMAIN s = 1..n /\ DOMAIN a = 1..(n + 1) /\ a \in Seq(S)
      /\ \A k \in 1..n : a[k] = s[k]
      /\ a[n + 1] = e
  OBVIOUS
<1> HIDE DEF a, n
<1>2. /\ \A k \in 1..(n + 1) : k \in 1..n \/ k = n + 1
      /\ \A k \in 1..n : k \in 1..(n + 1)
      /\ n + 1 \in 1..(n + 1)
  BY <1>1
<1>3. \A x : x \in ToSet(s) <=> \E k \in 1..n : x = s[k]
  BY <1>1 DEF ToSet
<1>4. \A x : x \in ToSet(a) <=> \E k \in 1..(n + 1) : x = a[k]
  BY <1>1 DEF ToSet
<1>5. \A x : x \in ToSet(a) <=> x \in ToSet(s) \/ x = e
  BY <1>1, <1>2, <1>3, <1>4
<1>6. ASSUME e \notin ToSet(s), IsInjective(s) PROVE IsInjective(a)
  <2>1. \A j, k \in 1..n : s[j] = s[k] => j = k
    BY <1>1, <1>6 DEF IsInjective
  <2>2. \A k \in 1..n : s[k] # e
    BY <1>3, <1>6
  <2>3. \A j, k \in 1..(n + 1) : a[j] = a[k] => j = k
    BY <1>1, <1>2, <2>1, <2>2
  <2> QED
    BY <1>1, <2>3 DEF IsInjective
<1> QED
  BY <1>1, <1>5, <1>6 DEF a

\* What there is to say of the n-th file, f, when its includes are done.
TopTold(inc, vis, ls, n, f) ==
    /\ n \in Nat /\ n \in 1..n /\ DOMAIN vis = 1..n
    /\ \A k \in 1..n : At(vis, k) \in Files /\ Nx(vis, k) \in Nat
    /\ f \in Files /\ f \notin ToSet(ls)
    /\ Len(inc[f]) \in Nat /\ DOMAIN inc[f] = 1..Len(inc[f])
    /\ Nx(vis, n) = Len(inc[f]) + 1 /\ Dn(vis, n) = Len(inc[f])
    /\ \A i \in DOMAIN inc[f] : inc[f][i] \in ToSet(ls)

LEMMA TopDone ==
    ASSUME NEW inc \in Includes, NEW cond, NEW setting, NEW vis \in Stack, NEW ls \in Seq(Files),
           NEW opts, vis # <<>>, Built(inc, cond, setting, vis, ls, opts),
           NEW n, n = Len(vis), NEW f, f = At(vis, n), Nx(vis, n) > Len(inc[f])
    PROVE  TopTold(inc, vis, ls, n, f)
<1>1. n \in Nat /\ DOMAIN vis = 1..n /\ n \in 1..n /\ (\A k \in 1..n : At(vis, k) \in Files /\ Nx(vis, k) \in Nat)
  BY StackIs
<1>2. Len(inc[f]) \in Nat /\ DOMAIN inc[f] = 1..Len(inc[f])
  BY <1>1, IncludedAreFiles
<1>3. Nx(vis, n) \in 1..(Len(inc[f]) + 1)
  BY <1>1 DEF Built, Chained
<1>4. Nx(vis, n) = Len(inc[f]) + 1
  BY <1>1, <1>2, <1>3
<1>5. Dn(vis, n) = Len(inc[f])
  BY <1>2, <1>4 DEF Dn
<1>6. f \notin ToSet(ls) /\ \A i \in 1..Dn(vis, n) : inc[f][i] \in ToSet(ls)
  BY <1>1 DEF Built, Apart
<1> QED
  BY <1>1, <1>2, <1>4, <1>5, <1>6 DEF TopTold

\* The file on top is applied.
LEMMA AppliedBuilt ==
    ASSUME NEW inc \in Includes, NEW cond, NEW setting, NEW vis \in Stack, NEW ls \in Seq(Files),
           NEW opts \in Seq(Files), vis # <<>>, Built(inc, cond, setting, vis, ls, opts),
           NEW n, n = Len(vis), NEW f, f = At(vis, n), Nx(vis, n) > Len(inc[f]),
           NEW w, OneLess(w, vis)
    PROVE  Built(inc, cond, setting, w, Append(ls, f), IF f \in setting THEN Append(opts, f) ELSE opts)
<1> DEFINE l == Append(ls, f)
           o == IF f \in setting THEN Append(opts, f) ELSE opts
<1>1. /\ n \in Nat /\ n \in 1..n /\ DOMAIN vis = 1..n
      /\ \A k \in 1..n : At(vis, k) \in Files /\ Nx(vis, k) \in Nat
      /\ f \in Files /\ f \notin ToSet(ls)
      /\ Len(inc[f]) \in Nat /\ DOMAIN inc[f] = 1..Len(inc[f])
      /\ Nx(vis, n) = Len(inc[f]) + 1 /\ Dn(vis, n) = Len(inc[f])
      /\ \A i \in DOMAIN inc[f] : inc[f][i] \in ToSet(ls)
  <2> HIDE DEF l, o
  <2>1. TopTold(inc, vis, ls, n, f)
    BY TopDone
  <2> QED
    BY <2>1 DEF TopTold
<1>2. /\ Chained(inc, vis) /\ Apart(inc, vis, ls) /\ InOrder(inc, ls)
      /\ \A x \in FilesIn(vis, ls) : cond[x] = "good"
      /\ FilesIn(vis, ls) \subseteq Reach(inc)[EntryFile]
      /\ LedTo(inc, Followed(inc, vis, ls), FilesIn(vis, ls))
      /\ ToSet(opts) = setting \cap ToSet(ls) /\ IsInjective(opts)
  BY DEF Built
<1>3. /\ w \in Stack /\ Len(w) = n - 1
      /\ \A k \in 1..(n - 1) : At(w, k) = At(vis, k) /\ Nx(w, k) = Nx(vis, k)
      /\ \A k \in 1..(n - 1) : Dn(w, k) = IF k = n - 1 THEN Dn(vis, k) + 1 ELSE Dn(vis, k)
  BY DEF OneLess
<1>4. DOMAIN w = 1..(n - 1)
  BY <1>3, StackIs
<1>5. /\ \A k \in 1..n : k \in 1..(n - 1) \/ k = n
      /\ \A k \in 1..(n - 1) : k \in 1..n /\ k # n
  BY <1>1
<1>6. l \in Seq(Files) /\ \A x : x \in ToSet(l) <=> x \in ToSet(ls) \/ x = f
  BY <1>1, AppendedSet
<1>7. \A x : x \in FilesIn(vis, ls) <=> x \in ToSet(ls) \/ \E k \in 1..n : x = At(vis, k)
  BY FilesInIs
<1>8. \A x : x \in Followed(inc, vis, ls) <=>
              \/ \E h \in ToSet(ls) : \E j \in DOMAIN inc[h] : x = <<h, j>>
              \/ \E k \in 1..n : \E j \in 1..(Nx(vis, k) - 1) : x = <<At(vis, k), j>>
  BY FollowedIs DEF WasFollowed
<1> HIDE DEF l
<1>9. \A x : x \in FilesIn(w, l) <=> x \in ToSet(l) \/ \E k \in 1..(n - 1) : x = At(w, k)
  BY <1>3, FilesInIs
<1>10. \A x : x \in Followed(inc, w, l) <=>
              \/ \E h \in ToSet(l) : \E j \in DOMAIN inc[h] : x = <<h, j>>
              \/ \E k \in 1..(n - 1) : \E j \in 1..(Nx(w, k) - 1) : x = <<At(w, k), j>>
  <2>1. w \in Stack
    BY <1>3
  <2>2. \A x : x \in Followed(inc, w, l) <=> WasFollowed(inc, w, l, x)
    BY <2>1, FollowedIs
  <2> QED
    BY <1>3, <2>2 DEF WasFollowed
<1>11. FilesIn(w, l) = FilesIn(vis, ls)
  <2>1. \A x : (\E k \in 1..n : x = At(vis, k)) <=> x = f \/ \E k \in 1..(n - 1) : x = At(w, k)
    BY <1>1, <1>3, <1>5
  <2>2. \A x : x \in FilesIn(w, l) <=> x \in FilesIn(vis, ls)
    BY <1>6, <1>7, <1>9, <2>1
  <2> QED
    BY <2>2
<1>12. Followed(inc, w, l) = Followed(inc, vis, ls)
  <2>1. Nx(vis, n) - 1 = Len(inc[f])
    BY <1>1
  <2>2. \A x : (\E j \in 1..(Nx(vis, n) - 1) : x = <<At(vis, n), j>>) <=> \E j \in DOMAIN inc[f] : x = <<f, j>>
    BY <1>1, <2>1
  <2>3. \A x : (\E k \in 1..n : \E j \in 1..(Nx(vis, k) - 1) : x = <<At(vis, k), j>>) <=>
                 \/ \E j \in DOMAIN inc[f] : x = <<f, j>>
                 \/ \E k \in 1..(n - 1) : \E j \in 1..(Nx(w, k) - 1) : x = <<At(w, k), j>>
    <3>1. ASSUME NEW x, NEW k \in 1..n, NEW j \in 1..(Nx(vis, k) - 1), x = <<At(vis, k), j>>
          PROVE  \/ \E i \in DOMAIN inc[f] : x = <<f, i>>
                 \/ \E h \in 1..(n - 1) : \E i \in 1..(Nx(w, h) - 1) : x = <<At(w, h), i>>
      <4>1. CASE k = n
        BY <2>2, <3>1, <4>1
      <4>2. CASE k # n
        <5>1. k \in 1..(n - 1) /\ j \in 1..(Nx(w, k) - 1) /\ x = <<At(w, k), j>>
          BY <1>3, <1>5, <3>1, <4>2
        <5> QED
          BY <5>1
      <4> QED
        BY <4>1, <4>2
    <3>2. ASSUME NEW x, NEW k \in 1..(n - 1), NEW j \in 1..(Nx(w, k) - 1), x = <<At(w, k), j>>
          PROVE  \E h \in 1..n : \E i \in 1..(Nx(vis, h) - 1) : x = <<At(vis, h), i>>
      <4>1. k \in 1..n /\ j \in 1..(Nx(vis, k) - 1) /\ x = <<At(vis, k), j>>
        BY <1>3, <1>5, <3>2
      <4> QED
        BY <4>1
    <3>3. ASSUME NEW x, \E j \in DOMAIN inc[f] : x = <<f, j>>
          PROVE  \E h \in 1..n : \E i \in 1..(Nx(vis, h) - 1) : x = <<At(vis, h), i>>
      BY <1>1, <2>2, <3>3
    <3> QED
      BY <3>1, <3>2, <3>3
  <2>4. \A x : (\E h \in ToSet(l) : \E j \in DOMAIN inc[h] : x = <<h, j>>) <=>
                 \/ \E h \in ToSet(ls) : \E j \in DOMAIN inc[h] : x = <<h, j>>
                 \/ \E j \in DOMAIN inc[f] : x = <<f, j>>
    BY <1>6
  <2>5. \A x : x \in Followed(inc, w, l) <=> x \in Followed(inc, vis, ls)
    BY <1>8, <1>10, <2>3, <2>4
  <2> QED
    BY <2>5
<1>13. Chained(inc, w)
  <2>1. w # <<>> => At(w, 1) = EntryFile
    <3>1. w # <<>> => 1 \in 1..(n - 1)
      <4>1. w # <<>> => Len(w) \in 1..Len(w) /\ Len(w) \in Nat
        BY <1>3, StackIs
      <4> QED
        BY <1>3, <4>1
    <3> QED
      BY <1>1, <1>2, <1>3, <3>1 DEF Chained
  <2>2. \A k \in 1..(n - 1) : Nx(w, k) \in 1..(Len(inc[At(w, k)]) + 1)
    BY <1>1, <1>2, <1>3, <1>5 DEF Chained
  <2>3. ASSUME NEW k \in 1..(n - 1), k < n - 1
        PROVE  Nx(w, k) > 1 /\ inc[At(w, k)][Nx(w, k) - 1] = At(w, k + 1)
    <3>1. k \in 1..n /\ k < n /\ k + 1 \in 1..(n - 1)
      BY <1>1, <2>3
    <3>2. Nx(vis, k) > 1 /\ inc[At(vis, k)][Nx(vis, k) - 1] = At(vis, k + 1)
      BY <1>1, <1>2, <3>1 DEF Chained
    <3> QED
      BY <1>3, <3>1, <3>2
  <2> QED
    BY <1>3, <1>4, <2>1, <2>2, <2>3 DEF Chained
<1>14. Apart(inc, w, l)
  <2>1. \A j, k \in 1..n : At(vis, j) = At(vis, k) => j = k
    BY <1>1, <1>2 DEF Apart
  <2>2. \A k \in 1..n : At(vis, k) \notin ToSet(ls)
    BY <1>1, <1>2 DEF Apart
  <2>3. \A k \in 1..n : \A j \in 1..Dn(vis, k) : inc[At(vis, k)][j] \in ToSet(ls)
    BY <1>1, <1>2 DEF Apart
  <2>4. \A k \in 1..(n - 1) : At(vis, k) # f
    BY <1>1, <1>5, <2>1
  <2>5. \A j, k \in 1..(n - 1) : At(w, j) = At(w, k) => j = k
    BY <1>3, <1>5, <2>1
  <2>6. \A k \in 1..(n - 1) : At(w, k) \notin ToSet(l)
    BY <1>3, <1>5, <1>6, <2>2, <2>4
  <2>7. ASSUME NEW k \in 1..(n - 1), NEW j \in 1..Dn(w, k) PROVE inc[At(w, k)][j] \in ToSet(l)
    <3>1. CASE j \in 1..Dn(vis, k)
      BY <1>3, <1>5, <1>6, <2>3, <3>1
    <3>2. CASE j \notin 1..Dn(vis, k)
      <4>1. k \in 1..n /\ k < n /\ k + 1 = n /\ Dn(vis, k) = Nx(vis, k) - 2
        <5>1. k = n - 1
          BY <1>3, <2>7, <3>2
        <5>2. k \in 1..n /\ k < n /\ k + 1 = n
          BY <1>1, <5>1
        <5> QED
          BY <1>1, <5>2 DEF Dn
      <4>2. Nx(vis, k) > 1 /\ inc[At(vis, k)][Nx(vis, k) - 1] = f
        BY <1>1, <1>2, <4>1 DEF Chained
      <4>3. j = Nx(vis, k) - 1
        <5>1. Nx(vis, k) \in Nat /\ Dn(w, k) = Dn(vis, k) + 1
          BY <1>1, <1>3, <4>1
        <5> QED
          BY <2>7, <3>2, <4>1, <4>2, <5>1
      <4> QED
        BY <1>3, <1>6, <4>2, <4>3
    <3> QED
      BY <3>1, <3>2
  <2> QED
    BY <1>4, <2>5, <2>6, <2>7 DEF Apart
<1>15. InOrder(inc, l)
  <2>1. /\ Len(ls) \in Nat /\ DOMAIN ls = 1..Len(ls) /\ DOMAIN l = 1..(Len(ls) + 1)
        /\ (\A k \in 1..Len(ls) : l[k] = ls[k]) /\ l[Len(ls) + 1] = f
    BY <1>1 DEF l
  <2> DEFINE m == Len(ls)
  <2>2. \A x : x \in ToSet(ls) <=> \E q \in 1..m : x = ls[q]
    BY <2>1 DEF ToSet
  <2>3. /\ \A p, q \in 1..m : ls[p] = ls[q] => p = q
        /\ \A p \in 1..m : \A k \in DOMAIN inc[ls[p]] : \E q \in 1..m : q < p /\ ls[q] = inc[ls[p]][k]
    <3>1. /\ \A p, q \in DOMAIN ls : ls[p] = ls[q] => p = q
          /\ \A p \in DOMAIN ls : \A k \in DOMAIN inc[ls[p]] :
                \E q \in DOMAIN ls : q < p /\ ls[q] = inc[ls[p]][k]
      BY <1>2 DEF InOrder
    <3>2. DOMAIN ls = 1..m
      BY <2>1
    <3> HIDE DEF m
    <3> QED
      BY <3>1, <3>2
  <2> HIDE DEF m
  <2>4. /\ m \in Nat /\ DOMAIN l = 1..(m + 1) /\ (\A k \in 1..m : l[k] = ls[k]) /\ l[m + 1] = f
    BY <2>1 DEF m
  <2>5. /\ \A k \in 1..(m + 1) : k \in 1..m \/ k = m + 1
        /\ \A k \in 1..m : k \in 1..(m + 1) /\ k < m + 1
    BY <2>4
  <2>6. \A k \in 1..m : ls[k] # f
    BY <1>1, <2>2
  <2>7. \A p, q \in 1..(m + 1) : l[p] = l[q] => p = q
    BY <2>3, <2>4, <2>5, <2>6
  <2>8. ASSUME NEW p \in 1..(m + 1), NEW k \in DOMAIN inc[l[p]]
        PROVE  \E q \in 1..(m + 1) : q < p /\ l[q] = inc[l[p]][k]
    <3>1. CASE p \in 1..m
      <4>1. PICK q \in 1..m : q < p /\ ls[q] = inc[ls[p]][k]
        BY <2>3, <2>4, <2>8, <3>1
      <4> QED
        BY <2>4, <2>5, <3>1, <4>1
    <3>2. CASE p = m + 1
      <4>1. inc[f][k] \in ToSet(ls)
        BY <1>1, <2>4, <2>8, <3>2
      <4>2. PICK q \in 1..m : inc[f][k] = ls[q]
        BY <2>2, <4>1
      <4> QED
        BY <2>4, <2>5, <3>2, <4>2
    <3> QED
      BY <2>5, <3>1, <3>2
  <2> QED
    BY <2>4, <2>7, <2>8 DEF InOrder
<1>16. ToSet(o) = setting \cap ToSet(l) /\ IsInjective(o)
  <2>1. CASE f \in setting
    <3>1. o = Append(opts, f) /\ f \notin ToSet(opts)
      BY <1>1, <1>2, <2>1
    <3> HIDE DEF o
    <3>2. (\A x : x \in ToSet(o) <=> x \in ToSet(opts) \/ x = f) /\ IsInjective(o)
      BY <1>1, <1>2, <3>1, AppendedSet
    <3>3. ToSet(o) = setting \cap ToSet(l)
      BY <1>2, <1>6, <2>1, <3>2
    <3> QED
      BY <3>2, <3>3
  <2>2. CASE f \notin setting
    <3>1. o = opts
      BY <2>2
    <3> HIDE DEF o
    <3> QED
      BY <1>2, <1>6, <2>2, <3>1
  <2> QED
    BY <2>1, <2>2
<1> HIDE DEF o
<1> QED
  BY <1>2, <1>11, <1>12, <1>13, <1>14, <1>15, <1>16 DEF Built, l, o

\* The value of the file that is applied, and what is left of the last word.
AppliedTold(inc, setting, w, ls, n, f, s) ==
    \E v \in [Files -> Files \cup {None}] :
       /\ Agrees(inc, setting, v, Append(ls, f))
       /\ n = 1 => s = v[f]
       /\ n > 1 => LastWord(inc, w, v, s)

LEMMA AppliedValue ==
    ASSUME NEW inc \in Includes, NEW cond, NEW setting \in SUBSET Files, NEW vis \in Stack,
           NEW ls \in Seq(Files), NEW opts, vis # <<>>, Built(inc, cond, setting, vis, ls, opts),
           NEW n, n = Len(vis), NEW f, f = At(vis, n), Nx(vis, n) > Len(inc[f]),
           NEW w, OneLess(w, vis), NEW sc, Valued(inc, setting, vis, ls, sc),
           NEW s, s = IF f \in setting THEN f ELSE sc
    PROVE  AppliedTold(inc, setting, w, ls, n, f, s)
<1> DEFINE l == Append(ls, f)
<1>1. /\ n \in Nat /\ n \in 1..n /\ DOMAIN vis = 1..n
      /\ \A k \in 1..n : At(vis, k) \in Files /\ Nx(vis, k) \in Nat
      /\ f \in Files /\ f \notin ToSet(ls)
      /\ Len(inc[f]) \in Nat /\ DOMAIN inc[f] = 1..Len(inc[f])
      /\ Nx(vis, n) = Len(inc[f]) + 1 /\ Dn(vis, n) = Len(inc[f])
      /\ \A i \in DOMAIN inc[f] : inc[f][i] \in ToSet(ls)
  <2> HIDE DEF l
  <2>1. TopTold(inc, vis, ls, n, f)
    BY TopDone
  <2> QED
    BY <2>1 DEF TopTold
<1>2. Chained(inc, vis) /\ Apart(inc, vis, ls) /\ InOrder(inc, ls)
  BY DEF Built
<1>3. /\ w \in Stack /\ Len(w) = n - 1
      /\ \A k \in 1..(n - 1) : At(w, k) = At(vis, k) /\ Nx(w, k) = Nx(vis, k)
      /\ \A k \in 1..(n - 1) : Dn(w, k) = IF k = n - 1 THEN Dn(vis, k) + 1 ELSE Dn(vis, k)
  BY DEF OneLess
<1>4. DOMAIN w = 1..(n - 1)
  BY <1>3, StackIs
<1>5. PICK u \in [Files -> Files \cup {None}] :
         (\A p \in DOMAIN ls : u[ls[p]] = Said(inc, setting, u, ls[p])) /\ LastWord(inc, vis, u, sc)
  BY DEF Valued, Agrees
<1> DEFINE v == [u EXCEPT ![f] = Said(inc, setting, u, f)]
<1>6. None \notin Files
  BY LoaderAssumption
<1>7. /\ Len(ls) \in Nat /\ DOMAIN ls = 1..Len(ls) /\ DOMAIN l = 1..(Len(ls) + 1)
      /\ (\A k \in 1..Len(ls) : l[k] = ls[k]) /\ l[Len(ls) + 1] = f
  BY <1>1
<1> DEFINE m == Len(ls)
<1>8. \A x : x \in ToSet(ls) <=> \E q \in 1..m : x = ls[q]
  BY <1>7 DEF ToSet
<1>9. /\ m \in Nat /\ DOMAIN ls = 1..m /\ DOMAIN l = 1..(m + 1)
      /\ (\A k \in 1..m : l[k] = ls[k] /\ ls[k] \in Files) /\ l[m + 1] = f
  BY <1>7
<1> HIDE DEF l, m
<1>10. \A x \in ToSet(ls) : x \in Files /\ x # f
  BY <1>1, <1>8, <1>9
<1>11. \A x \in ToSet(ls) : \A k \in DOMAIN inc[x] : inc[x][k] \in ToSet(ls)
  <2>1. SUFFICES ASSUME NEW x \in ToSet(ls), NEW k \in DOMAIN inc[x] PROVE inc[x][k] \in ToSet(ls)
    OBVIOUS
  <2>2. PICK p \in 1..m : x = ls[p]
    BY <1>8
  <2>3. PICK q \in 1..m : ls[q] = inc[ls[p]][k]
    BY <1>2, <1>9, <2>2 DEF InOrder
  <2> QED
    BY <1>8, <2>2, <2>3
<1>12. Said(inc, setting, u, f) \in Files \cup {None}
  <2>1. \A k \in DOMAIN inc[f] : u[inc[f][k]] \in Files \cup {None}
    BY <1>1, <1>10
  <2>2. SaidTold(inc, setting, u, f)
    BY <1>1, SaidIs
  <2> QED
    BY <1>1, <2>1, <2>2 DEF SaidTold
<1>13. /\ v \in [Files -> Files \cup {None}] /\ v[f] = Said(inc, setting, u, f)
       /\ \A x \in ToSet(ls) : v[x] = u[x]
  BY <1>1, <1>10, <1>12
<1> HIDE DEF v
<1>14. \A x \in Files : (\A k \in DOMAIN inc[x] : inc[x][k] \in ToSet(ls))
          => Said(inc, setting, v, x) = Said(inc, setting, u, x)
  BY <1>13, SaidAlike
<1>15. \A p \in DOMAIN l : v[l[p]] = Said(inc, setting, v, l[p])
  <2>1. SUFFICES ASSUME NEW p \in 1..(m + 1) PROVE v[l[p]] = Said(inc, setting, v, l[p])
    BY <1>9
  <2>2. CASE p \in 1..m
    <3>1. ls[p] \in ToSet(ls) /\ l[p] = ls[p] /\ ls[p] \in Files
      BY <1>8, <1>9, <2>2
    <3>2. u[ls[p]] = Said(inc, setting, u, ls[p])
      BY <1>5, <1>9, <2>2
    <3>3. Said(inc, setting, v, ls[p]) = Said(inc, setting, u, ls[p])
      BY <1>11, <1>14, <3>1
    <3> QED
      BY <1>13, <3>1, <3>2, <3>3
  <2>3. CASE p = m + 1
    <3>1. Said(inc, setting, v, f) = Said(inc, setting, u, f)
      BY <1>1, <1>14
    <3> QED
      BY <1>9, <1>13, <2>3, <3>1
  <2> QED
    BY <1>9, <2>2, <2>3
<1> DEFINE says(k, i) == u[inc[At(vis, k)][i]]
           now(k, i) == v[inc[At(w, k)][i]]
<1>16. \/ sc = None /\ \A k \in 1..n : \A i \in 1..Dn(vis, k) : says(k, i) = None
       \/ \E k \in 1..n : \E i \in 1..Dn(vis, k) :
             /\ sc = says(k, i) /\ sc # None
             /\ \A h \in 1..n : \A j \in 1..Dn(vis, h) :
                   h > k \/ (h = k /\ j > i) => says(h, j) = None
  <2>1. LastWord(inc, vis, u, sc)
    BY <1>5
  <2>2. \/ sc = None /\ \A k \in DOMAIN vis : \A i \in 1..Dn(vis, k) : says(k, i) = None
        \/ \E k \in DOMAIN vis : \E i \in 1..Dn(vis, k) :
              /\ sc = says(k, i) /\ sc # None
              /\ \A h \in DOMAIN vis : \A j \in 1..Dn(vis, h) :
                    h > k \/ (h = k /\ j > i) => says(h, j) = None
    BY <2>1, Zenon DEF LastWord
  <2>3. DOMAIN vis = 1..n
    BY <1>1
  <2> HIDE DEF says
  <2> QED
    BY <2>2, <2>3, SMTT(30)
<1>17. \A i \in 1..Dn(vis, n) : i \in DOMAIN inc[f] /\ says(n, i) = u[inc[f][i]]
  BY <1>1
<1>18. /\ f \in setting => v[f] = f
       /\ f \notin setting /\ (\A i \in 1..Dn(vis, n) : says(n, i) = None) => v[f] = None
       /\ \A i \in 1..Dn(vis, n) :
             f \notin setting /\ says(n, i) # None
                /\ (\A j \in 1..Dn(vis, n) : j > i => says(n, j) = None)
             => v[f] = says(n, i)
  <2> DEFINE by(k) == u[inc[f][k]]
  <2>1. /\ f \in setting => v[f] = f
        /\ f \notin setting /\ (\A k \in DOMAIN inc[f] : by(k) = None) => v[f] = None
        /\ \A k \in DOMAIN inc[f] :
              f \notin setting /\ by(k) # None /\ (\A j \in DOMAIN inc[f] : j > k => by(j) = None)
              => v[f] = by(k)
    <3>1. SaidTold(inc, setting, u, f)
      BY <1>1, SaidIs
    <3> QED
      BY <1>13, <3>1, Zenon DEF SaidTold
  <2>2. 1..Dn(vis, n) = DOMAIN inc[f]
    BY <1>1
  <2>3. \A k : says(n, k) = by(k)
    BY <1>1
  <2> HIDE DEF says, by
  <2> DEFINE D == 1..Dn(vis, n)
  <2>4. D = DOMAIN inc[f]
    BY <2>2
  <2> HIDE DEF D
  <2>5. (\A i \in D : says(n, i) = None) => \A i \in DOMAIN inc[f] : by(i) = None
    BY <2>3, <2>4
  <2>6. ASSUME NEW i \in D, f \notin setting, says(n, i) # None,
               \A j \in D : j > i => says(n, j) = None
        PROVE  v[f] = says(n, i)
    <3>1. i \in DOMAIN inc[f] /\ by(i) # None /\ \A j \in DOMAIN inc[f] : j > i => by(j) = None
      BY <2>3, <2>4, <2>6
    <3>2. v[f] = by(i)
      BY <2>1, <2>6, <3>1
    <3> QED
      BY <2>3, <3>2
  <2> QED
    BY <2>1, <2>5, <2>6 DEF D
<1> DEFINE Left == \E k \in 1..(n - 1) : \E i \in 1..Dn(vis, k) :
                      /\ s = says(k, i) /\ s # None
                      /\ \A h \in 1..(n - 1) : \A j \in 1..Dn(vis, h) :
                            h > k \/ (h = k /\ j > i) => says(h, j) = None
           Silent == s = None /\ \A k \in 1..n : \A i \in 1..Dn(vis, k) : says(k, i) = None
<1>19. \/ s = v[f] /\ s # None
       \/ v[f] = None /\ Silent
       \/ v[f] = None /\ Left
  <2> HIDE DEF says
  <2>1. CASE f \in setting
    BY <1>1, <1>6, <1>18, <2>1
  <2>2. CASE f \notin setting /\ sc = None /\ \A k \in 1..n : \A i \in 1..Dn(vis, k) : says(k, i) = None
    BY <1>1, <1>18, <2>2
  <2>3. ASSUME f \notin setting, NEW k \in 1..n, NEW i \in 1..Dn(vis, k), sc = says(k, i), sc # None,
               \A h \in 1..n : \A j \in 1..Dn(vis, h) :
                  h > k \/ (h = k /\ j > i) => says(h, j) = None
        PROVE  (s = v[f] /\ s # None) \/ (v[f] = None /\ Left)
    <3>1. s = sc
      BY <2>3
    <3>2. CASE k = n
      <4>1. \A j \in 1..Dn(vis, n) : j > i => says(n, j) = None
        BY <1>1, <2>3, <3>2
      <4>2. i \in 1..Dn(vis, n) /\ says(n, i) = sc
        BY <2>3, <3>2
      <4>3. v[f] = says(n, i)
        BY <1>18, <2>3, <4>1, <4>2
      <4>4. s = v[f] /\ s # None
        <5> HIDE DEF Left, Silent
        <5> QED
          BY <2>3, <3>1, <4>2, <4>3
      <4> QED
        BY <4>4
    <3>3. CASE k # n
      <4>1. k \in 1..(n - 1) /\ n > k
        BY <1>1, <3>3
      <4>2. v[f] = None
        BY <1>1, <1>18, <2>3, <4>1
      <4>3. \A h \in 1..(n - 1) : h \in 1..n
        BY <1>1
      <4>4. Left
        BY <2>3, <3>1, <4>1, <4>3
      <4> QED
        BY <4>2, <4>4
    <3> QED
      BY <3>2, <3>3
  <2> QED
    BY <1>16, <2>1, <2>2, <2>3
<1>20. n = 1 => s = v[f]
  <2>1. n = 1 => ~Left
    OBVIOUS
  <2> HIDE DEF Left
  <2> QED
    BY <1>19, <2>1
<1>21. ASSUME n > 1 PROVE LastWord(inc, w, v, s)
  <2> DEFINE p == n - 1
             d == Dn(w, p)
  <2>1. p \in 1..p /\ p \in Nat /\ n = p + 1 /\ p \in 1..n
    BY <1>1, <1>21
  <2>2. Nx(vis, p) \in Nat /\ Nx(vis, p) > 1 /\ inc[At(vis, p)][Nx(vis, p) - 1] = f
    <3>1. p \in DOMAIN vis /\ p < Len(vis) /\ Nx(vis, p) \in Nat /\ At(vis, p + 1) = f
      <4>1. p < n
        BY <2>1
      <4> HIDE DEF p
      <4> QED
        BY <1>1, <2>1, <4>1
    <3> HIDE DEF p
    <3> QED
      BY <1>2, <3>1 DEF Chained
  <2>3. Dn(vis, p) = Nx(vis, p) - 2 /\ d = Nx(vis, p) - 1
    <3>1. Dn(vis, p) = Nx(vis, p) - 2
      BY <2>1 DEF Dn
    <3> QED
      BY <1>3, <2>1, <2>2, <3>1
  <2>4. d \in 1..d /\ now(p, d) = v[f]
    BY <1>3, <2>1, <2>2, <2>3
  <2> HIDE DEF p, d
  <2>5. \A k \in 1..p : k \in 1..n /\ At(w, k) = At(vis, k)
    BY <1>1, <1>3, <2>1 DEF p
  <2>6. \A k \in 1..n : \A i \in 1..Dn(vis, k) : inc[At(vis, k)][i] \in ToSet(ls)
    BY <1>1, <1>2 DEF Apart
  <2>7. \A k \in 1..p : \A i \in 1..Dn(vis, k) : i \in 1..Dn(w, k) /\ now(k, i) = says(k, i)
    <3>1. SUFFICES ASSUME NEW k \in 1..p, NEW i \in 1..Dn(vis, k)
                   PROVE  i \in 1..Dn(w, k) /\ now(k, i) = says(k, i)
      OBVIOUS
    <3>2. i \in 1..Dn(w, k)
      <4>1. Dn(w, k) = IF k = p THEN Dn(vis, k) + 1 ELSE Dn(vis, k)
        BY <1>3 DEF p
      <4>2. Dn(vis, k) \in Int
        BY <1>1, <2>5 DEF Dn
      <4> QED
        BY <4>1, <4>2
    <3> QED
      BY <1>13, <2>5, <2>6, <3>2
  <2>8. \A k \in 1..p : \A i \in 1..Dn(w, k) : i \in 1..Dn(vis, k) \/ (k = p /\ i = d)
    <3>1. SUFFICES ASSUME NEW k \in 1..p, NEW i \in 1..Dn(w, k), i \notin 1..Dn(vis, k)
                   PROVE  k = p /\ i = d
      OBVIOUS
    <3>2. k = p
      BY <1>3, <3>1 DEF p
    <3> QED
      BY <2>2, <2>3, <3>1, <3>2 DEF d
  <2>9. DOMAIN w = 1..p
    BY <1>4 DEF p
  <2>10. \A i \in 1..Dn(w, p) : ~(i > d)
    BY <2>2, <2>3 DEF d
  <2>11. \A k \in 1..p : ~(k > p)
    BY <2>1
  <2> HIDE DEF says, now
  <2>12. \/ s = None /\ \A k \in 1..p : \A i \in 1..Dn(w, k) : now(k, i) = None
         \/ \E k \in 1..p : \E i \in 1..Dn(w, k) :
               /\ s = now(k, i) /\ s # None
               /\ \A h \in 1..p : \A j \in 1..Dn(w, h) :
                     h > k \/ (h = k /\ j > i) => now(h, j) = None
    <3>1. CASE s = v[f] /\ s # None
      <4>1. p \in 1..p /\ d \in 1..Dn(w, p) /\ s = now(p, d)
        BY <2>1, <2>4, <3>1 DEF d
      <4>2. \A h \in 1..p : \A j \in 1..Dn(w, h) : h > p \/ (h = p /\ j > d) => now(h, j) = None
        BY <2>10, <2>11
      <4> QED
        BY <3>1, <4>1, <4>2
    <3>2. CASE v[f] = None /\ Silent
      BY <2>4, <2>5, <2>7, <2>8, <3>2
    <3>3. CASE v[f] = None /\ Left
      <4>0. PICK k \in 1..p : \E i \in 1..Dn(vis, k) :
               /\ s = says(k, i) /\ s # None
               /\ \A h \in 1..p : \A j \in 1..Dn(vis, h) :
                     h > k \/ (h = k /\ j > i) => says(h, j) = None
        BY <3>3 DEF p
      <4>1. PICK i \in 1..Dn(vis, k) :
               /\ s = says(k, i) /\ s # None
               /\ \A h \in 1..p : \A j \in 1..Dn(vis, h) :
                     h > k \/ (h = k /\ j > i) => says(h, j) = None
        BY <4>0
      <4>2. i \in 1..Dn(w, k) /\ s = now(k, i)
        BY <2>7, <4>1
      <4>3. \A h \in 1..p : \A j \in 1..Dn(w, h) : h > k \/ (h = k /\ j > i) => now(h, j) = None
        BY <2>4, <2>7, <2>8, <3>3, <4>1
      <4> QED
        BY <4>1, <4>2, <4>3
    <3> HIDE DEF Left, Silent
    <3> QED
      BY <1>19, <3>1, <3>2, <3>3
  <2> QED
    BY <2>9, <2>12, SMTT(30) DEF LastWord, now
<1>22. Agrees(inc, setting, v, l)
  BY <1>15 DEF Agrees
<1> QED
  BY <1>13, <1>20, <1>21, <1>22 DEF l, AppliedTold

-----------------------------------------------------------------------------
(* The lines of includes. *)

LEMMA LinesAre ==
    ASSUME NEW inc \in Includes
    PROVE  /\ \A e : e \in Lines(inc) <=>
                 \E g \in Reach(inc)[EntryFile] : \E k \in DOMAIN inc[g] : e = <<g, k>>
           /\ IsFiniteSet(Lines(inc))
<1> DEFINE R == Reach(inc)[EntryFile]
           Of(g) == {<<g, k>> : k \in DOMAIN inc[g]}
           All == {Of(g) : g \in R}
<1>1. R \in SUBSET Files /\ IsFiniteSet(R)
  <2>1. R \in SUBSET Files
    BY ReachIs, LoaderAssumption
  <2> QED
    BY <2>1, LoaderAssumption, FS_Subset
<1>2. Lines(inc) = UNION All
  BY Zenon DEF Lines
<1> HIDE DEF R
<1>3. \A e : e \in Lines(inc) <=> \E g \in R : \E k \in DOMAIN inc[g] : e = <<g, k>>
  BY <1>2
<1>4. \A g \in R : IsFiniteSet(Of(g))
  <2>1. SUFFICES ASSUME NEW g \in R PROVE IsFiniteSet(Of(g))
    OBVIOUS
  <2> DEFINE D == DOMAIN inc[g]
             p == [k \in D |-> <<g, k>>]
             O == Of(g)
  <2>2. IsFiniteSet(D)
    <3>1. D = 1..Len(inc[g]) /\ Len(inc[g]) \in Nat
      BY <1>1, <2>1, IncludedAreFiles
    <3> QED
      BY <3>1, FS_Interval
  <2>3. p \in [D -> O] /\ \A t \in O : \E k \in D : p[k] = t
    OBVIOUS
  <2> HIDE DEF D, p, O
  <2>4. p \in Surjection(D, O)
    BY <2>3, Zenon DEF Surjection
  <2>5. IsFiniteSet(O)
    BY <2>2, <2>4, FS_Surjection
  <2> QED
    BY <2>5 DEF O
<1> HIDE DEF Of
<1>5. IsFiniteSet(All)
  <2> DEFINE p == [g \in R |-> Of(g)]
  <2>1. p \in [R -> All] /\ \A t \in All : \E g \in R : p[g] = t
    OBVIOUS
  <2> HIDE DEF p, All
  <2>2. p \in Surjection(R, All)
    BY <2>1, Zenon DEF Surjection
  <2> QED
    BY <1>1, <2>2, FS_Surjection
<1>6. \A t \in All : IsFiniteSet(t)
  BY <1>4
<1> HIDE DEF All
<1>7. IsFiniteSet(UNION All)
  BY <1>5, <1>6, FS_UNION
<1> QED
  BY <1>2, <1>3, <1>7 DEF R

LEMMA NamedAre ==
    ASSUME NEW inc \in Includes, NEW f
    PROVE  /\ NamedBy(inc, f) \subseteq Lines(inc) /\ IsFiniteSet(NamedBy(inc, f))
           /\ \A e : e \in NamedBy(inc, f) <=> e \in Lines(inc) /\ inc[e[1]][e[2]] = f
<1>1. \A e : e \in NamedBy(inc, f) <=> e \in Lines(inc) /\ inc[e[1]][e[2]] = f
  BY DEF NamedBy
<1>2. NamedBy(inc, f) \in SUBSET Lines(inc)
  BY <1>1
<1>3. IsFiniteSet(Lines(inc))
  BY LinesAre
<1> QED
  BY <1>1, <1>2, <1>3, FS_Subset

\* What was followed is among the lines of the configuration.
LEMMA FollowedAreLines ==
    ASSUME NEW inc \in Includes, NEW cond, NEW setting, NEW vis \in Stack, NEW ls,
           NEW opts, Built(inc, cond, setting, vis, ls, opts)
    PROVE  Followed(inc, vis, ls) \subseteq Lines(inc)
<1> DEFINE n == Len(vis)
<1>1. n \in Nat /\ DOMAIN vis = 1..n /\ (\A k \in 1..n : At(vis, k) \in Files /\ Nx(vis, k) \in Nat)
  BY StackIs
<1>2. SUFFICES ASSUME NEW e \in Followed(inc, vis, ls) PROVE e \in Lines(inc)
  OBVIOUS
<1>3. FilesIn(vis, ls) \subseteq Reach(inc)[EntryFile]
  BY DEF Built
<1>4. \A x : x \in FilesIn(vis, ls) <=> x \in ToSet(ls) \/ \E k \in 1..n : x = At(vis, k)
  BY FilesInIs
<1>5. CASE \E g \in ToSet(ls) : \E i \in DOMAIN inc[g] : e = <<g, i>>
  BY <1>3, <1>4, <1>5, LinesAre
<1>6. ASSUME NEW k \in 1..n, NEW i \in 1..(Nx(vis, k) - 1), e = <<At(vis, k), i>> PROVE e \in Lines(inc)
  <2> DEFINE g == At(vis, k)
  <2>1. Nx(vis, k) \in 1..(Len(inc[g]) + 1)
    BY <1>1 DEF Built, Chained
  <2>2. g \in Files /\ g \in Reach(inc)[EntryFile] /\ e = <<g, i>>
    BY <1>1, <1>3, <1>4, <1>6
  <2> HIDE DEF g
  <2>3. DOMAIN inc[g] = 1..Len(inc[g]) /\ Len(inc[g]) \in Nat
    BY <2>2, IncludedAreFiles
  <2>4. i \in DOMAIN inc[g]
    BY <2>1, <2>3
  <2> QED
    BY <2>2, <2>4, LinesAre
<1>7. WasFollowed(inc, vis, ls, e)
  BY FollowedIs
<1> QED
  BY <1>5, <1>6, <1>7 DEF WasFollowed

-----------------------------------------------------------------------------
(* An error that is reported is there. *)

LEMMA CycleIsThere ==
    ASSUME NEW inc \in Includes, NEW cond, NEW setting, NEW vis \in Stack, NEW ls, NEW opts,
           Built(inc, cond, setting, vis, ls, opts),
           NEW n, n = Len(vis), NEW f, f = At(vis, n), NEW i \in DOMAIN inc[f],
           NEW j \in 1..n, inc[f][i] = At(vis, j)
    PROVE  HasCycle(inc)
<1>1. n \in Nat /\ DOMAIN vis = 1..n /\ (\A k \in 1..n : At(vis, k) \in Files /\ Nx(vis, k) \in Nat)
  BY StackIs
<1> DEFINE g == At(vis, j)
           R == Reach(inc)[g]
           N == n - j
           P == {k \in 0..N : At(vis, j + k) \in R}
<1>2. g \in Files /\ f \in Files /\ N \in Nat
  BY <1>1
<1>3. g \in R /\ ClosedUnder(inc, R) /\ R \subseteq Files
  BY <1>2, ReachIs
<1> HIDE DEF R
<1>4. 0 \in P
  <2>1. j + 0 = j /\ 0 \in 0..N
    BY <1>1, <1>2
  <2> QED
    BY <1>3, <2>1
<1>5. ASSUME NEW k \in 1..N, k - 1 \in P PROVE k \in P
  <2> DEFINE h == j + (k - 1)
  <2>1. h \in 1..n /\ h < n /\ h + 1 = j + k /\ k \in 0..N
    BY <1>1
  <2>2. At(vis, h) \in R
    BY <1>5
  <2> HIDE DEF h, g
  <2>3. /\ Nx(vis, h) \in 1..(Len(inc[At(vis, h)]) + 1)
        /\ Nx(vis, h) > 1 /\ inc[At(vis, h)][Nx(vis, h) - 1] = At(vis, h + 1)
    BY <1>1, <2>1 DEF Built, Chained
  <2> DEFINE x == At(vis, h)
             m == Nx(vis, h) - 1
  <2>4. x \in Files /\ Len(inc[x]) \in Nat /\ DOMAIN inc[x] = 1..Len(inc[x])
    BY <1>1, <2>1, IncludedAreFiles
  <2>5. m \in DOMAIN inc[x]
    <3>1. Nx(vis, h) \in Nat
      BY <1>1, <2>1
    <3> QED
      BY <2>3, <2>4, <3>1
  <2>6. inc[x][m] \in ToSet(inc[x])
    BY <2>5 DEF ToSet
  <2>7. inc[x][m] \in R
    BY <1>3, <2>2, <2>6 DEF ClosedUnder
  <2>8. inc[x][m] = At(vis, j + k)
    BY <2>1, <2>3
  <2> QED
    BY <2>1, <2>7, <2>8
<1> HIDE DEF P
<1>6. \A k \in 0..N : k \in P
  BY <1>2, <1>4, <1>5, Induct
<1>7. f \in R
  <2>1. N \in P
    BY <1>2, <1>6
  <2>2. j + N = n
    BY <1>1
  <2> QED
    BY <2>1, <2>2 DEF P
<1>8. f \in Reach(inc)[EntryFile]
  <2>1. f \in FilesIn(vis, ls)
    BY <1>1, FilesInIs
  <2> QED
    BY <2>1 DEF Built
<1>9. g \in ToSet(inc[f])
  BY DEF ToSet
<1> QED
  BY <1>7, <1>8, <1>9 DEF HasCycle, R

LEMMA DuplicateIsThere ==
    ASSUME NEW inc \in Includes, NEW cond, NEW setting, NEW vis \in Stack, NEW ls, NEW opts,
           Built(inc, cond, setting, vis, ls, opts), vis # <<>>,
           NEW n, n = Len(vis), NEW f, f = At(vis, n), NEW i, i = Nx(vis, n), i \in DOMAIN inc[f],
           inc[f][i] \in ToSet(ls)
    PROVE  ~IsTree(inc)
<1>1. n \in Nat /\ DOMAIN vis = 1..n /\ n \in 1..n /\ (\A k \in 1..n : At(vis, k) \in Files /\ Nx(vis, k) \in Nat)
  BY StackIs
<1> DEFINE g == inc[f][i]
           e == <<f, i>>
           T == Followed(inc, vis, ls)
<1>2. /\ FilesIn(vis, ls) \subseteq Reach(inc)[EntryFile]
      /\ LedTo(inc, T, FilesIn(vis, ls))
      /\ \A j, k \in 1..n : At(vis, j) = At(vis, k) => j = k
      /\ f \notin ToSet(ls)
  BY <1>1 DEF Built, Apart
<1>3. f \in FilesIn(vis, ls) /\ g \in FilesIn(vis, ls)
  BY <1>1, FilesInIs
<1>4. f \in Reach(inc)[EntryFile] /\ g \in Reach(inc)[EntryFile]
  BY <1>2, <1>3
<1>5. e \in Lines(inc) /\ inc[e[1]][e[2]] = g
  BY <1>4, LinesAre
<1>6. e \notin T
  <2>1. ASSUME WasFollowed(inc, vis, ls, e) PROVE FALSE
    <3>1. CASE \E h \in ToSet(ls) : \E k \in DOMAIN inc[h] : e = <<h, k>>
      BY <1>2, <3>1
    <3>2. ASSUME NEW k \in 1..n, NEW m \in 1..(Nx(vis, k) - 1), e = <<At(vis, k), m>> PROVE FALSE
      <4>1. k = n /\ m = i
        BY <1>1, <1>2, <3>2
      <4>2. i \in Nat /\ i \in 1..(i - 1)
        BY <1>1, <3>2, <4>1
      <4> QED
        BY <4>2
    <3> QED
      BY <2>1, <3>1, <3>2 DEF WasFollowed
  <2> QED
    BY <2>1, FollowedIs
<1> HIDE DEF e, g, T
<1>7. e \in NamedBy(inc, g)
  BY <1>5, NamedAre
<1>8. IsFiniteSet(NamedBy(inc, g))
  BY NamedAre
<1>9. ASSUME IsTree(inc) PROVE FALSE
  <2>1. Cardinality(NamedBy(inc, g)) = IF g = EntryFile THEN 0 ELSE 1
    BY <1>4, <1>9 DEF IsTree
  <2>2. CASE g = EntryFile
    BY <1>7, <1>8, <2>1, <2>2, FS_EmptySet
  <2>3. CASE g # EntryFile
    <3>1. PICK d \in T : inc[d[1]][d[2]] = g
      BY <1>2, <1>3, <2>3 DEF LedTo
    <3>2. d \in NamedBy(inc, g)
      <4>1. T \subseteq Lines(inc)
        BY FollowedAreLines DEF T
      <4> QED
        BY <3>1, <4>1, NamedAre
    <3>3. PICK x : NamedBy(inc, g) = {x}
      BY <1>8, <2>1, <2>3, FS_Singleton
    <3>4. d = e
      BY <1>7, <3>2, <3>3
    <3> QED
      BY <1>6, <3>1, <3>4
  <2> QED
    BY <2>2, <2>3
<1> QED
  BY <1>9

\* When nothing is left to read, what is loaded is what the entry reaches.
LEMMA AllIsLoaded ==
    ASSUME NEW inc \in Includes, NEW cond, NEW setting, NEW vis \in Stack, NEW ls \in Seq(Files),
           NEW opts, Len(vis) = 0, Built(inc, cond, setting, vis, ls, opts),
           EntryFile \in ToSet(ls)
    PROVE  /\ Reach(inc)[EntryFile] = ToSet(ls)
           /\ IsTree(inc)
           /\ \A f \in Reach(inc)[EntryFile] : cond[f] = "good"
<1> DEFINE T == Followed(inc, vis, ls)
           Z == ToSet(ls)
           R == Reach(inc)[EntryFile]
<1>0. \A k \in 1..Len(vis) : FALSE
  OBVIOUS
<1>1. FilesIn(vis, ls) = Z
  <2>1. \A x : x \in FilesIn(vis, ls) <=> x \in Z
    BY <1>0, FilesInIs
  <2> QED
    BY <2>1
<1>2. \A e : e \in T <=> \E g \in Z : \E i \in DOMAIN inc[g] : e = <<g, i>>
  <2>1. \A e : e \in T <=> WasFollowed(inc, vis, ls, e)
    BY FollowedIs
  <2> QED
    BY <1>0, <2>1 DEF WasFollowed
<1>3. /\ \A x \in Z : cond[x] = "good"
      /\ Z \subseteq R /\ LedTo(inc, T, Z) /\ InOrder(inc, ls)
  BY <1>1 DEF Built
<1>4. R = Z
  <2>1. Z \in SUBSET Files
    BY DEF ToSet
  <2>2. ClosedUnder(inc, Z)
    <3>1. SUFFICES ASSUME NEW x \in Z, NEW y \in ToSet(inc[x]) PROVE y \in Z
      BY DEF ClosedUnder
    <3>2. PICK p \in DOMAIN ls : x = ls[p]
      BY <3>1 DEF ToSet
    <3>3. PICK k \in DOMAIN inc[x] : y = inc[x][k]
      BY <3>1 DEF ToSet
    <3>4. PICK q \in DOMAIN ls : ls[q] = inc[ls[p]][k]
      BY <1>3, <3>2, <3>3 DEF InOrder
    <3> QED
      BY <3>2, <3>3, <3>4 DEF ToSet
  <2> HIDE DEF Z
  <2>3. EntryFile \in Z /\ EntryFile \in Files
    BY LoaderAssumption DEF Z
  <2>4. R \subseteq Z
    BY <2>1, <2>2, <2>3, ReachIs
  <2> QED
    BY <1>3, <2>4
<1> HIDE DEF T, Z
<1>5. Lines(inc) = T
  <2>1. \A e : e \in Lines(inc) <=> e \in T
    BY <1>2, <1>4, LinesAre
  <2>2. \A e \in T : e \in Lines(inc)
    BY <2>1
  <2> QED
    BY <2>1
<1>6. IsTree(inc)
  <2>1. SUFFICES ASSUME NEW f \in R PROVE Cardinality(NamedBy(inc, f)) = IF f = EntryFile THEN 0 ELSE 1
    BY DEF IsTree
  <2>2. \A e : e \in NamedBy(inc, f) <=> e \in T /\ inc[e[1]][e[2]] = f
    BY <1>5, NamedAre
  <2>3. /\ \A e \in T : inc[e[1]][e[2]] \in Z \ {EntryFile}
        /\ \A e, d \in T : inc[e[1]][e[2]] = inc[d[1]][d[2]] => e = d
        /\ \A x \in Z \ {EntryFile} : \E e \in T : inc[e[1]][e[2]] = x
    BY <1>3 DEF LedTo
  <2>4. CASE f = EntryFile
    <3>1. NamedBy(inc, f) = {}
      BY <2>2, <2>3, <2>4
    <3> QED
      BY <2>4, <3>1, FS_EmptySet
  <2>5. CASE f # EntryFile
    <3>1. PICK e \in T : inc[e[1]][e[2]] = f
      BY <1>4, <2>3, <2>5
    <3>2. NamedBy(inc, f) = {e}
      BY <2>2, <2>3, <3>1
    <3> QED
      BY <2>5, <3>2, FS_Singleton
  <2> QED
    BY <2>4, <2>5
<1> QED
  BY <1>3, <1>4, <1>6 DEF Z

-----------------------------------------------------------------------------
(* The steps of the load. *)

LEMMA NothingYet ==
    ASSUME NEW inc \in Includes, NEW cond, NEW setting
    PROVE  OnTheWay(inc, cond, setting, <<>>, <<>>, None, <<>>)
<1>1. DOMAIN <<>> = {} /\ ToSet(<<>>) = {} /\ FilesIn(<<>>, <<>>) = {} /\ Followed(inc, <<>>, <<>>) = {}
  BY DEF ToSet, FilesIn, Followed
<1>2. Chained(inc, <<>>) /\ Apart(inc, <<>>, <<>>) /\ InOrder(inc, <<>>) /\ IsInjective(<<>>)
  BY <1>1 DEF Chained, Apart, InOrder, IsInjective
<1>3. LedTo(inc, {}, {})
  BY DEF LedTo
<1>4. Built(inc, cond, setting, <<>>, <<>>, <<>>)
  BY <1>1, <1>2, <1>3 DEF Built
<1> DEFINE v == [f \in Files |-> None]
<1>5. v \in [Files -> Files \cup {None}] /\ LastWord(inc, <<>>, v, None)
  BY <1>1 DEF LastWord
<1>6. Valued(inc, setting, <<>>, <<>>, None)
  <2> HIDE DEF v
  <2> QED
    BY <1>1, <1>5 DEF Valued, Agrees
<1> QED
  BY <1>4, <1>6 DEF OnTheWay

LEMMA EntryOnTheWay ==
    ASSUME NEW inc \in Includes, NEW cond, NEW setting, NEW sc, NEW opts, NEW vis,
           OnTheWay(inc, cond, setting, <<>>, <<>>, sc, opts), cond[EntryFile] = "good",
           vis = <<[file |-> EntryFile, next |-> 1]>>
    PROVE  vis \in Stack /\ OnTheWay(inc, cond, setting, vis, <<>>, sc, opts)
<1>1. EntryFile \in Files
  BY LoaderAssumption
<1>2. vis \in Stack /\ vis # <<>> /\ Len(vis) = 1
  BY <1>1 DEF Stack
<1>3. At(vis, 1) = EntryFile /\ Nx(vis, 1) = 1 /\ Dn(vis, 1) = 0
  BY <1>2 DEF At, Nx, Dn
<1>4. DOMAIN vis = 1..1 /\ \A k \in 1..1 : k = 1
  BY <1>2, StackIs
<1>5. ToSet(<<>>) = {} /\ DOMAIN <<>> = {}
  BY DEF ToSet
<1>6. \A f : f \in FilesIn(vis, <<>>) <=> f = EntryFile
  <2>1. \A f : f \in FilesIn(vis, <<>>) <=> f \in ToSet(<<>>) \/ \E k \in 1..Len(vis) : f = At(vis, k)
    BY <1>2, FilesInIs
  <2> QED
    BY <1>2, <1>3, <1>4, <1>5, <2>1
<1>7. Followed(inc, vis, <<>>) = {}
  <2>1. \A e : e \in Followed(inc, vis, <<>>) <=> WasFollowed(inc, vis, <<>>, e)
    BY <1>2, FollowedIs
  <2>2. \A e : ~WasFollowed(inc, vis, <<>>, e)
    BY <1>2, <1>3, <1>4, <1>5 DEF WasFollowed
  <2> QED
    BY <2>1, <2>2
<1>8. Len(inc[EntryFile]) \in Nat
  BY <1>1, IncludedAreFiles
<1>9. Chained(inc, vis)
  BY <1>2, <1>3, <1>4, <1>8 DEF Chained
<1>10. Apart(inc, vis, <<>>)
  BY <1>3, <1>4, <1>5 DEF Apart
<1>11. LedTo(inc, Followed(inc, vis, <<>>), FilesIn(vis, <<>>))
  BY <1>6, <1>7 DEF LedTo
<1>12. FilesIn(vis, <<>>) \subseteq Reach(inc)[EntryFile]
  BY <1>1, <1>6, ReachIs
<1>13. Built(inc, cond, setting, vis, <<>>, opts)
  <2>1. InOrder(inc, <<>>) /\ ToSet(opts) = setting \cap ToSet(<<>>) /\ IsInjective(opts)
    BY DEF OnTheWay, Built
  <2> QED
    BY <1>6, <1>9, <1>10, <1>11, <1>12, <2>1 DEF Built
<1>14. Valued(inc, setting, vis, <<>>, sc)
  <2>1. PICK v \in [Files -> Files \cup {None}] : LastWord(inc, <<>>, v, sc)
    BY DEF OnTheWay, Valued
  <2>2. sc = None
    BY <1>5, <2>1 DEF LastWord
  <2>3. LastWord(inc, vis, v, sc)
    BY <1>3, <1>4, <2>2 DEF LastWord
  <2> QED
    BY <1>5, <2>3 DEF Valued, Agrees
<1> QED
  BY <1>2, <1>13, <1>14 DEF OnTheWay

\* What loadFile() says of a file, and what is then so.
RefusedTold(f) ==
    /\ Refused(f) \in {"", "READ_FAILED", "INVALID_XML", "INCLUDE_CYCLE",
                       "INCLUDE_DUPLICATE", "CONFIG_LIMIT"}
    /\ Refused(f) = "" => f \notin FilesIn(visiting, loadedFiles) /\ condition[f] = "good"
    /\ Refused(f) = "INCLUDE_CYCLE" => \E k \in 1..Len(visiting) : f = At(visiting, k)
    /\ Refused(f) = "INCLUDE_DUPLICATE" => f \in ToSet(loadedFiles)

LEMMA RefusedIs ==
    ASSUME LoaderTypeOK, NEW f \in Files
    PROVE  RefusedTold(f)
<1>1. visiting \in Stack /\ condition[f] \in {"good", "missing", "malformed", "oversized"}
  BY DEF LoaderTypeOK, Stack
<1>2. Faulty(f) \in {"", "READ_FAILED", "INVALID_XML", "CONFIG_LIMIT"} /\ (Faulty(f) = "" => condition[f] = "good")
  BY <1>1 DEF Faulty
<1>3. \A x : x \in Visited <=> \E k \in 1..Len(visiting) : x = At(visiting, k)
  <2>1. DOMAIN visiting = 1..Len(visiting)
    BY <1>1, StackIs
  <2> QED
    BY <2>1 DEF Visited, At
<1>4. \A x : x \in FilesIn(visiting, loadedFiles) <=> x \in Loaded \/ x \in Visited
  BY <1>1, <1>3, FilesInIs DEF Loaded
<1> DEFINE V == Visited
           full == Len(visiting) >= DepthLimit \/ Cardinality(Visited \cup Loaded) >= FileLimit
<1>5. CASE condition[f] = "missing"
  <2>1. Refused(f) = "READ_FAILED"
    BY <1>5 DEF Refused
  <2> QED
    BY <2>1 DEF RefusedTold
<1>6. CASE condition[f] # "missing" /\ f \in Visited
  <2>1. Refused(f) = "INCLUDE_CYCLE"
    BY <1>6 DEF Refused
  <2> QED
    BY <1>3, <1>6, <2>1 DEF RefusedTold
<1>7. CASE condition[f] # "missing" /\ f \notin Visited /\ f \in Loaded
  <2>1. Refused(f) = "INCLUDE_DUPLICATE"
    BY <1>7 DEF Refused
  <2> QED
    BY <1>7, <2>1 DEF RefusedTold, Loaded
<1>8. CASE condition[f] # "missing" /\ f \notin Visited \cup Loaded
  <2>1. Refused(f) = IF full THEN "CONFIG_LIMIT" ELSE Faulty(f)
    <3>1. condition[f] # "missing" /\ f \notin Visited /\ f \notin Loaded
      BY <1>8
    <3> QED
      BY <1>8, <3>1, Zenon DEF Refused
  <2>2. f \notin FilesIn(visiting, loadedFiles)
    BY <1>4, <1>8
  <2> HIDE DEF full
  <2> QED
    BY <1>2, <2>1, <2>2 DEF RefusedTold
<1> QED
  BY <1>5, <1>6, <1>7, <1>8

LEMMA LoaderStarts == LoaderInit => LoaderInv
<1> SUFFICES ASSUME LoaderInit PROVE LoaderInv
  OBVIOUS
<1>1. includes \in Includes
  <2>1. \A g \in Files : includes[g] \in IncludeLists[g] /\ IncludeLists[g] \subseteq Seq(Files)
    BY LoaderAssumption DEF LoaderInit
  <2>2. includes \in [Files -> UNION {IncludeLists[g] : g \in Files}]
    BY DEF LoaderInit
  <2> QED
    BY <2>1, <2>2 DEF Includes
<1>2. condition \in [Files -> {"good", "missing", "malformed", "oversized"}]
  <2>1. PICK bad \in Files, how \in {"good", "missing", "malformed", "oversized"} :
           condition = [f \in Files |-> IF f = bad THEN how ELSE "good"]
    BY DEF LoaderInit
  <2> QED
    BY <2>1
<1>3. LoaderTypeOK
  <2>1. /\ setters \subseteq Files /\ visiting = <<>> /\ loadedFiles = <<>> /\ scalar = None
        /\ list = <<>> /\ rewritten = None /\ schemes = [f \in Files |-> {}] /\ unnamed = <<>>
        /\ outcome = "none"
    BY DEF LoaderInit
  <2>2. schemes \in [Files -> SUBSET Files] /\ outcome \in LoadOutcomes
    BY <2>1 DEF LoadOutcomes
  <2>3. \A S : <<>> \in Seq(S)
    OBVIOUS
  <2> QED
    BY <1>1, <1>2, <2>1, <2>2, <2>3 DEF LoaderTypeOK, Includes
<1>4. outcome = "none"
  BY DEF LoaderInit
<1>5. LoadsWhatFilesSay
  BY <1>4 DEF LoadsWhatFilesSay, IncludesToldRight, ParentHasTheLastWord
<1>6. OnTheWay(includes, condition, setters, visiting, loadedFiles, scalar, list)
  BY <1>1, NothingYet DEF LoaderInit
<1> QED
  BY <1>3, <1>5, <1>6 DEF LoaderInv

LEMMA TopIs ==
    ASSUME LoaderTypeOK, visiting # <<>>
    PROVE  /\ visiting \in Stack /\ Len(visiting) \in Nat /\ Len(visiting) \in 1..Len(visiting)
           /\ Top.file = At(visiting, Len(visiting)) /\ Top.next = Nx(visiting, Len(visiting))
           /\ Top.file \in Files /\ Top.next \in Nat
           /\ \A k \in 1..Len(includes[Top.file]) : includes[Top.file][k] \in Files
           /\ DOMAIN includes[Top.file] = 1..Len(includes[Top.file])
           /\ Len(includes[Top.file]) \in Nat
<1>1. visiting \in Stack /\ includes \in Includes
  BY DEF LoaderTypeOK, Stack, Includes
<1>2. /\ Len(visiting) \in Nat /\ Len(visiting) \in 1..Len(visiting)
      /\ \A k \in 1..Len(visiting) : At(visiting, k) \in Files /\ Nx(visiting, k) \in Nat
  BY <1>1, StackIs
<1>3. Top.file = At(visiting, Len(visiting)) /\ Top.next = Nx(visiting, Len(visiting))
  BY DEF Top, At, Nx
<1>4. Top.file \in Files /\ Top.next \in Nat
  BY <1>2, <1>3
<1> QED
  BY <1>1, <1>2, <1>3, <1>4, IncludedAreFiles

LEMMA OpenEntryStep == LoaderInv /\ OpenEntry => LoaderInv'
<1> SUFFICES ASSUME LoaderInv, OpenEntry PROVE LoaderInv'
  OBVIOUS
<1> DEFINE st == OnTheWay(includes, condition, setters, visiting, loadedFiles, scalar, list)
<1>1. UNCHANGED <<includes, condition, setters, loadedFiles, scalar, list, rewritten, schemes, unnamed>>
  BY DEF OpenEntry, merged
<1>2. LoaderTypeOK /\ visiting = <<>> /\ loadedFiles = <<>> /\ outcome = "none" /\ st
  BY DEF OpenEntry, LoaderInv
<1>3. RefusedTold(EntryFile)
  BY <1>2, LoaderAssumption, RefusedIs
<1>4. includes \in Includes /\ condition' = condition
  BY <1>1, <1>2 DEF LoaderTypeOK, Includes
<1> HIDE DEF st
<1>5. CASE Refused(EntryFile) # ""
  <2>1. outcome' = Refused(EntryFile) /\ visiting' = <<>>
    BY <1>5 DEF OpenEntry, Enter
  <2>2. outcome' \in {"READ_FAILED", "INVALID_XML", "CONFIG_LIMIT"}
    <3>1. ~\E k \in 1..Len(visiting) : EntryFile = At(visiting, k)
      BY <1>2
    <3>2. EntryFile \notin ToSet(loadedFiles)
      BY <1>2 DEF ToSet
    <3> QED
      BY <1>3, <1>5, <2>1, <3>1, <3>2 DEF RefusedTold
  <2>3. LoaderTypeOK'
    BY <1>1, <1>2, <2>1, <2>2 DEF LoaderTypeOK, LoadOutcomes
  <2>4. LoadsWhatFilesSay'
    BY <2>2 DEF LoadsWhatFilesSay, IncludesToldRight, ParentHasTheLastWord
  <2> QED
    BY <2>2, <2>3, <2>4 DEF LoaderInv
<1>6. CASE Refused(EntryFile) = ""
  <2> DEFINE vis == <<[file |-> EntryFile, next |-> 1]>>
  <2>1. outcome' = outcome /\ visiting' = vis
    <3>1. outcome' = outcome /\ visiting' = Append(<<>>, [file |-> EntryFile, next |-> 1])
      BY <1>6 DEF OpenEntry, Enter
    <3>2. \A r : Append(<<>>, r) = <<r>>
      OBVIOUS
    <3> QED
      BY <3>1, <3>2
  <2>2. condition[EntryFile] = "good"
    BY <1>3, <1>6 DEF RefusedTold
  <2>3. OnTheWay(includes, condition, setters, <<>>, <<>>, scalar, list)
    BY <1>2 DEF st
  <2> HIDE DEF vis
  <2>4. vis \in Stack /\ OnTheWay(includes, condition, setters, vis, <<>>, scalar, list)
    BY <1>4, <2>2, <2>3, EntryOnTheWay DEF vis
  <2>5. LoaderTypeOK'
    BY <1>1, <1>2, <2>1, <2>4 DEF LoaderTypeOK, Stack
  <2>6. LoadsWhatFilesSay'
    BY <1>2, <2>1 DEF LoadsWhatFilesSay, IncludesToldRight, ParentHasTheLastWord
  <2> QED
    BY <1>1, <1>2, <2>1, <2>4, <2>5, <2>6 DEF LoaderInv
<1> QED
  BY <1>5, <1>6

LEMMA OpenIncludeStep == LoaderInv /\ OpenInclude => LoaderInv'
<1> SUFFICES ASSUME LoaderInv, OpenInclude PROVE LoaderInv'
  OBVIOUS
<1> DEFINE f == Top.file
           i == Top.next
           g == includes[f][i]
           n == Len(visiting)
           w == Append([visiting EXCEPT ![Len(visiting)].next = @ + 1], [file |-> g, next |-> 1])
<1>1. UNCHANGED <<includes, condition, setters, loadedFiles, scalar, list, rewritten, schemes, unnamed>>
  BY DEF OpenInclude, merged
<1>2. /\ LoaderTypeOK /\ outcome = "none" /\ visiting # <<>> /\ i <= Len(includes[f])
      /\ OnTheWay(includes, condition, setters, visiting, loadedFiles, scalar, list)
  BY DEF OpenInclude, LoaderInv
<1>3. IF Refused(g) # ""
      THEN outcome' = Refused(g) /\ visiting' = <<>>
      ELSE visiting' = w /\ UNCHANGED outcome
  BY DEF OpenInclude, Enter
<1>4. includes \in Includes /\ loadedFiles \in Seq(Files)
  BY <1>2 DEF LoaderTypeOK, Includes
<1>5. /\ visiting \in Stack /\ n \in 1..n /\ f = At(visiting, n) /\ i = Nx(visiting, n) /\ f \in Files
      /\ i \in Nat /\ Len(includes[f]) \in Nat /\ DOMAIN includes[f] = 1..Len(includes[f])
      /\ \A k \in 1..Len(includes[f]) : includes[f][k] \in Files
  BY <1>2, TopIs
<1>6. /\ Built(includes, condition, setters, visiting, loadedFiles, list)
      /\ Valued(includes, setters, visiting, loadedFiles, scalar)
  BY <1>2 DEF OnTheWay
<1> HIDE DEF f, i, n, w
<1>7. i \in DOMAIN includes[f] /\ g \in Files
  <2>1. DOMAIN visiting = 1..n
    BY <1>5, StackIs DEF n
  <2>2. i \in 1..(Len(includes[f]) + 1)
    BY <1>5, <1>6, <2>1 DEF Built, Chained
  <2>3. i \in DOMAIN includes[f]
    BY <1>2, <1>5, <2>2
  <2> QED
    BY <1>5, <2>3
<1> HIDE DEF g
<1>8. RefusedTold(g)
  BY <1>2, <1>7, RefusedIs
<1>9. CASE Refused(g) # ""
  <2>1. outcome' = Refused(g) /\ visiting' = <<>>
    BY <1>3, <1>9
  <2>2. outcome' \in {"READ_FAILED", "INVALID_XML", "CONFIG_LIMIT", "INCLUDE_CYCLE", "INCLUDE_DUPLICATE"}
    BY <1>8, <1>9, <2>1 DEF RefusedTold
  <2>3. LoaderTypeOK'
    BY <1>1, <1>2, <2>1, <2>2 DEF LoaderTypeOK, LoadOutcomes
  <2>4. Refused(g) = "INCLUDE_CYCLE" => HasCycle(includes)
    <3>1. SUFFICES ASSUME Refused(g) = "INCLUDE_CYCLE" PROVE HasCycle(includes)
      OBVIOUS
    <3>2. PICK k \in 1..Len(visiting) : g = At(visiting, k)
      BY <1>8, <3>1 DEF RefusedTold
    <3> QED
      BY <1>4, <1>5, <1>6, <1>7, <3>2, CycleIsThere DEF g, n
  <2>5. Refused(g) = "INCLUDE_DUPLICATE" => ~IsTree(includes)
    <3>1. SUFFICES ASSUME Refused(g) = "INCLUDE_DUPLICATE" PROVE ~IsTree(includes)
      OBVIOUS
    <3>2. g \in ToSet(loadedFiles)
      BY <1>8, <3>1 DEF RefusedTold
    <3> QED
      BY <1>2, <1>4, <1>5, <1>6, <1>7, <3>2, DuplicateIsThere DEF g, n
  <2>6. LoadsWhatFilesSay'
    <3>1. includes' = includes
      BY <1>1
    <3>2. outcome' = "INCLUDE_CYCLE" => HasCycle(includes')
      BY <2>1, <2>4, <3>1
    <3>3. outcome' = "INCLUDE_DUPLICATE" => ~IsTree(includes')
      BY <2>1, <2>5, <3>1
    <3> QED
      BY <2>2, <3>2, <3>3 DEF LoadsWhatFilesSay, IncludesToldRight, ParentHasTheLastWord
  <2> QED
    BY <2>2, <2>3, <2>6 DEF LoaderInv
<1>10. CASE Refused(g) = ""
  <2>1. visiting' = w /\ outcome' = "none"
    BY <1>2, <1>3, <1>10
  <2>2. g \notin FilesIn(visiting, loadedFiles) /\ condition[g] = "good"
    BY <1>8, <1>10 DEF RefusedTold
  <2>3. OneMore(w, visiting, g)
    BY <1>2, <1>5, <1>7, Pushed DEF w
  <2>4. w \in Stack /\ w # <<>>
    <3>1. w \in Stack /\ Len(w) = n + 1 /\ n \in Nat
      BY <1>5, <2>3, StackIs DEF OneMore, n
    <3>2. Len(w) # 0
      BY <3>1
    <3> QED
      BY <3>1, <3>2
  <2>5. Built(includes, condition, setters, w, loadedFiles, list)
    <3>1. At(visiting, Len(visiting)) = f /\ Nx(visiting, Len(visiting)) = i
      BY <1>5 DEF n
    <3>2. includes[f][i] = g
      BY DEF g
    <3> QED
      BY <1>2, <1>4, <1>5, <1>6, <1>7, <2>2, <2>3, <3>1, <3>2, PushedBuilt
  <2>6. Valued(includes, setters, w, loadedFiles, scalar)
    BY <1>4, <1>5, <1>6, <2>3, PushedValue
  <2>7. OnTheWay(includes, condition, setters, w, loadedFiles, scalar, list)
    BY <2>4, <2>5, <2>6 DEF OnTheWay
  <2>8. LoaderTypeOK'
    BY <1>1, <1>2, <2>1, <2>4 DEF LoaderTypeOK, Stack
  <2>9. LoadsWhatFilesSay'
    BY <2>1 DEF LoadsWhatFilesSay, IncludesToldRight, ParentHasTheLastWord
  <2>10. OnTheWay(includes, condition, setters, visiting, loadedFiles, scalar, list)'
    BY <1>1, <2>1, <2>7
  <2> QED
    BY <2>8, <2>9, <2>10 DEF LoaderInv
<1> QED
  BY <1>9, <1>10

LEMMA ApplyFileStep == LoaderInv /\ ApplyFile => LoaderInv'
<1> SUFFICES ASSUME LoaderInv, ApplyFile PROVE LoaderInv'
  OBVIOUS
<1> DEFINE f == Top.file
           n == Len(visiting)
           w == Front(visiting)
           l == Append(loadedFiles, f)
           o == IF f \in setters THEN Append(list, f) ELSE list
           s == IF f \in setters THEN f ELSE scalar
<1>1. /\ UNCHANGED <<includes, condition, setters>>
      /\ loadedFiles' = l /\ scalar' = s /\ list' = o /\ rewritten' = f
      /\ schemes' = [schemes EXCEPT ![f] = ToSet(o)]
      /\ visiting' = w
      /\ IF n = 1 THEN outcome' = "naming" /\ unnamed' = l ELSE UNCHANGED <<outcome, unnamed>>
  BY DEF ApplyFile, GlobalValue, GlobalList, OwnGui, DefaultSchemes
<1>2. /\ LoaderTypeOK /\ outcome = "none" /\ visiting # <<>> /\ Top.next > Len(includes[f])
      /\ OnTheWay(includes, condition, setters, visiting, loadedFiles, scalar, list)
  BY DEF ApplyFile, LoaderInv
<1>3. /\ includes \in Includes /\ loadedFiles \in Seq(Files) /\ list \in Seq(Files)
      /\ setters \in SUBSET Files
  BY <1>2 DEF LoaderTypeOK, Includes
<1>4. /\ visiting \in Stack /\ n \in 1..n /\ n \in Nat /\ f = At(visiting, n) /\ f \in Files
      /\ Nx(visiting, n) > Len(includes[f])
  BY <1>2, TopIs
<1>5. /\ Built(includes, condition, setters, visiting, loadedFiles, list)
      /\ Valued(includes, setters, visiting, loadedFiles, scalar)
  BY <1>2 DEF OnTheWay
<1>6. OneLess(w, visiting)
  BY <1>2, <1>4, Popped
<1> HIDE DEF f, w
<1>7. w \in Stack /\ Len(w) = n - 1
  BY <1>6 DEF OneLess
<1>8. l \in Seq(Files) /\ o \in Seq(Files) /\ s \in Files \cup {None} /\ ToSet(o) \subseteq Files
  <2>1. l \in Seq(Files) /\ o \in Seq(Files)
    BY <1>3, <1>4
  <2>2. s \in Files \cup {None}
    BY <1>2, <1>4 DEF LoaderTypeOK
  <2> HIDE DEF l, o
  <2> QED
    BY <2>1, <2>2 DEF ToSet
<1>9. Built(includes, condition, setters, w, l, o)
  <2> HIDE DEF n
  <2> QED
    BY <1>2, <1>3, <1>4, <1>5, <1>6, AppliedBuilt DEF n
<1>10. PICK v \in [Files -> Files \cup {None}] :
          /\ Agrees(includes, setters, v, l)
          /\ n = 1 => s = v[f]
          /\ n > 1 => LastWord(includes, w, v, s)
  <2> HIDE DEF s
  <2>1. s = IF f \in setters THEN f ELSE scalar
    BY DEF s
  <2> HIDE DEF l
  <2>2. AppliedTold(includes, setters, w, loadedFiles, n, f, s)
    BY <1>2, <1>3, <1>4, <1>5, <1>6, <2>1, AppliedValue
  <2> QED
    BY <2>2 DEF AppliedTold, l
<1> HIDE DEF l, o, s, n
<1>11. LoaderTypeOK'
  <2>1. schemes' \in [Files -> SUBSET Files]
    BY <1>1, <1>2, <1>4, <1>8 DEF LoaderTypeOK
  <2>2. outcome' \in LoadOutcomes /\ unnamed' \in Seq(Files)
    BY <1>1, <1>2, <1>8 DEF LoaderTypeOK, LoadOutcomes
  <2> QED
    BY <1>1, <1>2, <1>4, <1>7, <1>8, <2>1, <2>2 DEF LoaderTypeOK, Stack
<1>12. CASE n # 1
  <2>1. n > 1 /\ w # <<>>
    <3>1. n > 1 /\ Len(w) # 0
      BY <1>4, <1>7, <1>12
    <3> QED
      BY <3>1
  <2>2. Valued(includes, setters, w, l, s)
    BY <1>10, <2>1 DEF Valued
  <2>3. OnTheWay(includes, condition, setters, w, l, s, o)
    BY <1>9, <2>1, <2>2 DEF OnTheWay
  <2>4. OnTheWay(includes, condition, setters, visiting, loadedFiles, scalar, list)'
    BY <1>1, <2>3
  <2>5. outcome' = "none"
    BY <1>1, <1>2, <1>12
  <2>6. LoadsWhatFilesSay'
    BY <2>5 DEF LoadsWhatFilesSay, IncludesToldRight, ParentHasTheLastWord
  <2> QED
    BY <1>11, <2>4, <2>6 DEF LoaderInv
<1>13. CASE n = 1
  <2>1. outcome' = "naming"
    BY <1>1, <1>13
  <2>2. f = EntryFile
    <3>1. visiting # <<>> => At(visiting, 1) = EntryFile
      BY <1>5 DEF Built, Chained
    <3> QED
      BY <1>2, <1>4, <1>13, <3>1
  <2>3. Len(w) = 0
    BY <1>7, <1>13
  <2>4. EntryFile \in ToSet(l)
    BY <1>3, <1>4, <2>2, AppendedSet DEF l
  <2>5. /\ Reach(includes)[EntryFile] = ToSet(l)
        /\ IsTree(includes)
        /\ \A x \in Reach(includes)[EntryFile] : condition[x] = "good"
    BY <1>3, <1>7, <1>8, <1>9, <2>3, <2>4, AllIsLoaded
  <2>6. InOrder(includes, l) /\ ToSet(o) = setters \cap ToSet(l) /\ IsInjective(o)
    BY <1>9 DEF Built
  <2>7. s = InForce(includes, setters)[EntryFile]
    <3>1. \A p \in DOMAIN l : InForce(includes, setters)[l[p]] = v[l[p]]
      BY <1>3, <1>8, <1>10, <2>6, InForceIs
    <3>2. PICK p \in DOMAIN l : EntryFile = l[p]
      BY <2>4 DEF ToSet
    <3>3. s = v[EntryFile]
      BY <1>10, <1>13, <2>2
    <3> QED
      BY <3>1, <3>2, <3>3
  <2>8. schemes'[EntryFile] = ToSet(o)
    BY <1>1, <1>2, <1>4, <2>2 DEF LoaderTypeOK
  <2>9. IncludesToldRight'
    <3>1. IsTree(includes') /\ \A x \in Reach(includes')[EntryFile] : condition'[x] = "good"
      BY <1>1, <2>5
    <3> QED
      BY <2>1, <3>1 DEF IncludesToldRight
  <2>10. ParentHasTheLastWord'
    <3>1. /\ scalar' = InForce(includes', setters')[EntryFile] /\ rewritten' = EntryFile
          /\ schemes'[EntryFile] = setters' \cap Reach(includes')[EntryFile]
          /\ IsInjective(list')
      BY <1>1, <2>2, <2>5, <2>6, <2>7, <2>8
    <3> QED
      BY <3>1 DEF ParentHasTheLastWord
  <2> QED
    BY <1>11, <2>1, <2>9, <2>10 DEF LoaderInv, LoadsWhatFilesSay
<1> QED
  BY <1>12, <1>13

LEMMA LoadEndsStep == LoaderInv /\ (NameItem \/ LoadReturns \/ CancelLoad) => LoaderInv'
<1> SUFFICES ASSUME LoaderInv, NameItem \/ LoadReturns \/ CancelLoad PROVE LoaderInv'
  OBVIOUS
<1>1. /\ UNCHANGED <<includes, condition, setters, loadedFiles, scalar, list, rewritten, schemes>>
      /\ outcome' \in {"naming", "ok", "CANCELLED"}
      /\ outcome' # "CANCELLED" => outcome = "naming"
      /\ visiting' \in {visiting, <<>>}
      /\ unnamed' \in {unnamed, <<>>} \/ (unnamed # <<>> /\ unnamed' = Tail(unnamed))
  BY DEF NameItem, LoadReturns, CancelLoad, merged
<1>2. LoaderTypeOK /\ LoadsWhatFilesSay
  BY DEF LoaderInv
<1>3. LoaderTypeOK'
  <2>1. unnamed' \in Seq(Files)
    <3>1. unnamed \in Seq(Files) /\ <<>> \in Seq(Files)
      BY <1>2 DEF LoaderTypeOK
    <3>2. unnamed # <<>> => Tail(unnamed) \in Seq(Files)
      BY <3>1
    <3>3. unnamed' \in {unnamed, <<>>} \/ (unnamed # <<>> /\ unnamed' = Tail(unnamed))
      BY <1>1
    <3> QED
      BY <3>1, <3>2, <3>3
  <2>2. visiting' \in Stack /\ outcome' \in LoadOutcomes
    <3>1. visiting \in Stack /\ <<>> \in Stack
      BY <1>2 DEF LoaderTypeOK, Stack
    <3> QED
      BY <1>1, <3>1 DEF LoadOutcomes
  <2> QED
    BY <1>1, <1>2, <2>1, <2>2 DEF LoaderTypeOK, Stack
<1>4. LoadsWhatFilesSay'
  <2>1. CASE outcome' = "CANCELLED"
    BY <2>1 DEF LoadsWhatFilesSay, IncludesToldRight, ParentHasTheLastWord
  <2>2. CASE outcome' # "CANCELLED"
    <3>1. outcome = "naming"
      BY <1>1, <2>2
    <3>2. /\ IsTree(includes)
          /\ \A f \in Reach(includes)[EntryFile] : condition[f] = "good"
          /\ scalar = InForce(includes, setters)[EntryFile]
          /\ rewritten = EntryFile
          /\ schemes[EntryFile] = setters \cap Reach(includes)[EntryFile]
          /\ IsInjective(list)
      BY <1>2, <3>1 DEF LoadsWhatFilesSay, IncludesToldRight, ParentHasTheLastWord
    <3>3. /\ IsTree(includes')
          /\ \A f \in Reach(includes')[EntryFile] : condition'[f] = "good"
          /\ scalar' = InForce(includes', setters')[EntryFile]
          /\ rewritten' = EntryFile
          /\ schemes'[EntryFile] = setters' \cap Reach(includes')[EntryFile]
          /\ IsInjective(list')
      BY <1>1, <3>2
    <3> QED
      BY <1>1, <3>3 DEF LoadsWhatFilesSay, IncludesToldRight, ParentHasTheLastWord
  <2> QED
    BY <2>1, <2>2
<1> QED
  BY <1>1, <1>3, <1>4 DEF LoaderInv

LEMMA LoaderIdles == LoaderInv /\ UNCHANGED loaderVars => LoaderInv'
<1> SUFFICES ASSUME LoaderInv, UNCHANGED loaderVars PROVE LoaderInv'
  OBVIOUS
<1>1. UNCHANGED <<includes, condition, setters, visiting, loadedFiles, scalar, list, rewritten,
                  schemes, unnamed, outcome>>
  BY DEF loaderVars
<1>2. LoaderTypeOK'
  BY <1>1 DEF LoaderInv, LoaderTypeOK
<1>3. LoadsWhatFilesSay'
  BY <1>1 DEF LoaderInv, LoadsWhatFilesSay, IncludesToldRight, ParentHasTheLastWord
<1>4. outcome' = "none" => OnTheWay(includes, condition, setters, visiting, loadedFiles, scalar, list)'
  BY <1>1 DEF LoaderInv
<1> QED
  BY <1>2, <1>3, <1>4 DEF LoaderInv

LEMMA LoaderInvHolds == LoaderSpec => []LoaderInv
<1>1. LoaderInit => LoaderInv
  BY LoaderStarts
<1>2. LoaderInv /\ [LoaderNext]_loaderVars => LoaderInv'
  BY OpenEntryStep, OpenIncludeStep, ApplyFileStep, LoadEndsStep, LoaderIdles DEF LoaderNext
<1> QED
  BY <1>1, <1>2, PTL DEF LoaderSpec

\* For any files with any includes, good and bad: a configuration is loaded only
\* if its includes are a tree of good files, the cycle or the duplicate that is
\* reported is there, and what is in force is what the files say, the includer
\* over what it includes and a later include over an earlier one
\* (loader.ts:499, 596, 627, 630).
THEOREM FilesAreLoadedAsTold == LoaderSpec => []LoadsWhatFilesSay
<1>1. LoaderInv => LoadsWhatFilesSay
  BY DEF LoaderInv
<1> QED
  BY <1>1, LoaderInvHolds, PTL

-----------------------------------------------------------------------------
(* All services together.  They share no variable, so a behaviour of       *)
(* ServicesSpec is one of each module: whatever is proved of a module      *)
(* holds beside the others.                                                *)

LEMMA PartsStart ==
    ServicesInit => /\ CacheInit /\ ChannelInit /\ OwnedInit /\ FrameInit /\ HostInit
                    /\ LoaderInit /\ SelectorInit /\ CodecInit /\ PlanInit
<1> SUFFICES ASSUME ServicesInit
             PROVE  /\ CacheInit /\ ChannelInit /\ OwnedInit /\ FrameInit /\ HostInit
                    /\ LoaderInit /\ SelectorInit /\ CodecInit /\ PlanInit
  OBVIOUS
<1>1. CacheInit
  BY DEF ServicesInit, CacheRests
<1>2. ChannelInit /\ FrameInit
  BY DEF ServicesInit
<1>3. OwnedInit
  BY DEF ServicesInit, OwnedRests
<1>4. HostInit
  BY DEF ServicesInit, HostRests
<1>5. LoaderInit
  BY DEF ServicesInit, LoaderRests
<1>6. SelectorInit
  BY DEF ServicesInit, SelectorRests
<1>7. CodecInit
  BY DEF ServicesInit, CodecRests
<1>8. PlanInit
  BY DEF ServicesInit, PlanRests
<1> QED
  BY <1>1, <1>2, <1>3, <1>4, <1>5, <1>6, <1>7, <1>8

LEMMA PartsStep ==
    [ServicesNext]_<<part, servicesVars>> =>
        /\ [CacheNext]_cacheVars /\ [ChannelNext]_channelVars /\ [OwnedNext]_ownedVars
        /\ [FrameNext]_frameVars /\ [HostNext]_hostVars /\ [LoaderNext]_loaderVars
        /\ [SelectorNext]_selectorVars /\ [CodecNext]_codecVars /\ [PlanNext]_planVars
<1>1. CASE ServicesNext
  BY <1>1 DEF ServicesNext
<1>2. CASE UNCHANGED <<part, servicesVars>>
  BY <1>2 DEF servicesVars
<1> QED
  BY <1>1, <1>2

LEMMA PartsBehave ==
    ServicesSpec => /\ CacheSpec /\ ChannelSpec /\ OwnedSpec /\ FrameSpec /\ HostSpec
                    /\ LoaderSpec /\ SelectorSpec /\ CodecSpec /\ PlanSpec
  BY PartsStart, PartsStep, PTL
     DEF ServicesSpec, CacheSpec, ChannelSpec, OwnedSpec, FrameSpec, HostSpec,
         LoaderSpec, SelectorSpec, CodecSpec, PlanSpec

\* One thread at most holds the slot.
LEMMA ChannelInvTyped == ChannelInv => ChannelTypeOK
<1> SUFFICES ASSUME ChannelInv PROVE ChannelTypeOK
  OBVIOUS
<1>1. CASE slotHolder = {}
  BY <1>1, FS_EmptySet DEF ChannelInv, ChannelTypes, ChannelTypeOK
<1>2. CASE slotHolder # {}
  <2>1. PICK t \in slotHolder : slotHolder = {t}
    BY <1>2 DEF ChannelInv, Holders
  <2>2. Cardinality(slotHolder) = 1
    BY <2>1, FS_Singleton
  <2> QED
    BY <2>2 DEF ChannelInv, ChannelTypes, ChannelTypeOK
<1> QED
  BY <1>1, <1>2

\* Every variable of the nine modules keeps its type, however large the
\* instances are.
THEOREM ServicesTyped == ServicesSpec => []ServicesTypeOK
<1>1. CacheInv => CacheTypeOK
  BY DEF CacheInv
<1>2. OwnedInv => OwnedTypeOK
  BY DEF OwnedInv
<1>3. FrameInv => FrameTypeOK
  BY DEF FrameInv
<1>4. HostInv => HostTypeOK
  BY DEF HostInv
<1>5. LoaderInv => LoaderTypeOK
  BY DEF LoaderInv
<1>6. SelInv => SelectorTypeOK
  BY DEF SelInv
<1>7. OwnedSpec => []OwnedInv
  BY OwnedInvariance
<1>8. FrameSpec => []FrameInv
  BY FrameInvInit, FrameInvNext, PTL DEF FrameSpec
<1>9. HostSpec => []HostInv
  BY HostInitInv, HostStep, PTL DEF HostSpec
<1> QED
  BY PartsBehave, CacheInvariance, ChannelInvariance, ChannelInvTyped, LoaderInvHolds,
     CodecInvHolds, CodecInvTyped, PlanInvHolds, PlanInvTyped, <1>1, <1>2, <1>3, <1>4, <1>5,
     <1>6, <1>7, <1>8, <1>9, SelInvHolds, PTL DEF ServicesTypeOK

\* What each service promises it promises beside the others as well.
THEOREM ServicesKeepTheirWord ==
    ServicesSpec => [](/\ RunsOnItsOwn /\ SlotKept /\ NobodyForgotten /\ NothingLeftUnseen
                       /\ FramesArriveWhole /\ AccountedOnce /\ LoadsWhatFilesSay
                       /\ BatchesAgree /\ ArgvArrives /\ PlanIsWhatIsShown)
  BY PartsBehave, PayloadKept, SlotIsKept, WaitersRegistered, NothingHidden, FramesAreWhole,
     InvocationsAccounted, FilesAreLoadedAsTold, BatchesPickTheSame, ArgumentsArrive,
     PlansAreShown, PTL
=============================================================================
