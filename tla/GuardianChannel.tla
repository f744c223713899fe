-------------------------- MODULE GuardianChannel --------------------------
(***************************************************************************)
(* guardian.rs: the channel from the shell to the guardian process.  Many  *)
(* threads make requests on the channel in the slot; a channel that has    *)
(* died stays in the slot until restart; closing the shell takes it out    *)
(* for good.                                                               *)
(*                                                                         *)
(* A thread has one request at a time, so a request is named by its        *)
(* thread.  Payloads, fault replies and replies of an unexpected kind are  *)
(* answers like any other.                                                 *)
(***************************************************************************)
EXTENDS Naturals, Sequences, FiniteSets

CONSTANTS Threads,      \* threads that run commands of the UI
          MaxPending,   \* requests of a channel (128 in the code)
          QueueSize,    \* frames that wait for the writer thread (16)
          MaxChannels   \* bound on the channels

ASSUME ChannelAssumption ==
    MaxPending \in Nat /\ QueueSize \in Nat /\ MaxChannels \in Nat

VARIABLES
    slot,        \* GuardianState.client: the number of a channel, 0 for none
    slotHolder,  \* the threads that hold its lock
    closed,      \* GuardianState.closed
    started,     \* channels that were started
    process,     \* up or gone, of each channel
    deadChannel, \* Pending.dead is set
    pending,     \* Pending.requests
    outbox,      \* the queue of the writer thread
    sentOut,     \* requests the guardian has read and not answered
    replied,     \* replies on their way to the reader thread
    writing,     \* the writer thread runs
    reading,     \* the reader thread runs
    doing,       \* what each thread is at
    channel,     \* the channel each thread works with
    reply        \* what the sender of a request was given: none, ok or dead

channelVars == <<slot, slotHolder, closed, started, process, deadChannel, pending, outbox,
                 sentOut, replied, writing, reading, doing, channel, reply>>

wire == <<process, deadChannel, pending, outbox, sentOut, replied, writing, reading>>

Channels == 1..MaxChannels

Doings == {"idle", "starting", "calling", "sending", "waiting", "expired", "killing",
           "aborting", "restarting", "closing", "closed"}

ShutdownFrame == "shutdown"

ChannelTypeOK ==
    /\ slot \in 0..MaxChannels /\ started \in 0..MaxChannels
    /\ slotHolder \subseteq Threads /\ Cardinality(slotHolder) <= 1
    /\ process \in [Channels -> {"none", "up", "gone"}]
    /\ pending \in [Channels -> SUBSET Threads]
    /\ doing \in [Threads -> Doings]
    /\ channel \in [Threads -> 0..MaxChannels]
    /\ reply \in [Threads -> {"none", "ok", "dead"}]

ChannelInit ==
    /\ slot = 0 /\ slotHolder = {} /\ closed = FALSE /\ started = 0
    /\ process = [c \in Channels |-> "none"]
    /\ deadChannel = [c \in Channels |-> FALSE]
    /\ pending = [c \in Channels |-> {}]
    /\ outbox = [c \in Channels |-> <<>>]
    /\ sentOut = [c \in Channels |-> {}]
    /\ replied = [c \in Channels |-> {}]
    /\ writing = [c \in Channels |-> FALSE]
    /\ reading = [c \in Channels |-> FALSE]
    /\ doing = [t \in Threads |-> "idle"]
    /\ channel = [t \in Threads |-> 0]
    /\ reply = [t \in Threads |-> "none"]

Turns(t, to) == doing' = [doing EXCEPT ![t] = to]

\* Mutant: the pending requests are dropped without an answer.
MarkDead_Silent(c) ==
    /\ deadChannel' = [deadChannel EXCEPT ![c] = TRUE]
    /\ pending' = [pending EXCEPT ![c] = {}]
    /\ reply' = reply

\* mark_dead: what is pending is answered with the error.
MarkDead(c) ==
    /\ deadChannel' = [deadChannel EXCEPT ![c] = TRUE]
    /\ pending' = [pending EXCEPT ![c] = {}]
    /\ reply' = [t \in Threads |-> IF t \in pending[c] THEN "dead" ELSE reply[t]]

-----------------------------------------------------------------------------
(* GuardianState *)

\* start_with_paths up to the handshake: the process and the two threads of its
\* channel.
Started(t) ==
    /\ started < MaxChannels
    /\ started' = started + 1
    /\ slotHolder' = {t}
    /\ channel' = [channel EXCEPT ![t] = started']
    /\ process' = [process EXCEPT ![started'] = "up"]
    /\ writing' = [writing EXCEPT ![started'] = TRUE]
    /\ reading' = [reading EXCEPT ![started'] = TRUE]
    /\ Turns(t, "starting")

\* Mutant: closed is not looked at under the lock.
Ensure_AfterClose(t) ==
    /\ doing[t] = "idle" /\ slotHolder = {}
    /\ IF slot # 0
       THEN /\ Turns(t, "calling")
            /\ channel' = [channel EXCEPT ![t] = slot]
            /\ UNCHANGED <<slotHolder, started, process, writing, reading>>
       ELSE Started(t)
    /\ UNCHANGED <<slot, closed, deadChannel, pending, outbox, sentOut, replied, reply>>

\* ensure: the channel in the slot, dead or alive, or a new one.
Ensure(t) ==
    /\ doing[t] = "idle" /\ slotHolder = {}
    /\ ~closed
    /\ IF slot # 0
       THEN /\ Turns(t, "calling")
            /\ channel' = [channel EXCEPT ![t] = slot]
            /\ UNCHANGED <<slotHolder, started, process, writing, reading>>
       ELSE Started(t)
    /\ UNCHANGED <<slot, closed, deadChannel, pending, outbox, sentOut, replied, reply>>

\* restart and shutdown take the channel out and reap it under the lock.  The
\* shutdown frame is queued if there is room.  (A request registered between
\* the frame and mark_dead ends like one registered before.)
TakeOut(t, to, done) ==
    /\ doing[t] = "idle" /\ slotHolder = {}
    /\ slot' = 0
    /\ IF slot = 0 THEN Turns(t, done) /\ UNCHANGED <<slotHolder, channel, wire, reply>>
       ELSE /\ Turns(t, to)
            /\ slotHolder' = {t}
            /\ channel' = [channel EXCEPT ![t] = slot]
            /\ outbox' = IF writing[slot] /\ Len(outbox[slot]) < QueueSize
                         THEN [outbox EXCEPT ![slot] = Append(@, ShutdownFrame)] ELSE outbox
            /\ MarkDead(slot)
            /\ UNCHANGED <<process, sentOut, replied, writing, reading>>
    /\ UNCHANGED <<closed, started>>

Restart(t) == TakeOut(t, "restarting", "idle")

\* closed is set before the lock is taken: who comes later finds it set.
SetClosed ==
    /\ ~closed /\ closed' = TRUE
    /\ UNCHANGED <<slot, slotHolder, started, wire, doing, channel, reply>>

CloseShell(t) == closed /\ TakeOut(t, "closing", "closed")

\* The process of c is gone: nothing it was asked will be answered.
ProcessGone(c) ==
    /\ process' = [process EXCEPT ![c] = "gone"]
    /\ sentOut' = [sentOut EXCEPT ![c] = {}]

\* reap: the process has exited, or is killed after 10 s.
Reaped(t) ==
    /\ doing[t] \in {"restarting", "closing"}
    /\ ProcessGone(channel[t])
    /\ Turns(t, IF doing[t] = "closing" THEN "closed" ELSE "idle")
    /\ slotHolder' = {}
    /\ channel' = [channel EXCEPT ![t] = 0]
    /\ UNCHANGED <<slot, closed, started, deadChannel, pending, outbox, replied, writing,
                   reading, reply>>

\* The handshake has failed: the channel is killed, dropped and reaped.
Aborted(t) ==
    /\ doing[t] = "aborting"
    /\ ProcessGone(channel[t])
    /\ MarkDead(channel[t])
    /\ Turns(t, "idle")
    /\ slotHolder' = {}
    /\ channel' = [channel EXCEPT ![t] = 0]
    /\ UNCHANGED <<slot, closed, started, outbox, replied, writing, reading>>

-----------------------------------------------------------------------------
(* request; the handshake is one, made under the lock of the slot. *)

Shaking(t) == t \in slotHolder

RequestReturns(t) ==
    IF Shaking(t) THEN Turns(t, "aborting") /\ UNCHANGED channel
    ELSE Turns(t, "idle") /\ channel' = [channel EXCEPT ![t] = 0]

\* A dead channel refuses, a full one too; else the sender is registered.
Register(t) ==
    /\ doing[t] \in {"starting", "calling"}
    /\ LET c == channel[t]
       IN IF deadChannel[c] \/ Cardinality(pending[c]) >= MaxPending
          THEN RequestReturns(t) /\ UNCHANGED pending
          ELSE /\ Turns(t, "sending")
               /\ pending' = [pending EXCEPT ![c] = @ \cup {t}]
               /\ UNCHANGED channel
    /\ UNCHANGED <<slot, slotHolder, closed, started, process, deadChannel, outbox, sentOut,
                   replied, writing, reading, reply>>

\* write_envelope: try_send fails on a full queue or without a writer.
Enqueue(t) ==
    /\ doing[t] = "sending"
    /\ LET c == channel[t]
       IN IF writing[c] /\ Len(outbox[c]) < QueueSize
          THEN /\ outbox' = [outbox EXCEPT ![c] = Append(@, t)]
               /\ Turns(t, "waiting")
               /\ UNCHANGED <<pending, channel, reply>>
          ELSE /\ pending' = [pending EXCEPT ![c] = @ \ {t}]
               /\ RequestReturns(t)
               /\ reply' = [reply EXCEPT ![t] = "none"]
               /\ UNCHANGED outbox
    /\ UNCHANGED <<slot, slotHolder, closed, started, process, deadChannel, sentOut, replied,
                   writing, reading>>

\* A started channel goes to the slot once its handshake is answered.
Answer(t) ==
    /\ doing[t] = "waiting" /\ reply[t] # "none"
    /\ reply' = [reply EXCEPT ![t] = "none"]
    /\ IF reply[t] = "ok" /\ Shaking(t)
       THEN slot' = channel[t] /\ slotHolder' = {} /\ Turns(t, "calling") /\ UNCHANGED channel
       ELSE RequestReturns(t) /\ UNCHANGED <<slot, slotHolder>>
    /\ UNCHANGED <<closed, started, wire>>

\* The deadline: the request is forgotten, the channel dies, its process is killed.
Expire(t) ==
    /\ doing[t] = "waiting" /\ reply[t] = "none"
    /\ Turns(t, "expired")
    /\ pending' = [pending EXCEPT ![channel[t]] = @ \ {t}]
    /\ UNCHANGED <<slot, slotHolder, closed, started, process, deadChannel, outbox, sentOut,
                   replied, writing, reading, channel, reply>>

ExpireChannel(t) ==
    /\ doing[t] = "expired"
    /\ Turns(t, "killing")
    /\ MarkDead(channel[t])
    /\ UNCHANGED <<slot, slotHolder, closed, started, process, outbox, sentOut, replied,
                   writing, reading, channel>>

Kill(t) ==
    /\ doing[t] = "killing"
    /\ ProcessGone(channel[t])
    /\ RequestReturns(t)
    /\ UNCHANGED <<slot, slotHolder, closed, started, deadChannel, pending, outbox, replied,
                   writing, reading, reply>>

-----------------------------------------------------------------------------
(* The threads of a channel, and the guardian. *)

\* A frame of a dead channel is skipped, unless it asks for the shutdown.
Write(c) ==
    /\ writing[c] /\ outbox[c] # <<>>
    /\ outbox' = [outbox EXCEPT ![c] = Tail(@)]
    /\ LET frame == Head(outbox[c])
       IN IF frame # ShutdownFrame /\ deadChannel[c]
          THEN UNCHANGED <<deadChannel, pending, reply, writing, sentOut>>
          ELSE IF process[c] = "up"
          THEN /\ sentOut' = IF frame = ShutdownFrame THEN sentOut
                             ELSE [sentOut EXCEPT ![c] = @ \cup {frame}]
               /\ UNCHANGED <<deadChannel, pending, reply, writing>>
          ELSE /\ MarkDead(c)
               /\ writing' = [writing EXCEPT ![c] = FALSE]
               /\ UNCHANGED sentOut
    /\ UNCHANGED <<slot, slotHolder, closed, started, process, replied, reading, doing,
                   channel>>

GuardianReplies(c, t) ==
    /\ process[c] = "up" /\ t \in sentOut[c]
    /\ sentOut' = [sentOut EXCEPT ![c] = @ \ {t}]
    /\ replied' = [replied EXCEPT ![c] = @ \cup {t}]
    /\ UNCHANGED <<slot, slotHolder, closed, started, process, deadChannel, pending, outbox,
                   writing, reading, doing, channel, reply>>

GuardianExits(c) ==
    /\ process[c] = "up"
    /\ ProcessGone(c)
    /\ UNCHANGED <<slot, slotHolder, closed, started, deadChannel, pending, outbox, replied,
                   writing, reading, doing, channel, reply>>

\* A reply nobody waits for is dropped.
ReadReply(c, t) ==
    /\ reading[c] /\ t \in replied[c]
    /\ replied' = [replied EXCEPT ![c] = @ \ {t}]
    /\ IF t \in pending[c]
       THEN /\ pending' = [pending EXCEPT ![c] = @ \ {t}]
            /\ reply' = [reply EXCEPT ![t] = "ok"]
       ELSE UNCHANGED <<pending, reply>>
    /\ UNCHANGED <<slot, slotHolder, closed, started, process, deadChannel, outbox, sentOut,
                   writing, reading, doing, channel>>

\* The end of the stream, or a frame that cannot be read.
ReaderStops(c) ==
    /\ reading[c]
    /\ reading' = [reading EXCEPT ![c] = FALSE]
    /\ replied' = [replied EXCEPT ![c] = {}]
    /\ MarkDead(c)
    /\ UNCHANGED <<slot, slotHolder, closed, started, process, outbox, sentOut, writing, doing,
                   channel>>

ChannelNext ==
    \/ SetClosed
    \/ \E t \in Threads :
          \/ Ensure(t) \/ Restart(t) \/ CloseShell(t) \/ Reaped(t) \/ Aborted(t)
          \/ Register(t) \/ Enqueue(t) \/ Answer(t)
          \/ Expire(t) \/ ExpireChannel(t) \/ Kill(t)
    \/ \E c \in Channels :
          \/ Write(c) \/ GuardianExits(c) \/ ReaderStops(c)
          \/ \E t \in Threads : GuardianReplies(c, t) \/ ReadReply(c, t)

ChannelSpec == ChannelInit /\ [][ChannelNext]_channelVars

-----------------------------------------------------------------------------
\* Properties.

\* There is at most one guardian process, whatever expires, restarts or closes
\* at the same time.
OneGuardian == Cardinality({c \in Channels : process[c] = "up"}) <= 1

\* When the shell has closed, its guardian is gone and no thread that asked
\* before starts another (guardian.rs:582, 611).
ClosedForGood == (\E t \in Threads : doing[t] = "closed") => \A c \in Channels : process[c] # "up"

\* Both: what the slot promises.
SlotKept == OneGuardian /\ ClosedForGood

\* A request waits only for a channel that is alive: whoever is not registered
\* any more has been given a reply or the death of the channel, whichever
\* thread came first (guardian.rs:78, 408).
NobodyForgotten ==
    \A t \in Threads : doing[t] = "waiting" /\ reply[t] = "none" => t \in pending[channel[t]]
=============================================================================
