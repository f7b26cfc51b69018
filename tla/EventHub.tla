------------------------------- MODULE EventHub -------------------------------
(***************************************************************************)
(* The three hubs that push updates to browsers: the WebSocket manager of  *)
(* the operator, the WebSocket hub of its former server, and the hub of    *)
(* server-sent events.  Each is one loop over three channels; a client has *)
(* a buffered channel, a goroutine that reads and one that writes.         *)
(*                                                                         *)
(* They differ in what becomes of a client whose buffer is full: the hub   *)
(* drops it, the event hub skips it, and the manager asks for the lock     *)
(* that its own loop holds, and waits for ever.                            *)
(***************************************************************************)
EXTENDS Integers, FiniteSets

CONSTANTS
    Browsers,
    BufferSize,     \* capacity of a client's channel
    MaxEvents       \* bound on published updates and client messages together

ASSUME HubAssumption == BufferSize \in Nat \ {0} /\ MaxEvents \in Nat

VARIABLES
    hub,        \* which of the three
    loop,       \* "select", "broadcast", "stuck" or "gone"
    stopped,    \* whether the stop channel is closed
    members,    \* the registered clients
    todo,       \* clients that the broadcast under way has still to reach
    queue,      \* updates in the broadcast channel
    buffer,     \* buffer[c]: messages in the channel of c
    closes,     \* closes[c]: how often that channel was closed
    reader,     \* reader[c]: the goroutine that reads from the connection
    writer,     \* writer[c]: the goroutine that writes to it
    crashed,    \* a send on a closed channel has ended the process
    events

hubVars == <<hub, loop, stopped, members, todo, queue, buffer, closes, reader, writer, crashed, events>>

HubInit ==
    /\ hub \in {"manager", "former", "sse"}
    /\ loop = "select"
    /\ stopped = FALSE
    /\ members = {}
    /\ todo = {}
    /\ queue = 0
    /\ buffer = [c \in Browsers |-> 0]
    /\ closes = [c \in Browsers |-> 0]
    /\ reader = [c \in Browsers |-> "new"]
    /\ writer = [c \in Browsers |-> "new"]
    /\ crashed = FALSE
    /\ events = 0

-----------------------------------------------------------------------------

Reads(c, at) == reader' = [reader EXCEPT ![c] = at]

Event == events < MaxEvents /\ events' = events + 1

\* Only a registered client is removed and its channel closed.
Drop(c) ==
    IF c \in members
    THEN members' = members \ {c} /\ closes' = [closes EXCEPT ![c] = @ + 1]
    ELSE UNCHANGED <<members, closes>>

\* Mutant: the channel of any client is closed.
CloseAnyway(c) == members' = members \ {c} /\ closes' = [closes EXCEPT ![c] = @ + 1]

UnregisterClient(c) == Drop(c)

-----------------------------------------------------------------------------
(* The loop.                                                               *)

\* A client waits with its registration until the loop takes it; it is welcomed.
TakeRegister(c) ==
    /\ loop = "select" /\ reader[c] = "registering"
    /\ members' = members \union {c}
    /\ buffer' = IF hub = "sse" THEN buffer ELSE [buffer EXCEPT ![c] = @ + 1]
    /\ Reads(c, "reading")
    /\ writer' = [writer EXCEPT ![c] = "writing"]
    /\ UNCHANGED <<hub, loop, stopped, todo, queue, closes, crashed, events>>

\* A reader that found the buffer full goes on reading; one that has ended is gone.
TakeUnregister(c) ==
    /\ loop = "select" /\ reader[c] \in {"dropping", "leaving"}
    /\ UnregisterClient(c)
    /\ Reads(c, IF reader[c] = "dropping" THEN "reading" ELSE "gone")
    /\ UNCHANGED <<hub, loop, stopped, todo, queue, buffer, writer, crashed, events>>

TakeBroadcast ==
    /\ loop = "select" /\ queue > 0
    /\ queue' = queue - 1
    /\ loop' = "broadcast"
    /\ todo' = members
    /\ UNCHANGED <<hub, stopped, members, buffer, closes, reader, writer, crashed, events>>

DeliverTo(c) ==
    /\ loop = "broadcast" /\ c \in todo
    /\ todo' = todo \ {c}
    /\ \/ /\ buffer[c] < BufferSize
          /\ buffer' = [buffer EXCEPT ![c] = @ + 1]
          /\ UNCHANGED <<loop, members, closes>>
       \/ /\ buffer[c] = BufferSize
          /\ CASE hub = "manager" -> loop' = "stuck" /\ UNCHANGED <<members, closes>>
               [] hub = "former"  -> Drop(c) /\ UNCHANGED loop
               [] hub = "sse"     -> UNCHANGED <<loop, members, closes>>
          /\ UNCHANGED buffer
    /\ UNCHANGED <<hub, stopped, queue, reader, writer, crashed, events>>

EndBroadcast ==
    /\ loop = "broadcast" /\ todo = {}
    /\ loop' = "select"
    /\ UNCHANGED <<hub, stopped, members, todo, queue, buffer, closes, reader, writer, crashed, events>>

\* The lock is not to be had while a broadcast goes on, or is stuck.
Stop ==
    /\ hub = "manager" /\ ~stopped /\ loop = "select"
    /\ stopped' = TRUE
    /\ UNCHANGED <<hub, loop, members, todo, queue, buffer, closes, reader, writer, crashed, events>>

EndLoop ==
    /\ loop = "select" /\ stopped
    /\ loop' = "gone"
    /\ members' = {}
    /\ closes' = [c \in Browsers |-> closes[c] + IF c \in members THEN 1 ELSE 0]
    /\ UNCHANGED <<hub, stopped, todo, queue, buffer, reader, writer, crashed, events>>

-----------------------------------------------------------------------------
(* Clients and publishers.                                                 *)

HandleWebSocket(c) ==
    /\ hub # "sse" /\ reader[c] = "new"
    /\ Reads(c, "registering")
    /\ UNCHANGED <<hub, loop, stopped, members, todo, queue, buffer, closes, writer, crashed, events>>

HandleSSE(c) ==
    /\ hub = "sse" /\ reader[c] = "new"
    /\ Reads(c, "registering")
    /\ UNCHANGED <<hub, loop, stopped, members, todo, queue, buffer, closes, writer, crashed, events>>

\* The manager drops an update that finds the channel full; the others let the caller wait.
BroadcastUpdate ==
    /\ Event
    /\ \/ queue = 0 /\ queue' = 1
       \/ queue = 1 /\ hub = "manager" /\ UNCHANGED queue
    /\ UNCHANGED <<hub, loop, stopped, members, todo, buffer, closes, reader, writer, crashed>>

\* The answer goes to the client's own channel, which the loop may have closed: a message
\* that was read before the connection was closed ends the process.
HandleMessage(c) ==
    /\ hub = "manager" /\ reader[c] = "reading" /\ Event
    /\ \/ /\ closes[c] > 0
          /\ crashed' = TRUE
          /\ UNCHANGED <<buffer, reader>>
       \/ /\ closes[c] = 0 /\ buffer[c] < BufferSize
          /\ buffer' = [buffer EXCEPT ![c] = @ + 1]
          /\ UNCHANGED <<reader, crashed>>
       \/ /\ closes[c] = 0 /\ buffer[c] = BufferSize
          /\ Reads(c, "dropping")
          /\ UNCHANGED <<buffer, crashed>>
    /\ UNCHANGED <<hub, loop, stopped, members, todo, queue, closes, writer>>

\* The connection fails, times out or is closed at either end; of server-sent events, the
\* one goroutine ends when a write fails or the request is over.
ReadPump(c) ==
    /\ reader[c] = "reading"
    /\ Reads(c, "leaving")
    /\ writer' = IF hub = "sse" THEN [writer EXCEPT ![c] = "gone"] ELSE writer
    /\ UNCHANGED <<hub, loop, stopped, members, todo, queue, buffer, closes, crashed, events>>

\* All that is queued goes into one message; a closed channel or a failed write ends it.
WritePump(c) ==
    /\ writer[c] = "writing"
    /\ \/ buffer[c] > 0 /\ buffer' = [buffer EXCEPT ![c] = 0] /\ UNCHANGED writer
       \/ buffer[c] = 0 /\ closes[c] > 0 /\ writer' = [writer EXCEPT ![c] = "gone"] /\ UNCHANGED buffer
       \/ hub # "sse" /\ writer' = [writer EXCEPT ![c] = "gone"] /\ UNCHANGED buffer
    /\ UNCHANGED <<hub, loop, stopped, members, todo, queue, closes, reader, crashed, events>>

HubNext ==
    /\ ~crashed
    /\ \/ TakeBroadcast \/ EndBroadcast \/ Stop \/ EndLoop \/ BroadcastUpdate
       \/ \E c \in Browsers :
             TakeRegister(c) \/ TakeUnregister(c) \/ DeliverTo(c) \/ HandleWebSocket(c) \/ HandleSSE(c)
                \/ HandleMessage(c) \/ ReadPump(c) \/ WritePump(c)

-----------------------------------------------------------------------------

\* No channel is closed twice, and the loop sends to open channels only, whatever the reader,
\* the broadcast and the stop of the manager have asked for one client: each of these
\* would end the process.
ClosedOnce == \A c \in Browsers : closes[c] \leq 1 /\ (c \in members \union todo => closes[c] = 0)
=============================================================================
