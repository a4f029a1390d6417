----------------------------- MODULE Collaboration -----------------------------
(***************************************************************************)
(* How the browsers that have a workbook open learn of its changes: the    *)
(* hub of internal/collaboration/hub.go, the handlers that publish to it,  *)
(* and the editor of the web client (state/collaboration.ts, EditorPage,   *)
(* CanvasGrid).                                                            *)
(*                                                                         *)
(* A handler commits a change, then publishes it, then answers: changes    *)
(* are published in any order, and a server that stops in between has not  *)
(* published them at all.  The hub puts an event into the bounded queue of *)
(* every connection and cuts off a connection whose queue is full.  The    *)
(* editor holds a version number, the workbook it fetched and the cells it *)
(* read; an event, the answer to its own change and a fetched workbook all *)
(* move the version, and a moved version makes the grid read its cells     *)
(* again.                                                                  *)
(*                                                                         *)
(* Of a workbook only its version is kept: fetching or reading shows the   *)
(* version the server has at that moment.  Cursors, selections, comments   *)
(* and presence take places in the queues.                                 *)
(***************************************************************************)
EXTENDS Integers, Sequences, FiniteSets, FiniteSetsExt

CONSTANTS
    Browsers,
    Nobody,         \* the author of a change that carries no client_id
    Changes,        \* the kinds of change users make: "operation", "structure", "current"
    QueueSize,      \* capacity of client.send
    MaxVersion, MaxFaults       \* bounds

ASSUME SizesAssumption ==
    /\ QueueSize \in Nat \ {0} /\ MaxVersion \in Nat \ {0} /\ MaxFaults \in Nat
ASSUME ChangesAssumption == Changes \subseteq {"operation", "structure", "current"}
ASSUME BrowsersAssumption == IsFiniteSet(Browsers) /\ Nobody \notin Browsers

Versions == 1..MaxVersion

\* An event: its server_version, 0 when it has none, and whether it is a
\* structural change made by somebody else.
Events == [version : 0..MaxVersion, structural : BOOLEAN]

\* A change that is committed and what its handler still has to publish.
Publications == [version : Versions, kind : {"operation", "structure", "current", "version"},
                 by : Browsers \cup {Nobody}]

\* The connection of a browser as the server has it; book is the version read before
\* register.  A connection whose browser is gone counts as free: it stays in the room
\* until a write or a ping fails, but nobody receives its events.
Free == [state |-> "free"]
Peers == [state : {"accepted", "registered", "greeted", "cancelled"}, book : Versions,
          queue : Seq(Events)]

\* A request of a browser: none, sent, or the version the server answered with.
NoRequest == -1
Sent == 0
Requests == {NoRequest, Sent} \cup Versions

NoCells == 0

VARIABLES
    version,        \* workbooks.version
    unpublished,    \* handlers that have committed and not published
    answers,        \* responses on their way to the browser that made the change
    abandoned,      \* versions whose handler gave up publishing
    peer,           \* the connections of the hub
    faults,         \* bound counter: breaks, stops, failed requests, events without a version
    browser         \* the editor of each browser

vars == <<version, unpublished, answers, abandoned, peer, faults, browser>>

\* socket tells whether its socket is open; serverVersion is the version of the
\* editor; data the version of workbook.data, 0 before the first load; fetch and
\* read are the requests for the workbook and for the visible cells; shown is the
\* version the cells on the screen were read at; gaveUp tells which request failed.
Editors == [socket : BOOLEAN, serverVersion : Versions, data : 0..MaxVersion,
            fetch : Requests, read : Requests, shown : 0..MaxVersion,
            gaveUp : SUBSET {"workbook", "cells"}]

\* Versions and requests are in range, and no queue of the hub is longer than its channel
\* (client.send), which enqueue has to see to.
TypeOK ==
    /\ version \in Versions
    /\ unpublished \subseteq Publications
    /\ answers \subseteq Publications
    /\ abandoned \subseteq Versions
    /\ peer \in [Browsers -> Peers \cup {Free}]
    /\ \A b \in Browsers : peer[b] # Free => Len(peer[b].queue) <= QueueSize
    /\ faults \in 0..MaxFaults
    /\ browser \in [Browsers -> Editors]

\* The page has just been opened: the query fetches the workbook, the socket opens.
Init ==
    /\ version = 1
    /\ unpublished = {}
    /\ answers = {}
    /\ abandoned = {}
    /\ peer = [b \in Browsers |-> Free]
    /\ faults = 0
    /\ browser = [b \in Browsers |->
                    [socket |-> FALSE, serverVersion |-> 1, data |-> 0, fetch |-> Sent,
                     read |-> NoRequest, shown |-> NoCells, gaveUp |-> {}]]

-----------------------------------------------------------------------------
(***************************************************************************)
(* The hub                                                                 *)
(***************************************************************************)

\* A full queue loses the event and nothing else.
enqueueOrDrop(p, event) ==
    IF Len(p.queue) < QueueSize THEN [p EXCEPT !.queue = Append(@, event)] ELSE p

\* enqueue: a full queue cancels the connection.
enqueue(p, event) ==
    IF Len(p.queue) < QueueSize THEN [p EXCEPT !.queue = Append(@, event)]
                                ELSE [p EXCEPT !.state = "cancelled"]

Registered(p) == p.state \in {"registered", "greeted", "cancelled"}

\* broadcast to the room, except to one client; event is what each browser makes of it.
broadcast(peers, event, excluded) ==
    [b \in Browsers |->
        IF Registered(peers[b]) /\ b # excluded THEN enqueue(peers[b], event[b]) ELSE peers[b]]

\* An event without a server_version: presence, cursor, selection, comment.
Other == [b \in Browsers |-> [version |-> 0, structural |-> FALSE]]

\* cursor.update, selection.update, PublishComment
PublishOther(by) ==
    /\ faults < MaxFaults
    /\ faults' = faults + 1
    /\ peer' = broadcast(peer, Other, by)
    /\ UNCHANGED <<version, unpublished, answers, abandoned, browser>>

\* A handler commits a change; by is the browser whose client_id it carries.  The
\* handlers that call publishCurrentVersion know none.
Commit(by, kind) ==
    /\ version < MaxVersion
    /\ kind = "current" => by = Nobody
    /\ version' = version + 1
    /\ unpublished' = unpublished \cup {[version |-> version + 1, kind |-> kind, by |-> by]}
    /\ UNCHANGED <<answers, abandoned, peer, faults, browser>>

\* operation.broadcast to everybody but the author; PublishVersion comes next.
PublishOperation(u) ==
    LET event == [b \in Browsers |-> [version |-> u.version, structural |-> FALSE]]
    IN  /\ u.kind = "operation"
        /\ peer' = broadcast(peer, event, u.by)
        /\ unpublished' = (unpublished \ {u}) \cup {[u EXCEPT !.kind = "version"]}
        /\ UNCHANGED <<version, answers, abandoned, faults, browser>>

\* The handler has published its change and answers.
Answered(u) ==
    /\ unpublished' = unpublished \ {u}
    /\ answers' = IF u.by = Nobody THEN answers ELSE answers \cup {u}

PublishVersion(u) ==
    LET event == [b \in Browsers |-> [version |-> u.version, structural |-> FALSE]]
    IN  /\ u.kind = "version"
        /\ peer' = broadcast(peer, event, Nobody)
        /\ Answered(u)
        /\ UNCHANGED <<version, abandoned, faults, browser>>

PublishStructure(u) ==
    LET event == [b \in Browsers |-> [version |-> u.version, structural |-> b # u.by]]
    IN  /\ u.kind = "structure"
        /\ peer' = broadcast(peer, event, Nobody)
        /\ Answered(u)
        /\ UNCHANGED <<version, abandoned, faults, browser>>

\* publishCurrentVersion reads the workbook again and publishes what it finds ...
ReadCurrentVersion(u) ==
    /\ u.kind = "current"
    /\ unpublished' = (unpublished \ {u}) \cup {[u EXCEPT !.kind = "version", !.version = version]}
    /\ UNCHANGED <<version, answers, abandoned, peer, faults, browser>>

\* ... and publishes nothing when that read fails, as it does once the request's
\* own client has gone away.
GiveUpPublishing(u) ==
    /\ u.kind = "current" /\ faults < MaxFaults
    /\ faults' = faults + 1
    /\ unpublished' = unpublished \ {u}
    /\ abandoned' = abandoned \cup {u.version}
    /\ UNCHANGED <<version, answers, peer, browser>>

\* onclose does not set the timer.
AcceptOnce(b) ==
    /\ ~browser[b].socket /\ browser[b].data = 0
    /\ peer' = [peer EXCEPT ![b] = [state |-> "accepted", book |-> version, queue |-> <<>>]]
    /\ browser' = [browser EXCEPT ![b].socket = TRUE]
    /\ UNCHANGED <<version, unpublished, answers, abandoned, faults>>

\* ServeHTTP up to register: the workbook is read, the socket accepted.
Accept(b) ==
    /\ ~browser[b].socket
    /\ peer' = [peer EXCEPT ![b] = [state |-> "accepted", book |-> version, queue |-> <<>>]]
    /\ browser' = [browser EXCEPT ![b].socket = TRUE]
    /\ UNCHANGED <<version, unpublished, answers, abandoned, faults>>

register(b) ==
    /\ peer[b].state = "accepted"
    /\ peer' = [peer EXCEPT ![b].state = "registered"]
    /\ UNCHANGED <<version, unpublished, answers, abandoned, faults, browser>>

\* presence.snapshot, with the version read before, and presence.join
Greet(b) ==
    LET snapshot == [version |-> peer[b].book, structural |-> FALSE]
        greeted  == enqueue([peer[b] EXCEPT !.state = "greeted"], snapshot)
    IN  /\ peer[b].state = "registered"
        /\ peer' = broadcast([peer EXCEPT ![b] = greeted], Other, b)
        /\ UNCHANGED <<version, unpublished, answers, abandoned, faults, browser>>

\* The end of ServeHTTP for a cancelled connection: presence.leave, the socket is closed.
unregister(b) ==
    /\ peer[b].state = "cancelled"
    /\ peer' = broadcast([peer EXCEPT ![b] = Free], Other, b)
    /\ UNCHANGED <<version, unpublished, answers, abandoned, faults, browser>>

\* The server stops: connections, pending publications and answers are gone.
Restart ==
    /\ faults < MaxFaults
    /\ faults' = faults + 1
    /\ unpublished' = {}
    /\ answers' = {}
    /\ peer' = [b \in Browsers |-> Free]
    /\ UNCHANGED <<version, abandoned, browser>>

-----------------------------------------------------------------------------
(***************************************************************************)
(* The editor                                                              *)
(***************************************************************************)

\* The effect of CanvasGrid, once the grid is there: cancel the read under way,
\* read the visible cells.
ReadCells(e) == IF e.data = 0 THEN e ELSE [e EXCEPT !.read = Sent, !.gaveUp = @ \ {"cells"}]

SetVersion(e, v) ==
    IF v = e.serverVersion THEN e ELSE ReadCells([e EXCEPT !.serverVersion = v])

updateVersion(e, v) == SetVersion(e, Max({e.serverVersion, v}))

\* invalidateQueries(['workbook']): a fetch under way is restarted, except the first.
Invalidate(e) ==
    IF e.data = 0 /\ e.fetch # NoRequest THEN e
    ELSE [e EXCEPT !.fetch = Sent, !.gaveUp = @ \ {"workbook"}]

clearCells(e) == [e EXCEPT !.shown = NoCells]

handleCollaborationVersion(e, event) ==
    Invalidate(IF event.structural THEN clearCells(updateVersion(e, event.version))
                                   ELSE updateVersion(e, event.version))

\* writeLoop and onmessage: a connection's events arrive in order.
Deliver(b) ==
    LET event == Head(peer[b].queue)
    IN  /\ peer[b].state \in {"accepted", "registered", "greeted"} /\ peer[b].queue # <<>>
        /\ peer' = [peer EXCEPT ![b].queue = Tail(@)]
        /\ browser' = IF event.version = 0 THEN browser
                      ELSE [browser EXCEPT ![b] = handleCollaborationVersion(@, event)]
        /\ UNCHANGED <<version, unpublished, answers, abandoned, faults>>

\* onclose, after which a timer opens the next socket: the server has closed it, ...
Closed(b) ==
    /\ browser[b].socket /\ peer[b] = Free
    /\ browser' = [browser EXCEPT ![b].socket = FALSE]
    /\ UNCHANGED <<version, unpublished, answers, abandoned, peer, faults>>

\* ... or the network broke, and the hub tells the others when it notices.
ConnectionLost(b) ==
    /\ peer[b] # Free /\ faults < MaxFaults
    /\ faults' = faults + 1
    /\ peer' = broadcast([peer EXCEPT ![b] = Free], Other, b)
    /\ browser' = [browser EXCEPT ![b].socket = FALSE]
    /\ UNCHANGED <<version, unpublished, answers, abandoned>>

\* The answer to a change of one's own.  After a structural change the editor is
\* reset before the version is taken over.
SaveAnswered(u) ==
    LET e == browser[u.by]
    IN  /\ answers' = answers \ {u}
        /\ browser' = [browser EXCEPT ![u.by] =
              IF u.kind = "structure" THEN Invalidate(updateVersion(clearCells(e), u.version))
                                      ELSE updateVersion(e, u.version)]
        /\ UNCHANGED <<version, unpublished, abandoned, peer, faults>>

\* The server reads the workbook, or the visible cells, for a request.
Fetched(b) ==
    /\ browser[b].fetch = Sent
    /\ browser' = [browser EXCEPT ![b].fetch = version]
    /\ UNCHANGED <<version, unpublished, answers, abandoned, peer, faults>>

Read(b) ==
    /\ browser[b].read = Sent
    /\ browser' = [browser EXCEPT ![b].read = version]
    /\ UNCHANGED <<version, unpublished, answers, abandoned, peer, faults>>

\* workbook.data changes, so its version becomes the editor's, up or down; an
\* identical workbook changes nothing.
FetchArrives(b) ==
    LET e == browser[b]
        d == [e EXCEPT !.data = e.fetch, !.fetch = NoRequest]
    IN  /\ e.fetch \in Versions
        /\ browser' = [browser EXCEPT ![b] =
              IF e.fetch = e.data THEN d
              ELSE IF e.data = 0 THEN ReadCells([d EXCEPT !.serverVersion = e.fetch])
              ELSE SetVersion(d, e.fetch)]
        /\ UNCHANGED <<version, unpublished, answers, abandoned, peer, faults>>

\* replaceRange
ReadArrives(b) ==
    /\ browser[b].read \in Versions
    /\ browser' = [browser EXCEPT ![b].shown = browser[b].read, ![b].read = NoRequest]
    /\ UNCHANGED <<version, unpublished, answers, abandoned, peer, faults>>

\* A fetch fails for the last time it is retried; a failed read is dropped at once.
RequestFails(b) ==
    /\ faults < MaxFaults
    /\ faults' = faults + 1
    /\ \/ /\ browser[b].fetch # NoRequest
          /\ browser' = [browser EXCEPT ![b].fetch = NoRequest, ![b].gaveUp = @ \cup {"workbook"}]
       \/ /\ browser[b].read # NoRequest
          /\ browser' = [browser EXCEPT ![b].read = NoRequest, ![b].gaveUp = @ \cup {"cells"}]
    /\ UNCHANGED <<version, unpublished, answers, abandoned, peer>>

-----------------------------------------------------------------------------
Hub ==
    \/ \E u \in unpublished : PublishOperation(u) \/ PublishVersion(u) \/ PublishStructure(u)
                              \/ ReadCurrentVersion(u)
    \/ \E b \in Browsers : register(b) \/ Greet(b) \/ unregister(b) \/ Deliver(b)

Editor(b) == Accept(b) \/ Closed(b) \/ Fetched(b) \/ FetchArrives(b) \/ Read(b) \/ ReadArrives(b)

Next ==
    \/ Hub
    \/ \E b \in Browsers : Editor(b) \/ ConnectionLost(b) \/ RequestFails(b)
    \/ \E u \in answers : SaveAnswered(u)
    \/ \E u \in unpublished : GiveUpPublishing(u)
    \/ \E by \in Browsers \cup {Nobody} : PublishOther(by) \/ \E kind \in Changes : Commit(by, kind)
    \/ Restart

\* Handlers finish, queues are written, requests are answered, sockets reopen.
Fairness ==
    /\ WF_vars(Hub)
    /\ \A b \in Browsers : WF_vars(Editor(b))

Spec == Init /\ [][Next]_vars /\ Fairness

-----------------------------------------------------------------------------
(***************************************************************************)
(* Properties                                                              *)
(***************************************************************************)

\* The version every browser has to reach: the last one that some handler
\* published, or still will, or that a stopped server could not publish.
Owed == Max({1} \cup {v \in 1..version : v \notin abandoned})

\* Whatever will still tell browser b of a change: a publication, an event in the
\* queue of its socket, a socket that is being opened, a fetch.
News(b) ==
    \/ \E u \in unpublished : u.version >= Owed \/ u.kind = "current"
    \/ ~browser[b].socket \/ peer[b] = Free
    \/ peer[b].state \in {"accepted", "registered", "cancelled"}
    \/ \E i \in DOMAIN peer[b].queue : peer[b].queue[i].version # 0
    \/ browser[b].fetch # NoRequest

\* No change is missed: a browser that shows cells of an older version than the one
\* owed to it will be told of a newer one or has a read under way, although handlers
\* publish out of order, the snapshot carries a version read before the connection
\* was registered, a full queue cuts the connection and a stopped server publishes
\* nothing.  The exceptions are a request that failed, which the grid ignores.
NoChangeIsMissed ==
    \A b \in Browsers :
        \/ browser[b].shown = NoCells \/ browser[b].shown >= Owed
        \/ browser[b].gaveUp # {}
        \/ browser[b].read # NoRequest
        \/ News(b)

\* Screens converge: once changes and faults stop, a browser none of whose requests
\* failed shows the last version owed to it, unless it shows nothing.
ScreensConverge ==
    <>[](\A b \in Browsers : \/ browser[b].gaveUp # {}
                              \/ browser[b].shown = NoCells \/ browser[b].shown >= Owed)

=============================================================================
