------------------------------ MODULE BoardConsumer ----------------------------
(***************************************************************************)
(* The WebSocket connections to one board (apps/realtime/consumers.py):    *)
(* who is present, who edits what, gestures that take two, and the limit   *)
(* on messages.                                                            *)
(*                                                                         *)
(* A connection handles one message after the other.  Presence and the     *)
(* gestures are values in a cache that all processes share: a handler gets *)
(* the value in one step and sets it in a later one (a record in calls),   *)
(* and nothing keeps another from doing the same in between.  Time passes  *)
(* between handlers only.  Cursors are passed on and leave no trace.       *)
(***************************************************************************)
EXTENDS Integers, FiniteSets, SequencesExt

CONSTANTS
    Users, Connections, Tasks, Actions,
    None,
    PresenceTtl,            \* PRESENCE_TTL_SECONDS
    CoopTimeout,            \* how long a gesture waits for an answer
    Capacity, Refill,       \* of the TokenBucket
    MaxTime, MaxMessages, MaxCalls   \* bounds

ASSUME NoneIsNothing == None \notin Tasks \cup Users
ASSUME LimitsArePositive ==
    /\ PresenceTtl \in Nat \ {0} /\ CoopTimeout \in Nat \ {0}
    /\ Capacity \in Nat \ {0} /\ Refill \in Nat
ASSUME ConsumerBounds == MaxTime \in Nat /\ MaxMessages \in Nat /\ MaxCalls \in Nat

VARIABLES
    now,
    conn,       \* conn[c]: a connection with its user and its bucket
    presence,   \* the cached value board-presence:<board>
    coop,       \* coop[a]: the cached value carly-coop:<board>:<a>
    calls,      \* handlers between get and set
    sent,       \* the message that the latest step has sent to clients
    active,     \* history: when each user was last heard of
    gestured,   \* history: when each user last made each gesture
    cut,        \* history: when the completion of each gesture last died half done
    accepted    \* history: when each connection's messages were accepted

vars == <<now, conn, presence, coop, calls, sent, active, gestured, cut, accepted>>

Entry == [connections : Nat \ {0}, seen : Nat, task : Tasks \cup {None}]

Absent == [connections |-> 0, seen |-> 0, task |-> None]

Nobody == [u \in Users |-> Absent]

Nothing == [type |-> "nothing"]

Quiet == sent' = Nothing

Present(entries) == {u \in Users : entries[u] # Absent}

\* Mutant of Cached: values do not expire.
EverCached(value, default) == value.value

\* A value is gone when its time is up.
Cached(value, default) == IF now < value.until THEN value.value ELSE default

Set(value, timeout) == [value |-> value, until |-> now + timeout]

-----------------------------------------------------------------------------
(* Calls.  A connection has one at a time.                                 *)

Idle(c) == conn[c].state = "open" /\ \A k \in calls : k.conn # c

Begin(call) ==
    /\ Cardinality(calls) < MaxCalls
    /\ calls' = calls \cup {call}

End(call) == calls' = calls \ {call}

Of(kind) == {k \in calls : k.kind = kind}

UserOf(c) == conn[c].user

\* A connection without a consumer, before or after it is open.
Gone(state) ==
    [state |-> state, user |-> None, bucket |-> [tokens |-> 0, lastRefill |-> 0]]

GetPresence(kind, c) ==
    Begin([kind |-> kind, conn |-> c, entries |-> Cached(presence, Nobody)])

SetPresence(call, entries) ==
    /\ presence' = Set(entries, 2 * PresenceTtl)
    /\ End(call)

Heard(u) == active' = [active EXCEPT ![u] = now]

-----------------------------------------------------------------------------
(* The token bucket.                                                       *)

\* Mutant of Refilled: the bucket overflows.
Overflowing(b) == b.tokens + (now - b.lastRefill) * Refill

Refilled(b) ==
    LET filled == b.tokens + (now - b.lastRefill) * Refill
    IN  IF filled > Capacity THEN Capacity ELSE filled

AcceptedMessages == MapThenSumSet(LAMBDA c : Len(accepted[c]), Connections)

\* TokenBucket.consume, with its two outcomes.
Consume(c) ==
    LET tokens == Refilled(conn[c].bucket)
    IN  /\ tokens >= 1
        /\ AcceptedMessages < MaxMessages
        /\ conn' = [conn EXCEPT ![c].bucket =
                        [tokens |-> tokens - 1, lastRefill |-> now]]
        /\ accepted' = [accepted EXCEPT ![c] = Append(@, now)]

RateLimited(c) ==
    LET tokens == Refilled(conn[c].bucket)
    IN  /\ Idle(c)
        /\ tokens < 1
        /\ conn' = [conn EXCEPT ![c].bucket = [tokens |-> tokens, lastRefill |-> now]]
        /\ Quiet
        /\ UNCHANGED <<now, presence, coop, calls, active, gestured, cut, accepted>>

-----------------------------------------------------------------------------
(* Presence.                                                               *)

\* connect; a connection is used once.
Connect(c, u) ==
    /\ conn[c].state = "new"
    /\ conn' = [conn EXCEPT ![c] =
            [state |-> "open", user |-> u,
             bucket |-> [tokens |-> Capacity, lastRefill |-> now]]]
    /\ GetPresence("join", c)
    /\ Heard(u)
    /\ Quiet
    /\ UNCHANGED <<now, presence, coop, gestured, cut, accepted>>

\* Mutant of Cleaned: entries stay until they are removed.
Uncleaned(entries) == entries

Cleaned(entries) ==
    [u \in Users |-> IF now - entries[u].seen <= PresenceTtl THEN entries[u] ELSE Absent]

PresenceJoin(k) ==
    LET u == UserOf(k.conn)
        cleaned == Cleaned(k.entries)
        joined == [cleaned EXCEPT ![u] = [connections |-> @.connections + 1,
                                          seen |-> now, task |-> @.task]]
    IN  /\ SetPresence(k, joined)
        /\ sent' = [type |-> "presence.snapshot",
                    users |-> Present(joined),
                    editing |-> {<<v, joined[v].task>> : v \in
                                    {w \in Users : joined[w].task # None}},
                    first |-> cleaned[u].connections = 0]
        /\ UNCHANGED <<now, conn, coop, active, gestured, cut, accepted>>

\* A user without an entry stays without one.
Touched(k, task) ==
    LET u == UserOf(k.conn)
    IN  IF k.entries[u] = Absent
        THEN End(k) /\ UNCHANGED presence
        ELSE SetPresence(k, [k.entries EXCEPT ![u].seen = now, ![u].task = task])

Heartbeat(c) ==
    /\ Idle(c)
    /\ Consume(c)
    /\ GetPresence("touch", c)
    /\ Heard(UserOf(c))
    /\ Quiet
    /\ UNCHANGED <<now, presence, coop, gestured, cut>>

PresenceTouch(k) ==
    /\ Touched(k, k.entries[UserOf(k.conn)].task)
    /\ Quiet
    /\ UNCHANGED <<now, conn, coop, active, gestured, cut, accepted>>

\* task is None when the user stops.
HandleEditing(c, task) ==
    /\ Idle(c)
    /\ Consume(c)
    /\ Begin([kind |-> "editing", conn |-> c, entries |-> Cached(presence, Nobody),
              task |-> task])
    /\ Heard(UserOf(c))
    /\ Quiet
    /\ UNCHANGED <<now, presence, coop, gestured, cut>>

PresenceEditing(k) ==
    /\ Touched(k, k.task)
    /\ sent' = [type |-> "editing.changed", user |-> UserOf(k.conn), task |-> k.task]
    /\ UNCHANGED <<now, conn, coop, active, gestured, cut, accepted>>

Disconnect(c) ==
    /\ Idle(c)
    /\ GetPresence("leave", c)
    /\ Heard(UserOf(c))
    /\ Quiet
    /\ UNCHANGED <<now, conn, presence, coop, gestured, cut, accepted>>

Left(u) == sent' = [type |-> "presence.left", user |-> u]

PresenceLeave(k) ==
    LET u == UserOf(k.conn)
        entry == k.entries[u]
    IN  /\ conn' = [conn EXCEPT ![k.conn] = Gone("closed")]
        /\ \/ entry = Absent /\ End(k) /\ Left(u) /\ UNCHANGED presence
           \/ /\ entry.connections = 1
              /\ SetPresence(k, [k.entries EXCEPT ![u] = Absent])
              /\ Left(u)
           \/ /\ entry.connections > 1
              /\ SetPresence(k, [k.entries EXCEPT ![u].seen = now,
                                                  ![u].connections = @ - 1])
              /\ Quiet
        /\ UNCHANGED <<now, coop, active, gestured, cut, accepted>>

\* The process or the network is gone: nothing is said to the cache.
Crash(c) ==
    /\ conn[c].state = "open"
    /\ conn' = [conn EXCEPT ![c] = Gone("closed")]
    /\ calls' = {k \in calls : k.conn # c}
    /\ cut' = [a \in Actions |->
            IF \E k \in Of("complete") : k.conn = c /\ k.action = a THEN now ELSE cut[a]]
    /\ Quiet
    /\ UNCHANGED <<now, presence, coop, active, gestured, accepted>>

-----------------------------------------------------------------------------
(* Gestures for two.                                                       *)

HandleCooperativeAction(c, a) ==
    /\ Idle(c)
    /\ Consume(c)
    /\ Begin([kind |-> "coop", conn |-> c, action |-> a,
              current |-> Cached(coop[a], <<>>)])
    /\ gestured' = [gestured EXCEPT ![<<UserOf(c), a>>] = now]
    /\ Quiet
    /\ UNCHANGED <<now, presence, coop, active, cut>>

\* The latest two, nobody twice.
WithPartner(current, u) ==
    LET others == {i \in DOMAIN current : current[i] # u}
    IN  IF others = {} THEN <<u>> ELSE <<current[Max(others)], u>>

SetCoop(k) ==
    LET participants == WithPartner(k.current, UserOf(k.conn))
    IN  /\ coop' = [coop EXCEPT ![k.action] = Set(participants, CoopTimeout)]
        /\ calls' = (calls \ {k}) \cup
              IF Cardinality(ToSet(participants)) < 2 THEN {}
              ELSE {[kind |-> "complete", conn |-> k.conn, action |-> k.action,
                     participants |-> participants]}
        /\ Quiet
        /\ UNCHANGED <<now, conn, presence, active, gestured, cut, accepted>>

CompleteCoop(k) ==
    /\ coop' = [coop EXCEPT ![k.action] = [value |-> <<>>, until |-> now]]
    /\ sent' = [type |-> "carly.coop.completed", action |-> k.action,
                participants |-> k.participants]
    /\ End(k)
    /\ UNCHANGED <<now, conn, presence, active, gestured, cut, accepted>>

-----------------------------------------------------------------------------
Tick ==
    /\ calls = {} /\ now < MaxTime
    /\ now' = now + 1
    /\ Quiet
    /\ UNCHANGED <<conn, presence, coop, calls, active, gestured, cut, accepted>>

Init ==
    /\ now = 1
    /\ conn = [c \in Connections |-> Gone("new")]
    /\ presence = [value |-> Nobody, until |-> now]
    /\ coop = [a \in Actions |-> [value |-> <<>>, until |-> now]]
    /\ calls = {} /\ sent = Nothing
    /\ active = [u \in Users |-> 0]
    /\ gestured = [g \in Users \X Actions |-> 0]
    /\ cut = [a \in Actions |-> 0]
    /\ accepted = [c \in Connections |-> <<>>]

Receive(c) ==
    \/ \E u \in Users : Connect(c, u)
    \/ Heartbeat(c)
    \/ \E t \in Tasks \cup {None} : HandleEditing(c, t)
    \/ \E a \in Actions : HandleCooperativeAction(c, a)
    \/ RateLimited(c)
    \/ Disconnect(c)
    \/ Crash(c)

Proceed ==
    \/ \E k \in Of("join") : PresenceJoin(k)
    \/ \E k \in Of("touch") : PresenceTouch(k)
    \/ \E k \in Of("editing") : PresenceEditing(k)
    \/ \E k \in Of("leave") : PresenceLeave(k)
    \/ \E k \in Of("coop") : SetCoop(k)
    \/ \E k \in Of("complete") : CompleteCoop(k)

Next == Tick \/ Proceed \/ \E c \in Connections : Receive(c)

Spec == Init /\ [][Next]_vars

-----------------------------------------------------------------------------
(* Properties.                                                             *)

\* Cached values have the form the handlers expect; nobody is present with no
\* connection (consumers.py:275-279).
TypeOK ==
    /\ presence.value \in [Users -> Entry \cup {Absent}]
    /\ \A a \in Actions : coop[a].value \in BoundedSeq(Users, 2)
    /\ \A c \in Connections : conn[c].bucket.tokens \in 0..Capacity

\* Whatever updates of the presence overwrite each other, a snapshot shows only
\* users heard of within the time to live: a crashed tab does not stay for ever
\* (consumers.py:221-241).
SnapshotsAreRecent ==
    sent.type = "presence.snapshot" =>
        \A u \in sent.users : now - active[u] <= PresenceTtl

\* A gesture is completed by two people, each of whom made it less long ago
\* than it waits -- or before a completion of it died between its two calls to
\* the cache, which leaves the gestures there (consumers.py:146-163).
GesturesAreMutual ==
    sent.type = "carly.coop.completed" =>
        /\ Cardinality(ToSet(sent.participants)) = 2
        /\ \A u \in ToSet(sent.participants) :
              \/ now - gestured[<<u, sent.action>>] < CoopTimeout
              \/ gestured[<<u, sent.action>>] <= cut[sent.action]

\* In any interval a connection gets no more through than the capacity and
\* what is refilled in it (rate_limit.py:22-31).
MessagesAreLimited ==
    \A c \in Connections :
        \A i, j \in DOMAIN accepted[c] :
            i <= j => j - i + 1 <=
                        Capacity + Refill * (accepted[c][j] - accepted[c][i])

\* Only the last session reports its user as offline (consumers.py:269).
LeftIsGone ==
    sent.type = "presence.left" =>
        \A c \in Connections : ~(Idle(c) /\ UserOf(c) = sent.user)

\* A gesture is completed when both are there (consumers.py:141).
PartnersAreThere ==
    sent.type = "carly.coop.completed" =>
        \A u \in ToSet(sent.participants) :
            \E c \in Connections : conn[c].state = "open" /\ UserOf(c) = u

\* A gesture is answered within its time, also after a completion has died
\* half done (consumers.py:151).
GesturesAreRecent ==
    sent.type = "carly.coop.completed" =>
        \A u \in ToSet(sent.participants) :
              now - gestured[<<u, sent.action>>] < CoopTimeout

\* One gesture is answered by one partner (consumers.py:141).
OneAnswer ==
    \A k, l \in Of("complete") :
        k # l /\ k.action = l.action =>
            ToSet(k.participants) \cap ToSet(l.participants) = {}
================================================================================
