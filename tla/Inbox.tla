--------------------------------- MODULE Inbox ---------------------------------
(***************************************************************************)
(* One conversation of a workspace (apps/inbox).                           *)
(*                                                                         *)
(* A conversation has participants and messages.  A message is unread for  *)
(* a participant if it was created after last_read_at, which every read    *)
(* and every message of his own sets to the current time.  The handlers    *)
(* look the conversation up and write later; only a change of participants *)
(* locks its row.  Time is the number of messages inserted so far, and the *)
(* number of a message is the time at which it was created: a message can  *)
(* be older than one that commits before it.                               *)
(***************************************************************************)
EXTENDS Naturals, Sequences, FiniteSets

CONSTANTS
    Users,      \* active members of the workspace
    Guests,     \* those who are guests of projects
    Projects,   \* the owner and participants of each project
    Requests,   \* requests that may be under way at a time
    None,       \* SQL NULL; no request
    Named,      \* bound: the lists of users that requests name
    MaxMessages, \* bound: messages of the conversation
    MaxVersion  \* bound: versions of the conversation that clients act on

ASSUME GuestsAreUsers == Guests \subseteq Users /\ Projects \subseteq SUBSET Users
ASSUME NamedAreUsers == Named \subseteq (SUBSET Users) \ {{}}
ASSUME NoneIsNoUser == None \notin Users
ASSUME BoundsAreNat == MaxMessages \in Nat \ {0} /\ MaxVersion \in Nat

VARIABLES
    creator,    \* who created the conversation
    version,    \* its version
    links,      \* links[u]: the participation of u
    messages,   \* the messages in the order of their creation
    calls,      \* calls[r]: what request r has read
    accounted   \* <<u, m>>: history: u was shown message m, or is excused

conversation == <<creator, version, links, messages>>
vars == <<creator, version, links, messages, calls, accounted>>

Link == [joined : BOOLEAN, left : BOOLEAN, lastRead : Nat]

NoLink == [joined |-> FALSE, left |-> FALSE, lastRead |-> 0]

Message == [sender : Users, state : {"inserted", "committed", "lost"}]

Call == [kind : {"retrieve", "send", "inserted", "answer", "add", "remove"},
         user : Users, version : Nat, messages : SUBSET (1..MaxMessages),
         users : SUBSET Users]

ASSUME NoneIsNoCall == None \notin Call

Participants == {u \in Users : links[u].joined /\ ~links[u].left}

InState(state) == {m \in DOMAIN messages : messages[m].state = state}

Now == Len(messages)

OpenCalls(u) == {r \in Requests : calls[r] # None /\ calls[r].user = u}

\* users_share_project_context, if a guest is among the users.
MayTalk(S) == S \cap Guests # {} => \E p \in Projects : S \subseteq p

Unread(u, m) == m > links[u].lastRead

Account(pairs) == accounted' = accounted \cup pairs

-----------------------------------------------------------------------------
\* create_conversation, with its opening message.
CreateConversation(u) ==
    /\ creator = None
    /\ \E S \in Named :
        /\ MayTalk(S \cup {u})
        /\ links' = [w \in Users |->
                IF w \in S \cup {u} THEN [NoLink EXCEPT !.joined = TRUE] ELSE NoLink]
    /\ creator' = u
    /\ version' = 1
    /\ messages' = <<[sender |-> u, state |-> "committed"]>>
    /\ UNCHANGED <<calls, accounted>>

\* get_object: the conversations of the user, with all their messages.
LookUp(r, kind, u, S) ==
    /\ calls[r] = None
    /\ u \in Participants
    /\ version <= MaxVersion
    /\ calls' = [calls EXCEPT ![r] =
            [kind |-> kind, user |-> u, users |-> S,
             version |-> IF kind = "retrieve" THEN 0 ELSE version,
             messages |-> IF kind = "retrieve" THEN InState("committed") ELSE {}]]
    /\ Account({u} \X InState("inserted"))
    /\ UNCHANGED conversation

RequestRetrieve(r) == \E u \in Users : LookUp(r, "retrieve", u, {})

RequestSend(r) == \E u \in Users : LookUp(r, "send", u, {})

\* Only the creator changes participants, and does not remove himself.
RequestAdd(r) ==
    \E S \in Named : creator # None /\ LookUp(r, "add", creator, S)

RequestRemove(r) ==
    \E S \in Named : creator \notin S \cup {None} /\ LookUp(r, "remove", creator, S)

Pending(r, kind) == calls[r] # None /\ calls[r].kind = kind

Finish(r) == calls' = [calls EXCEPT ![r] = None]

\* retrieve sets last_read_at and answers with the messages it has read.
Retrieve(r) ==
    /\ Pending(r, "retrieve")
    /\ links' = [links EXCEPT ![calls[r].user].lastRead = Now]
    /\ Account({calls[r].user} \X calls[r].messages)
    /\ Finish(r)
    /\ UNCHANGED <<creator, version, messages>>

\* send_message up to the insertion of the message.
InsertMessage(r) ==
    /\ Pending(r, "send")
    /\ Now < MaxMessages
    /\ calls[r].user \in Participants
    /\ messages' = Append(messages, [sender |-> calls[r].user, state |-> "inserted"])
    /\ calls' = [calls EXCEPT ![r].kind = "inserted", ![r].messages = {Now + 1}]
    /\ Account({u \in Users : OpenCalls(u) # {}} \X {Now + 1})
    /\ UNCHANGED <<creator, version, links>>

\* The rest of it: the version follows the one that the view has read.
CommitMessage(r) ==
    /\ Pending(r, "inserted")
    /\ messages' = [m \in DOMAIN messages |->
            IF m \in calls[r].messages THEN [messages[m] EXCEPT !.state = "committed"]
            ELSE messages[m]]
    /\ version' = calls[r].version + 1
    /\ links' = [links EXCEPT ![calls[r].user].lastRead = Now]
    /\ calls' = [calls EXCEPT ![r].kind = "answer", ![r].version = 0, ![r].messages = {}]
    /\ UNCHANGED <<creator, accounted>>

\* The view loads the conversation again; it fails, and excuses nothing less,
\* if the user is no longer in it.
Answer(r) ==
    /\ Pending(r, "answer")
    /\ Account({calls[r].user} \X InState("committed"))
    /\ Finish(r)
    /\ UNCHANGED conversation

\* An error, or the end of the process.  The transaction is undone; an answer
\* that is lost after the commit excuses what it would have shown.
Abort(r) ==
    /\ calls[r] # None
    /\ Finish(r)
    /\ messages' = [m \in DOMAIN messages |->
            IF calls[r].kind = "inserted" /\ m \in calls[r].messages
            THEN [messages[m] EXCEPT !.state = "lost"] ELSE messages[m]]
    /\ Account(IF calls[r].kind = "answer"
               THEN {calls[r].user} \X InState("committed") ELSE {})
    /\ UNCHANGED <<creator, version, links>>

\* Mutant of Rejoined: whoever comes back has read everything.
RejoinedAnew(link) == [joined |-> TRUE, left |-> FALSE, lastRead |-> Now]

\* update_or_create
Rejoined(link) == [link EXCEPT !.joined = TRUE, !.left = FALSE]

\* Mutant of Together: only the new participants are looked at.
AddedOnly(S) == S

Together(S) == Participants \cup S

AddParticipants(r) ==
    /\ Pending(r, "add")
    /\ calls[r].version = version
    /\ MayTalk(Together(calls[r].users))
    /\ links' = [u \in Users |->
            IF u \in calls[r].users THEN Rejoined(links[u]) ELSE links[u]]
    /\ version' = version + 1
    /\ Finish(r)
    /\ UNCHANGED <<creator, messages, accounted>>

RemoveParticipants(r) ==
    /\ Pending(r, "remove")
    /\ calls[r].version = version
    /\ links' = [u \in Users |->
            IF u \in calls[r].users /\ links[u].joined
            THEN [links[u] EXCEPT !.left = TRUE] ELSE links[u]]
    /\ version' = version + 1
    /\ Finish(r)
    /\ UNCHANGED <<creator, messages, accounted>>

\* destroy: the user leaves; the creator may, too.
Leave(u) ==
    /\ u \in Participants
    /\ links' = [links EXCEPT ![u].left = TRUE]
    /\ UNCHANGED <<creator, version, messages, calls, accounted>>

Init ==
    /\ creator = None
    /\ version = 0
    /\ links = [u \in Users |-> NoLink]
    /\ messages = <<>>
    /\ calls = [r \in Requests |-> None]
    /\ accounted = {}

Reading(r) == RequestRetrieve(r) \/ Retrieve(r)

Sending(r) ==
    RequestSend(r) \/ InsertMessage(r) \/ CommitMessage(r) \/ Answer(r)

ChangingParticipants(r) ==
    RequestAdd(r) \/ RequestRemove(r) \/ AddParticipants(r) \/ RemoveParticipants(r)

Next ==
    \/ \E u \in Users : CreateConversation(u) \/ Leave(u)
    \/ \E r \in Requests :
        Reading(r) \/ Sending(r) \/ ChangingParticipants(r) \/ Abort(r)

Spec == Init /\ [][Next]_vars

-----------------------------------------------------------------------------
(* Properties.                                                             *)

TypeOK ==
    /\ creator \in Users \cup {None}
    /\ version \in Nat
    /\ links \in [Users -> Link]
    /\ messages \in Seq(Message)
    /\ calls \in [Requests -> Call \cup {None}]
    /\ accounted \subseteq Users \X (1..MaxMessages)

\* A guest shares a project with everybody he talks to, however the
\* participants came and went (services.py:89-94, views.py:176-186).
GuestsShareAProject == MayTalk(Participants)

\* No message is skipped: what nobody has shown to a participant counts as
\* unread (serializers.py:116-131), unless it was being sent while he had a
\* request under way, or the answer to his own message failed.
NothingIsSkipped ==
    \A u \in Users, m \in InState("committed") :
        (/\ OpenCalls(u) = {}
         /\ messages[m].sender # u
         /\ <<u, m>> \notin accounted) => Unread(u, m)

\* A version is never given out again (docs/ARCHITEKTUR.md:29).  Not kept:
\* send_message increments the version that its view has read before.
VersionsIncrease == [][version' >= version]_vars

\* Whoever is away is not spoken for: a message is sent by a participant.
\* Not kept: the link is read before the commit that ends it.
SendersParticipate ==
    [][\A r \in Requests : CommitMessage(r) => calls[r].user \in Participants]_vars

\* Somebody can change the participants.  Not kept: the creator may leave.
CreatorStays == creator # None => creator \in Participants
================================================================================
