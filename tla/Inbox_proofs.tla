------------------------------ MODULE Inbox_proofs ------------------------------
(* Proofs about Inbox, for any users, projects and messages and any number of  *)
(* requests at a time.                                                         *)
EXTENDS Inbox, TLAPS

\* Nothing is read before it is written.
Sized ==
    /\ Now <= MaxMessages
    /\ \A u \in Users : links[u].lastRead <= Now

\* Before the conversation exists, nobody takes part and nothing is under way.
QuietBefore ==
    creator = None =>
        /\ \A u \in Users : ~links[u].joined
        /\ \A r \in Requests : calls[r] = None

\* Each message that is being sent belongs to one request.
SendersHoldTheirOwn ==
    \A r \in Requests : Pending(r, "inserted") =>
        /\ calls[r].messages \subseteq InState("inserted")
        /\ \A q \in Requests : q # r /\ Pending(q, "inserted") =>
                calls[q].messages \cap calls[r].messages = {}

\* Whoever has a request under way is excused for what is being sent.
SentIsExcused ==
    \A r \in Requests : calls[r] # None =>
        \A m \in InState("inserted") : <<calls[r].user, m>> \in accounted

\* A retrieval has read whatever it will mark as read, or is excused for it.
ReaderHasAll ==
    \A r \in Requests : Pending(r, "retrieve") =>
        \A m \in InState("committed") :
            m \in calls[r].messages \/ <<calls[r].user, m>> \in accounted

Answering(u) == \E r \in Requests : Pending(r, "answer") /\ calls[r].user = u

Kept == InState("committed") \cup InState("inserted")

\* Between the commit of his message and the answer a sender has marked as
\* read what he has not been shown; otherwise that never happens.
UnreadOrAnswering ==
    \A u \in Users, m \in Kept :
        \/ messages[m].sender = u
        \/ <<u, m>> \in accounted
        \/ Unread(u, m)
        \/ Answering(u)

IInv ==
    /\ TypeOK
    /\ Sized
    /\ QuietBefore
    /\ SendersHoldTheirOwn
    /\ SentIsExcused
    /\ ReaderHasAll
    /\ UnreadOrAnswering
    /\ GuestsShareAProject

\* Fewer people may talk to each other whenever more of them may.
LEMMA FewerMayTalk ==
    ASSUME NEW S, NEW T, S \subseteq T, MayTalk(T)
    PROVE  MayTalk(S)
  BY DEF MayTalk

LEMMA InitEstablishes == Init => IInv
  <1> SUFFICES ASSUME Init PROVE IInv
    OBVIOUS
  <1>1. TypeOK
    BY DEF Init, TypeOK, Link, NoLink
  <1>2. Participants = {}
    BY DEF Init, Participants, NoLink
  <1>3. InState("inserted") = {} /\ InState("committed") = {}
    BY DEF Init, InState
  <1>4. Sized
    BY BoundsAreNat DEF Init, Sized, Now, NoLink
  <1>5. \A r \in Requests : \A kind : ~Pending(r, kind)
    BY DEF Init, Pending
  <1>6. QuietBefore /\ SentIsExcused /\ ReaderHasAll /\ SendersHoldTheirOwn
    BY <1>5 DEF Init, QuietBefore, SentIsExcused, ReaderHasAll, SendersHoldTheirOwn, NoLink
  <1>7. UnreadOrAnswering
    BY <1>3 DEF UnreadOrAnswering, Kept
  <1>8. GuestsShareAProject
    BY <1>2 DEF GuestsShareAProject, MayTalk
  <1> QED
    BY <1>1, <1>4, <1>6, <1>7, <1>8 DEF IInv

LEMMA CreatePreserves ==
    ASSUME IInv, NEW u \in Users, CreateConversation(u)
    PROVE  IInv'
  <1>1. PICK S \in Named :
            /\ MayTalk(S \cup {u})
            /\ links' = [w \in Users |->
                IF w \in S \cup {u} THEN [NoLink EXCEPT !.joined = TRUE] ELSE NoLink]
    BY DEF CreateConversation
  <1>2. /\ creator = None /\ creator' = u /\ version' = 1
        /\ messages' = <<[sender |-> u, state |-> "committed"]>>
        /\ calls' = calls /\ accounted' = accounted
    BY DEF CreateConversation
  <1>3. \A r \in Requests : calls'[r] = None
    BY <1>2 DEF IInv, QuietBefore
  <1>4. DOMAIN messages' = {1} /\ Len(messages') = 1
        /\ messages'[1] = [sender |-> u, state |-> "committed"]
    BY <1>2
  <1>5. \A w \in Users : links'[w].lastRead = 0
    BY <1>1 DEF NoLink
  <1>6. TypeOK'
    <2>1. messages' \in Seq(Message)
      BY <1>2 DEF Message
    <2>2. links' \in [Users -> Link]
      BY <1>1 DEF Link, NoLink
    <2> QED
      BY <1>2, <2>1, <2>2 DEF IInv, TypeOK
  <1>7. Sized'
    BY <1>4, <1>5, BoundsAreNat DEF Sized, Now
  <1>8. QuietBefore'
    BY <1>2, NoneIsNoUser DEF QuietBefore
  <1>9. (SendersHoldTheirOwn /\ SentIsExcused /\ ReaderHasAll)'
    BY <1>3 DEF SendersHoldTheirOwn, SentIsExcused, ReaderHasAll, Pending
  <1>10. UnreadOrAnswering'
    <2>1. Kept' = {1}
      BY <1>4 DEF Kept, InState
    <2> QED
      BY <2>1, <1>5 DEF UnreadOrAnswering, Unread
  <1>11. GuestsShareAProject'
    <2>1. Participants' \subseteq S \cup {u}
      BY <1>1 DEF Participants, NoLink
    <2> QED
      BY <1>1, <2>1, FewerMayTalk DEF GuestsShareAProject
  <1> QED
    BY <1>6, <1>7, <1>8, <1>9, <1>10, <1>11 DEF IInv

LEMMA LookUpPreserves ==
    ASSUME IInv, NEW r \in Requests, NEW u \in Users, NEW S \in SUBSET Users,
           NEW kind \in {"retrieve", "send", "add", "remove"}, LookUp(r, kind, u, S)
    PROVE  IInv'
  <1> DEFINE call == [kind |-> kind, user |-> u, users |-> S,
             version |-> IF kind = "retrieve" THEN 0 ELSE version,
             messages |-> IF kind = "retrieve" THEN InState("committed") ELSE {}]
  <1>1. /\ calls[r] = None /\ u \in Participants
        /\ calls' = [calls EXCEPT ![r] = call]
        /\ accounted' = accounted \cup {u} \X InState("inserted")
        /\ UNCHANGED <<creator, version, links, messages>>
    BY DEF LookUp, Account, conversation
  <1>2. \A state : InState(state)' = InState(state)
    BY <1>1 DEF InState
  <1>3. InState("inserted") \subseteq 1..MaxMessages
        /\ InState("committed") \subseteq 1..MaxMessages
    BY BoundsAreNat DEF IInv, TypeOK, Sized, InState, Now
  <1>4. call \in Call
    BY <1>3 DEF IInv, TypeOK, Call
  <1>5. /\ call.kind = kind /\ call.user = u
        /\ kind = "retrieve" => call.messages = InState("committed")
    OBVIOUS
  <1> HIDE DEF call
  <1>6. calls'[r] = call /\ \A q \in Requests : q # r => calls'[q] = calls[q]
    BY <1>1 DEF IInv, TypeOK
  <1>7. TypeOK'
    <2>1. accounted' \subseteq Users \X (1..MaxMessages)
      BY <1>1, <1>3 DEF IInv, TypeOK
    <2> QED
      BY <1>1, <1>4, <2>1 DEF IInv, TypeOK
  <1>8. Sized' /\ GuestsShareAProject'
    BY <1>1 DEF IInv, Sized, Now, GuestsShareAProject, Participants
  <1>9. QuietBefore'
    BY <1>1 DEF IInv, QuietBefore, Participants
  <1>10. \A q \in Requests : Pending(q, "inserted")' => q # r /\ Pending(q, "inserted")
    BY <1>5, <1>6 DEF Pending
  <1>11. SendersHoldTheirOwn'
    BY <1>2, <1>6, <1>10 DEF IInv, SendersHoldTheirOwn
  <1>12. SentIsExcused'
    BY <1>1, <1>2, <1>5, <1>6 DEF IInv, SentIsExcused
  <1>13. ReaderHasAll'
    BY <1>1, <1>2, <1>5, <1>6 DEF IInv, ReaderHasAll, Pending
  <1>14. \A w \in Users : Answering(w) => Answering(w)'
    BY <1>1, <1>6 DEF Answering, Pending
  <1>15. UnreadOrAnswering'
    BY <1>1, <1>2, <1>14 DEF IInv, UnreadOrAnswering, Kept, Unread
  <1> QED
    BY <1>7, <1>8, <1>9, <1>11, <1>12, <1>13, <1>15 DEF IInv

\* A request that ends leaves nothing behind that others rely on.
LEMMA FinishKeeps ==
    ASSUME IInv, NEW r \in Requests, Finish(r)
    PROVE  /\ calls' \in [Requests -> Call \cup {None}]
           /\ calls'[r] = None
           /\ \A q \in Requests : q # r => calls'[q] = calls[q]
           /\ \A q \in Requests : \A kind :
                Pending(q, kind)' => q # r /\ Pending(q, kind)
  <1>1. calls' = [calls EXCEPT ![r] = None]
    BY DEF Finish
  <1>2. calls' \in [Requests -> Call \cup {None}] /\ calls'[r] = None
        /\ \A q \in Requests : q # r => calls'[q] = calls[q]
    BY <1>1 DEF IInv, TypeOK
  <1> QED
    BY <1>2 DEF Pending

LEMMA RetrievePreserves ==
    ASSUME IInv, NEW r \in Requests, Retrieve(r)
    PROVE  IInv'
  <1> DEFINE u == calls[r].user
  <1>1. /\ Pending(r, "retrieve")
        /\ links' = [links EXCEPT ![u].lastRead = Now]
        /\ accounted' = accounted \cup {u} \X calls[r].messages
        /\ Finish(r)
        /\ UNCHANGED <<creator, version, messages>>
    BY DEF Retrieve, Account
  <1>2. calls[r] \in Call /\ u \in Users /\ calls[r] # None
    BY <1>1 DEF IInv, TypeOK, Pending, Call
  <1>3. \A state : InState(state)' = InState(state)
    BY <1>1 DEF InState
  <1>4. Now' = Now /\ Now \in Nat
    BY <1>1 DEF Now, IInv, TypeOK
  <1> HIDE DEF u
  <1>5. /\ links' \in [Users -> Link]
        /\ links'[u].lastRead = Now
        /\ \A w \in Users : /\ links'[w].joined = links[w].joined
                            /\ links'[w].left = links[w].left
                            /\ w # u => links'[w] = links[w]
    BY <1>1, <1>2, <1>4 DEF IInv, TypeOK, Link
  <1>6. TypeOK'
    <2>1. {u} \X calls[r].messages \subseteq Users \X (1..MaxMessages)
      BY <1>2 DEF Call
    <2> QED
      BY <1>1, <1>5, <2>1, FinishKeeps DEF IInv, TypeOK
  <1>7. Sized'
    BY <1>4, <1>5 DEF IInv, Sized
  <1>8. GuestsShareAProject'
    <2>1. Participants' = Participants
      BY <1>5 DEF Participants
    <2> QED
      BY <2>1 DEF IInv, GuestsShareAProject
  <1>9. QuietBefore'
    BY <1>1, <1>2, FinishKeeps DEF IInv, QuietBefore
  <1>10. SendersHoldTheirOwn'
    BY <1>1, <1>3, FinishKeeps DEF IInv, SendersHoldTheirOwn
  <1>11. SentIsExcused'
    BY <1>1, <1>3, FinishKeeps DEF IInv, SentIsExcused
  <1>12. ReaderHasAll'
    BY <1>1, <1>3, FinishKeeps DEF IInv, ReaderHasAll
  <1>13. UnreadOrAnswering'
    <2> SUFFICES ASSUME NEW w \in Users, NEW m \in Kept
                 PROVE  \/ messages[m].sender = w
                        \/ <<w, m>> \in accounted'
                        \/ Unread(w, m)'
                        \/ Answering(w)'
      BY <1>1, <1>3 DEF UnreadOrAnswering, Kept
    <2>1. CASE w = u
      BY <1>1, <1>2, <2>1 DEF IInv, SentIsExcused, ReaderHasAll, Kept, u
    <2>2. CASE w # u
      <3>1. Unread(w, m) => Unread(w, m)'
        BY <1>5, <2>2 DEF Unread
      <3>2. Answering(w) => Answering(w)'
        BY <1>1, <2>2, FinishKeeps DEF Answering, Pending, u
      <3> QED
        BY <1>1, <3>1, <3>2 DEF IInv, UnreadOrAnswering
    <2> QED
      BY <2>1, <2>2
  <1> QED
    BY <1>6, <1>7, <1>8, <1>9, <1>10, <1>11, <1>12, <1>13 DEF IInv

LEMMA InsertPreserves ==
    ASSUME IInv, NEW r \in Requests, InsertMessage(r)
    PROVE  IInv'
  <1> DEFINE u == calls[r].user
             n == Now + 1
             message == [sender |-> u, state |-> "inserted"]
  <1>1. /\ Pending(r, "send")
        /\ Now < MaxMessages
        /\ messages' = Append(messages, message)
        /\ calls' = [calls EXCEPT ![r].kind = "inserted", ![r].messages = {n}]
        /\ accounted' = accounted \cup ({w \in Users : OpenCalls(w) # {}} \X {n})
        /\ UNCHANGED <<creator, version, links>>
    BY DEF InsertMessage, Account
  <1>2. calls[r] \in Call /\ u \in Users /\ calls[r] # None
    BY <1>1 DEF IInv, TypeOK, Pending, Call
  <1>3. Now \in Nat /\ messages \in Seq(Message) /\ DOMAIN messages = 1..Now
    BY DEF IInv, TypeOK, Now
  <1>4. message \in Message
    BY <1>2 DEF Message
  <1>5. /\ messages' \in Seq(Message) /\ Now' = n /\ DOMAIN messages' = 1..n
        /\ messages'[n] = message
        /\ \A m \in DOMAIN messages : messages'[m] = messages[m]
    BY <1>1, <1>3, <1>4 DEF Now
  <1>6. n \in 1..MaxMessages /\ n \notin DOMAIN messages
    BY <1>1, <1>3, BoundsAreNat
  <1> DEFINE sending == [calls[r] EXCEPT !.kind = "inserted", !.messages = {n}]
  <1>7. sending \in Call /\ sending.kind = "inserted" /\ sending.user = u
        /\ sending.messages = {n}
    BY <1>2, <1>6 DEF Call
  <1>8. calls' = [calls EXCEPT ![r] = sending]
    BY <1>1 DEF IInv, TypeOK
  <1> HIDE DEF u, n, message, sending
  <1>9. /\ calls' \in [Requests -> Call \cup {None}]
        /\ calls'[r] = sending /\ calls'[r] # None
        /\ \A q \in Requests : q # r => calls'[q] = calls[q]
        /\ \A q \in Requests : calls'[q] # None => calls[q] # None /\ calls'[q].user = calls[q].user
    <2>1. sending # None
      BY <1>7, <1>2, NoneIsNoCall
    <2> QED
      BY <1>2, <1>7, <1>8, <2>1 DEF IInv, TypeOK, u
  <1>10. /\ InState("inserted")' = InState("inserted") \cup {n}
         /\ InState("committed")' = InState("committed")
    <2>1. messages'[n].state = "inserted"
      BY <1>5 DEF message
    <2>2. DOMAIN messages' = DOMAIN messages \cup {n}
      BY <1>3, <1>5 DEF n
    <2> QED
      BY <1>5, <1>6, <2>1, <2>2 DEF InState
  <1>11. TypeOK'
    <2>1. ({w \in Users : OpenCalls(w) # {}} \X {n}) \subseteq Users \X (1..MaxMessages)
      BY <1>6
    <2> QED
      BY <1>1, <1>5, <1>9, <2>1 DEF IInv, TypeOK
  <1>12. Sized'
    BY <1>1, <1>3, <1>5, <1>6 DEF IInv, Sized, TypeOK, Link, n
  <1>13. GuestsShareAProject' /\ QuietBefore'
    BY <1>1, <1>2 DEF IInv, GuestsShareAProject, Participants, QuietBefore
  <1>14. SendersHoldTheirOwn'
    <2>1. \A q \in Requests : q # r /\ Pending(q, "inserted")' =>
            Pending(q, "inserted") /\ n \notin calls[q].messages
      BY <1>6, <1>9 DEF IInv, SendersHoldTheirOwn, Pending, InState
    <2> QED
      BY <1>7, <1>9, <1>10, <2>1 DEF IInv, SendersHoldTheirOwn
  <1>15. SentIsExcused'
    <2> SUFFICES ASSUME NEW q \in Requests, calls'[q] # None, NEW m \in InState("inserted")'
                 PROVE  <<calls[q].user, m>> \in accounted'
      BY <1>9 DEF SentIsExcused
    <2>1. calls[q] # None /\ calls[q].user \in Users
      BY <1>9 DEF IInv, TypeOK, Call
    <2>2. q \in OpenCalls(calls[q].user)
      BY <2>1 DEF OpenCalls
    <2> QED
      BY <1>1, <1>10, <2>1, <2>2 DEF IInv, SentIsExcused
  <1>16. ReaderHasAll'
    <2>1. \A q \in Requests : Pending(q, "retrieve")' => q # r /\ Pending(q, "retrieve")
      BY <1>7, <1>9 DEF Pending
    <2> QED
      BY <1>1, <1>9, <1>10, <2>1 DEF IInv, ReaderHasAll
  <1>17. UnreadOrAnswering'
    <2>1. \A w \in Users : Answering(w) => Answering(w)'
      BY <1>1, <1>9 DEF Answering, Pending
    <2>2. \A m \in Kept : messages'[m] = messages[m]
      BY <1>5 DEF Kept, InState
    <2>3. \A w \in Users : n > links'[w].lastRead
      BY <1>1, <1>3 DEF IInv, Sized, TypeOK, Link, n
    <2>4. Kept' = Kept \cup {n}
      BY <1>10 DEF Kept
    <2> SUFFICES ASSUME NEW w \in Users, NEW m \in Kept'
                 PROVE  \/ messages'[m].sender = w
                        \/ <<w, m>> \in accounted'
                        \/ m > links'[w].lastRead
                        \/ Answering(w)'
      BY DEF UnreadOrAnswering, Unread
    <2>5. CASE m = n
      BY <2>3, <2>5
    <2>6. CASE m \in Kept
      BY <1>1, <2>1, <2>2, <2>6 DEF IInv, UnreadOrAnswering, Unread
    <2> QED
      BY <2>4, <2>5, <2>6
  <1> QED
    BY <1>11, <1>12, <1>13, <1>14, <1>15, <1>16, <1>17 DEF IInv

\* The messages of request r, and no others, change from being sent to `state'.
SetState(r, state) ==
    [m \in DOMAIN messages |->
        IF m \in calls[r].messages THEN [messages[m] EXCEPT !.state = state]
        ELSE messages[m]]

LEMMA SetStateMoves ==
    ASSUME IInv, NEW r \in Requests, NEW state \in {"committed", "lost"},
           Pending(r, "inserted"), messages' = SetState(r, state)
    PROVE  /\ messages' \in Seq(Message)
           /\ DOMAIN messages' = DOMAIN messages
           /\ Now' = Now
           /\ \A m \in DOMAIN messages : messages'[m].sender = messages[m].sender
           /\ InState("inserted")' = InState("inserted") \ calls[r].messages
           /\ InState("committed")' =
                InState("committed") \cup
                    (IF state = "committed" THEN calls[r].messages ELSE {})
  <1>1. /\ messages \in Seq(Message) /\ Now \in Nat /\ DOMAIN messages = 1..Now
        /\ \A m \in DOMAIN messages : messages[m] \in Message
    BY DEF IInv, TypeOK, Now
  <1>2. calls[r].messages \subseteq InState("inserted")
    BY DEF IInv, SendersHoldTheirOwn
  <1>3. \A m \in DOMAIN messages :
            /\ SetState(r, state)[m] \in Message
            /\ SetState(r, state)[m].sender = messages[m].sender
            /\ SetState(r, state)[m].state =
                 IF m \in calls[r].messages THEN state ELSE messages[m].state
    BY <1>1 DEF SetState, Message
  <1>4. DOMAIN SetState(r, state) = 1..Now
    BY <1>1 DEF SetState
  <1>5. SetState(r, state) \in [1..Now -> Message]
    BY <1>1, <1>3 DEF SetState
  <1>6. SetState(r, state) \in Seq(Message)
    BY <1>1, <1>5
  <1>7. Len(SetState(r, state)) = Now
    BY <1>1, <1>4, <1>6
  <1>8. InState("inserted")' = InState("inserted") \ calls[r].messages
    BY <1>1, <1>3, <1>4 DEF InState
  <1>9. InState("committed")' =
            InState("committed") \cup
                (IF state = "committed" THEN calls[r].messages ELSE {})
    BY <1>1, <1>2, <1>3, <1>4 DEF InState
  <1> QED
    BY <1>1, <1>3, <1>4, <1>6, <1>7, <1>8, <1>9 DEF Now

LEMMA CommitPreserves ==
    ASSUME IInv, NEW r \in Requests, CommitMessage(r)
    PROVE  IInv'
  <1> DEFINE u == calls[r].user
  <1>1. /\ Pending(r, "inserted")
        /\ messages' = SetState(r, "committed")
        /\ version' = calls[r].version + 1
        /\ links' = [links EXCEPT ![u].lastRead = Now]
        /\ calls' = [calls EXCEPT ![r].kind = "answer", ![r].version = 0, ![r].messages = {}]
        /\ UNCHANGED <<creator, accounted>>
    BY DEF CommitMessage, SetState
  <1>2. calls[r] \in Call /\ u \in Users /\ calls[r] # None
    BY <1>1 DEF IInv, TypeOK, Pending, Call
  <1>3. Now \in Nat
    BY DEF IInv, TypeOK, Now
  <1> DEFINE answer == [calls[r] EXCEPT !.kind = "answer", !.version = 0, !.messages = {}]
  <1>4. answer \in Call /\ answer.kind = "answer" /\ answer.user = u
    BY <1>2 DEF Call
  <1>5. calls' = [calls EXCEPT ![r] = answer]
    BY <1>1 DEF IInv, TypeOK
  <1> HIDE DEF u, answer
  <1>6. /\ calls' \in [Requests -> Call \cup {None}]
        /\ calls'[r] = answer /\ answer # None
        /\ \A q \in Requests : q # r => calls'[q] = calls[q]
    BY <1>4, <1>5, NoneIsNoCall DEF IInv, TypeOK
  <1>7. /\ links' \in [Users -> Link]
        /\ links'[u].lastRead = Now
        /\ \A w \in Users : /\ links'[w].joined = links[w].joined
                            /\ links'[w].left = links[w].left
                            /\ w # u => links'[w] = links[w]
    BY <1>1, <1>2, <1>3 DEF IInv, TypeOK, Link
  <1>8. /\ messages' \in Seq(Message)
        /\ Now' = Now
        /\ \A m \in DOMAIN messages : messages'[m].sender = messages[m].sender
        /\ InState("inserted")' = InState("inserted") \ calls[r].messages
        /\ InState("committed")' = InState("committed") \cup calls[r].messages
        /\ calls[r].messages \subseteq InState("inserted")
    BY <1>1, SetStateMoves DEF IInv, SendersHoldTheirOwn
  <1>9. TypeOK'
    BY <1>1, <1>2, <1>6, <1>7, <1>8 DEF IInv, TypeOK, Call
  <1>10. Sized'
    BY <1>3, <1>7, <1>8 DEF IInv, Sized
  <1>11. GuestsShareAProject'
    <2>1. Participants' = Participants
      BY <1>7 DEF Participants
    <2> QED
      BY <2>1 DEF IInv, GuestsShareAProject
  <1>12. QuietBefore'
    BY <1>1, <1>2 DEF IInv, QuietBefore
  <1>13. SendersHoldTheirOwn'
    <2>1. \A q \in Requests : Pending(q, "inserted")' => q # r /\ Pending(q, "inserted")
      BY <1>4, <1>6 DEF Pending
    <2> QED
      BY <1>1, <1>6, <1>8, <2>1 DEF IInv, SendersHoldTheirOwn
  <1>14. SentIsExcused'
    BY <1>1, <1>2, <1>4, <1>6, <1>8 DEF IInv, SentIsExcused, u
  <1>15. ReaderHasAll'
    <2>1. \A q \in Requests : Pending(q, "retrieve")' => q # r /\ Pending(q, "retrieve")
      BY <1>4, <1>6 DEF Pending
    <2>2. \A q \in Requests : Pending(q, "retrieve") => calls[q] # None
      BY DEF Pending
    <2> QED
      BY <1>1, <1>6, <1>8, <2>1, <2>2 DEF IInv, ReaderHasAll, SentIsExcused
  <1>16. UnreadOrAnswering'
    <2>1. \A w \in Users : w = u \/ Answering(w) => Answering(w)'
      <3>1. Pending(r, "answer")' /\ calls'[r].user = u
        BY <1>4, <1>6 DEF Pending
      <3>2. \A q \in Requests : Pending(q, "answer") =>
                Pending(q, "answer")' /\ calls'[q].user = calls[q].user
        BY <1>1, <1>6 DEF Pending
      <3> QED
        BY <3>1, <3>2 DEF Answering
    <2>2. \A w \in Users, m \in Kept : w # u /\ Unread(w, m) => Unread(w, m)'
      BY <1>7 DEF Unread
    <2>3. Kept' = Kept
      BY <1>8 DEF Kept
    <2>4. \A m \in Kept : messages'[m].sender = messages[m].sender
      BY <1>8 DEF Kept, InState
    <2>5. \A w \in Users, m \in Kept :
            \/ messages'[m].sender = w
            \/ <<w, m>> \in accounted
            \/ Unread(w, m)'
            \/ Answering(w)'
      BY <2>1, <2>2, <2>4 DEF IInv, UnreadOrAnswering
    <2> QED
      BY <1>1, <2>3, <2>5 DEF UnreadOrAnswering
  <1> QED
    BY <1>9, <1>10, <1>11, <1>12, <1>13, <1>14, <1>15, <1>16 DEF IInv

\* Whoever gets the answer to his message, or loses it, is accounted for.
LEMMA AnswerPreserves ==
    ASSUME IInv, NEW r \in Requests, Pending(r, "answer"), Finish(r),
           Account({calls[r].user} \X InState("committed")),
           UNCHANGED conversation
    PROVE  IInv'
  <1> DEFINE u == calls[r].user
  <1>1. /\ accounted' = accounted \cup {u} \X InState("committed")
        /\ UNCHANGED <<creator, version, links, messages>>
    BY DEF Account, conversation
  <1>2. calls[r] \in Call /\ u \in Users /\ calls[r] # None
    BY DEF IInv, TypeOK, Pending, Call
  <1>3. \A state : InState(state)' = InState(state)
    BY <1>1 DEF InState
  <1>4. InState("committed") \subseteq 1..MaxMessages
    BY BoundsAreNat DEF IInv, TypeOK, Sized, InState, Now
  <1> HIDE DEF u
  <1>5. TypeOK'
    <2>1. {u} \X InState("committed") \subseteq Users \X (1..MaxMessages)
      BY <1>2, <1>4
    <2> QED
      BY <1>1, <2>1, FinishKeeps DEF IInv, TypeOK
  <1>6. Sized' /\ GuestsShareAProject'
    BY <1>1 DEF IInv, Sized, Now, GuestsShareAProject, Participants
  <1>7. QuietBefore'
    BY <1>1, <1>2 DEF IInv, QuietBefore
  <1>8. SendersHoldTheirOwn'
    BY <1>3, FinishKeeps DEF IInv, SendersHoldTheirOwn
  <1>9. SentIsExcused'
    BY <1>1, <1>3, FinishKeeps DEF IInv, SentIsExcused
  <1>10. ReaderHasAll'
    BY <1>1, <1>3, FinishKeeps DEF IInv, ReaderHasAll
  <1>11. UnreadOrAnswering'
    <2> SUFFICES ASSUME NEW w \in Users, NEW m \in Kept
                 PROVE  \/ messages[m].sender = w
                        \/ <<w, m>> \in accounted'
                        \/ Unread(w, m)
                        \/ Answering(w)'
      BY <1>1, <1>3 DEF UnreadOrAnswering, Kept, Unread
    <2>1. CASE w = u
      BY <1>1, <1>2, <2>1 DEF IInv, SentIsExcused, Kept, u
    <2>2. CASE w # u
      <3>1. Answering(w) => Answering(w)'
        BY <2>2, FinishKeeps DEF Answering, Pending, u
      <3> QED
        BY <1>1, <3>1 DEF IInv, UnreadOrAnswering
    <2> QED
      BY <2>1, <2>2
  <1> QED
    BY <1>5, <1>6, <1>7, <1>8, <1>9, <1>10, <1>11 DEF IInv


\* The message of a transaction that is undone is none that anybody will see.
LEMMA LossPreserves ==
    ASSUME IInv, NEW r \in Requests, Pending(r, "inserted"), Finish(r),
           messages' = SetState(r, "lost"),
           UNCHANGED <<creator, version, links, accounted>>
    PROVE  IInv'
  <1>1. /\ messages' \in Seq(Message)
        /\ Now' = Now
        /\ \A m \in DOMAIN messages : messages'[m].sender = messages[m].sender
        /\ InState("inserted")' = InState("inserted") \ calls[r].messages
        /\ InState("committed")' = InState("committed")
    BY SetStateMoves
  <1>2. calls[r] # None
    BY DEF Pending
  <1>3. TypeOK'
    BY <1>1, FinishKeeps DEF IInv, TypeOK
  <1>4. Sized' /\ GuestsShareAProject'
    BY <1>1 DEF IInv, Sized, GuestsShareAProject, Participants
  <1>5. QuietBefore'
    BY <1>2 DEF IInv, QuietBefore
  <1>6. SendersHoldTheirOwn'
    BY <1>1, FinishKeeps DEF IInv, SendersHoldTheirOwn
  <1>7. SentIsExcused'
    BY <1>1, FinishKeeps DEF IInv, SentIsExcused
  <1>8. ReaderHasAll'
    BY <1>1, FinishKeeps DEF IInv, ReaderHasAll
  <1>9. UnreadOrAnswering'
    <2>1. \A w \in Users : Answering(w) => Answering(w)'
      <3>1. \A q \in Requests : Pending(q, "answer") =>
                Pending(q, "answer")' /\ calls'[q].user = calls[q].user
        BY FinishKeeps DEF Pending
      <3> QED
        BY <3>1 DEF Answering
    <2>2. Kept' \subseteq Kept
      BY <1>1 DEF Kept
    <2>3. \A m \in Kept : messages'[m].sender = messages[m].sender
      BY <1>1 DEF Kept, InState
    <2>4. \A w \in Users, m \in Kept :
            \/ messages'[m].sender = w
            \/ <<w, m>> \in accounted'
            \/ Unread(w, m)'
            \/ Answering(w)'
      BY <2>1, <2>3 DEF IInv, UnreadOrAnswering, Unread
    <2> QED
      BY <2>2, <2>4 DEF UnreadOrAnswering
  <1> QED
    BY <1>3, <1>4, <1>5, <1>6, <1>7, <1>8, <1>9 DEF IInv

\* A request that neither sends nor answers leaves only itself behind; the
\* participants may change with its end, if their last reads do not.
LEMMA EndPreserves ==
    ASSUME IInv, GuestsShareAProject',
           NEW r \in Requests, ~Pending(r, "answer"), calls[r] # None, Finish(r),
           version' \in Nat, links' \in [Users -> Link],
           \A u \in Users : links'[u].lastRead = links[u].lastRead,
           UNCHANGED <<creator, messages, accounted>>
    PROVE  IInv'
  <1>1. \A state : InState(state)' = InState(state)
    BY DEF InState
  <1>2. TypeOK' /\ Sized'
    BY FinishKeeps DEF IInv, TypeOK, Sized, Now
  <1>3. QuietBefore'
    BY DEF IInv, QuietBefore
  <1>4. SendersHoldTheirOwn'
    BY <1>1, FinishKeeps DEF IInv, SendersHoldTheirOwn
  <1>5. SentIsExcused'
    BY <1>1, FinishKeeps DEF IInv, SentIsExcused
  <1>6. ReaderHasAll'
    BY <1>1, FinishKeeps DEF IInv, ReaderHasAll
  <1>7. UnreadOrAnswering'
    <2>1. \A w \in Users : Answering(w) => Answering(w)'
      <3>1. \A q \in Requests : Pending(q, "answer") =>
                Pending(q, "answer")' /\ calls'[q].user = calls[q].user
        BY FinishKeeps DEF Pending
      <3> QED
        BY <3>1 DEF Answering
    <2>2. Kept' = Kept
      BY <1>1 DEF Kept
    <2> QED
      BY <2>1, <2>2 DEF IInv, UnreadOrAnswering, Unread
  <1> QED
    BY <1>2, <1>3, <1>4, <1>5, <1>6, <1>7 DEF IInv

LEMMA AbortPreserves ==
    ASSUME IInv, NEW r \in Requests, Abort(r)
    PROVE  IInv'
  <1>1. /\ calls[r] # None
        /\ Finish(r)
        /\ UNCHANGED <<creator, version, links>>
    BY DEF Abort
  <1>2. messages \in Seq(Message) /\ messages = [m \in DOMAIN messages |-> messages[m]]
    BY DEF IInv, TypeOK
  <1>3. CASE Pending(r, "answer")
    <2>1. Account({calls[r].user} \X InState("committed"))
      BY <1>3 DEF Abort, Pending
    <2>2. messages' = messages
      BY <1>2, <1>3 DEF Abort, Pending
    <2> QED
      BY <1>1, <1>3, <2>1, <2>2, AnswerPreserves DEF conversation
  <1>4. CASE Pending(r, "inserted")
    <2>1. messages' = SetState(r, "lost")
      BY <1>4 DEF Abort, Pending, SetState
    <2>2. accounted' = accounted
      BY <1>4 DEF Abort, Pending, Account
    <2> QED
      BY <1>1, <1>4, <2>1, <2>2, LossPreserves
  <1>5. CASE ~Pending(r, "answer") /\ ~Pending(r, "inserted")
    <2>1. messages' = messages
      BY <1>1, <1>2, <1>5 DEF Abort, Pending
    <2>2. accounted' = accounted
      BY <1>1, <1>5 DEF Abort, Pending, Account
    <2>3. GuestsShareAProject' /\ version' \in Nat /\ links' \in [Users -> Link]
      BY <1>1 DEF IInv, TypeOK, GuestsShareAProject, Participants
    <2> QED
      BY <1>1, <1>5, <2>1, <2>2, <2>3, EndPreserves
  <1> QED
    BY <1>3, <1>4, <1>5

LEMMA AddPreserves ==
    ASSUME IInv, NEW r \in Requests, AddParticipants(r)
    PROVE  IInv'
  <1> DEFINE S == calls[r].users
  <1>1. /\ Pending(r, "add") /\ Finish(r)
        /\ MayTalk(Participants \cup S)
        /\ links' = [u \in Users |-> IF u \in S THEN Rejoined(links[u]) ELSE links[u]]
        /\ version' = version + 1
        /\ UNCHANGED <<creator, messages, accounted>>
    BY DEF AddParticipants, Together
  <1>2. calls[r] # None /\ ~Pending(r, "answer")
    BY <1>1 DEF Pending
  <1> HIDE DEF S
  <1>3. links' \in [Users -> Link]
        /\ \A u \in Users : links'[u].lastRead = links[u].lastRead
    BY <1>1 DEF IInv, TypeOK, Link, Rejoined
  <1>4. Participants' \subseteq Participants \cup S
    BY <1>1 DEF Participants
  <1>5. GuestsShareAProject'
    BY <1>1, <1>4, FewerMayTalk DEF GuestsShareAProject
  <1>6. version' \in Nat
    BY <1>1 DEF IInv, TypeOK
  <1> QED
    BY <1>1, <1>2, <1>3, <1>5, <1>6, EndPreserves

LEMMA RemovePreserves ==
    ASSUME IInv, NEW r \in Requests, RemoveParticipants(r)
    PROVE  IInv'
  <1> DEFINE S == calls[r].users
  <1>1. /\ Pending(r, "remove") /\ Finish(r)
        /\ links' = [u \in Users |->
             IF u \in S /\ links[u].joined THEN [links[u] EXCEPT !.left = TRUE]
             ELSE links[u]]
        /\ version' = version + 1
        /\ UNCHANGED <<creator, messages, accounted>>
    BY DEF RemoveParticipants
  <1>2. calls[r] # None /\ ~Pending(r, "answer")
    BY <1>1 DEF Pending
  <1> HIDE DEF S
  <1>3. links' \in [Users -> Link]
        /\ \A u \in Users : /\ links'[u].lastRead = links[u].lastRead
                            /\ links'[u].joined = links[u].joined
                            /\ links[u].left => links'[u].left
    BY <1>1 DEF IInv, TypeOK, Link
  <1>4. Participants' \subseteq Participants
    BY <1>3 DEF Participants
  <1>5. GuestsShareAProject'
    BY <1>4, FewerMayTalk DEF IInv, GuestsShareAProject
  <1>6. version' \in Nat
    BY <1>1 DEF IInv, TypeOK
  <1> QED
    BY <1>1, <1>2, <1>3, <1>5, <1>6, EndPreserves

LEMMA LeavePreserves ==
    ASSUME IInv, NEW u \in Users, Leave(u)
    PROVE  IInv'
  <1>1. /\ u \in Participants
        /\ links' = [links EXCEPT ![u].left = TRUE]
        /\ UNCHANGED <<creator, version, messages, calls, accounted>>
    BY DEF Leave
  <1>2. links' \in [Users -> Link]
        /\ \A w \in Users : /\ links'[w].lastRead = links[w].lastRead
                            /\ links'[w].joined = links[w].joined
                            /\ links[w].left => links'[w].left
    BY <1>1 DEF IInv, TypeOK, Link
  <1>3. \A state : InState(state)' = InState(state)
    BY <1>1 DEF InState
  <1>4. Participants' \subseteq Participants
    BY <1>2 DEF Participants
  <1>5. GuestsShareAProject'
    BY <1>4, FewerMayTalk DEF IInv, GuestsShareAProject
  <1>6. TypeOK' /\ Sized'
    BY <1>1, <1>2 DEF IInv, TypeOK, Sized, Now
  <1>7. QuietBefore'
    BY <1>1, <1>2 DEF IInv, QuietBefore
  <1>8. (SendersHoldTheirOwn /\ SentIsExcused /\ ReaderHasAll)'
    BY <1>1, <1>3 DEF IInv, SendersHoldTheirOwn, SentIsExcused, ReaderHasAll, Pending
  <1>9. UnreadOrAnswering'
    BY <1>1, <1>2, <1>3
       DEF IInv, UnreadOrAnswering, Kept, Unread, Answering, Pending
  <1> QED
    BY <1>5, <1>6, <1>7, <1>8, <1>9 DEF IInv

LEMMA ReadingAndSendingPreserve ==
    ASSUME IInv, NEW r \in Requests, Reading(r) \/ Sending(r)
    PROVE  IInv'
  <1>1. CASE RequestRetrieve(r)
    <2>1. PICK u \in Users : LookUp(r, "retrieve", u, {})
      BY <1>1 DEF RequestRetrieve
    <2> QED
      BY <2>1, LookUpPreserves
  <1>2. CASE RequestSend(r)
    <2>1. PICK u \in Users : LookUp(r, "send", u, {})
      BY <1>2 DEF RequestSend
    <2> QED
      BY <2>1, LookUpPreserves
  <1>3. CASE Answer(r)
    BY <1>3, AnswerPreserves DEF Answer
  <1> QED
    BY <1>1, <1>2, <1>3, RetrievePreserves, InsertPreserves, CommitPreserves
       DEF Reading, Sending

\* Only the creator, who exists by then, names participants.
LEMMA ChangingPreserves ==
    ASSUME IInv, NEW r \in Requests, ChangingParticipants(r)
    PROVE  IInv'
  <1>1. CASE RequestAdd(r)
    <2>1. PICK S \in Named : creator # None /\ LookUp(r, "add", creator, S)
      BY <1>1 DEF RequestAdd
    <2>2. creator \in Users /\ S \in SUBSET Users
      BY <2>1, NamedAreUsers DEF IInv, TypeOK
    <2> QED
      BY <2>1, <2>2, LookUpPreserves
  <1>2. CASE RequestRemove(r)
    <2>1. PICK S \in Named : creator \notin S \cup {None} /\ LookUp(r, "remove", creator, S)
      BY <1>2 DEF RequestRemove
    <2>2. creator \in Users /\ S \in SUBSET Users
      BY <2>1, NamedAreUsers DEF IInv, TypeOK
    <2> QED
      BY <2>1, <2>2, LookUpPreserves
  <1> QED
    BY <1>1, <1>2, AddPreserves, RemovePreserves DEF ChangingParticipants

LEMMA NextPreserves ==
    ASSUME IInv, [Next]_vars
    PROVE  IInv'
  <1>1. CASE \E u \in Users : CreateConversation(u) \/ Leave(u)
    BY <1>1, CreatePreserves, LeavePreserves
  <1>2. CASE \E r \in Requests :
                Reading(r) \/ Sending(r) \/ ChangingParticipants(r) \/ Abort(r)
    BY <1>2, ReadingAndSendingPreserve, ChangingPreserves, AbortPreserves
  <1>3. CASE UNCHANGED vars
    BY <1>3 DEF vars, IInv, TypeOK, Sized, QuietBefore, SendersHoldTheirOwn,
                SentIsExcused, ReaderHasAll, UnreadOrAnswering, Kept, Answering,
                Unread, Pending, InState, Now, GuestsShareAProject, Participants
  <1> QED
    BY <1>1, <1>2, <1>3 DEF Next

\* Everything the handlers write has its type (models.py:36-130).
THEOREM TypeCorrect == Spec => []TypeOK
  <1>1. IInv => TypeOK
    BY DEF IInv
  <1> QED
    BY <1>1, InitEstablishes, NextPreserves, PTL DEF Spec

\* A guest shares a project with everybody he talks to, whoever is added,
\* removed, leaves and comes back in whatever order (views.py:176-186).
THEOREM GuestsStayTogether == Spec => []GuestsShareAProject
  <1>1. IInv => GuestsShareAProject
    BY DEF IInv
  <1> QED
    BY <1>1, InitEstablishes, NextPreserves, PTL DEF Spec

\* Without a request of a participant under way, every message that he has
\* neither been shown nor been excused for counts as unread, whatever the
\* order in which others insert and commit theirs (serializers.py:116-131).
THEOREM NoMessageIsSkipped == Spec => []NothingIsSkipped
  <1>1. ASSUME IInv PROVE NothingIsSkipped
    <2> SUFFICES ASSUME NEW u \in Users, NEW m \in InState("committed"),
                        OpenCalls(u) = {}, messages[m].sender # u,
                        <<u, m>> \notin accounted
                 PROVE  Unread(u, m)
      BY DEF NothingIsSkipped
    <2>1. ~Answering(u)
      BY DEF Answering, Pending, OpenCalls
    <2> QED
      BY <1>1, <2>1 DEF IInv, UnreadOrAnswering, Kept
  <1> QED
    BY <1>1, InitEstablishes, NextPreserves, PTL DEF Spec
================================================================================
