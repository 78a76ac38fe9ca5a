-------------------------- MODULE VersionedRow_proofs --------------------------
(* Proofs about VersionedRow for any number of clients, services and changes. *)
(* What concerns a client's change holds only without mirror synchronisation  *)
(* (Mirrorings = {}): MirrorOverwrite.cfg shows how that breaks it.           *)
EXTENDS VersionedRow, TLAPS

\* A request uses nothing it has not read before: a client the version it has
\* seen, a synchronisation the row it overwrites.
ReadBeforeUse ==
    /\ \A c \in Clients : phase[c] # "idle" => seen[c] # NoCopy
    /\ \A p \in Lockers : phase[p] = "checked" => p \in Clients
    /\ \A s \in Mirrorings : phase[s] = "read" => loaded[s] # NoCopy

\* The committed row is typed without the bounds of the other variables.
LEMMA ChangedIsRow ==
    ASSUME row \in Row, NEW base \in Row
    PROVE  /\ Changed(base) \in Row
           /\ Changed(base) # NoCopy
           /\ Changed(base).content = row.content + 1
           /\ Changed(base).version = base.version + 1
           /\ Changed(base).place = base.place
  <1>1. Changed(base) \in Row
    BY DEF Changed, Row, Version
  <1> QED
    BY <1>1, NoCopyIsNoRow DEF Changed

-----------------------------------------------------------------------------
(* Types and locks: with every kind of request.                            *)

LockInv == TypeOK /\ LockedRowIsCurrent /\ ReadBeforeUse

LEMMA LockInvInit == Init => LockInv
  BY NobodyIsNoRequest
  DEF Init, LockInv, TypeOK, LockedRowIsCurrent, ReadBeforeUse, Row, Version,
      Phases, Requests, Lockers

LEMMA LockInvStep == LockInv /\ [Next]_vars => LockInv'
  <1> SUFFICES ASSUME LockInv, [Next]_vars PROVE LockInv'
    OBVIOUS
  <1> USE DEF LockInv
  <1>t. row # NoCopy
    BY NoCopyIsNoRow DEF TypeOK
  <1>1. ASSUME NEW c \in Clients, Fetch(c) PROVE LockInv'
    BY <1>1, <1>t DEF Fetch, TypeOK, LockedRowIsCurrent, ReadBeforeUse, Lockers, Requests
  <1>2. ASSUME NEW c \in Clients, AssertVersion(c) PROVE LockInv'
    BY <1>2 DEF AssertVersion, TypeOK, LockedRowIsCurrent, ReadBeforeUse,
                Lockers, Requests, Phases
  <1>3. ASSUME NEW c \in Clients, VersionConflict(c) PROVE LockInv'
    BY <1>3, NobodyIsNoRequest
    DEF VersionConflict, Finish, TypeOK, LockedRowIsCurrent, ReadBeforeUse,
        Lockers, Requests, Phases
  <1>4. ASSUME NEW c \in Clients, SaveChecked(c) PROVE LockInv'
    <2>1. c \in Lockers /\ lock = c /\ loaded[c] = row
      BY <1>4 DEF SaveChecked, LockedRowIsCurrent, Lockers
    <2>2. row' \in Row /\ row' # NoCopy
      BY <1>4, <2>1, ChangedIsRow DEF SaveChecked, TypeOK
    <2>3. TypeOK'
      BY <1>4, <2>2 DEF SaveChecked, Finish, TypeOK, Lockers, Requests, Phases
    <2>4. LockedRowIsCurrent'
      BY <1>4, <2>1, NobodyIsNoRequest
      DEF SaveChecked, Finish, TypeOK, LockedRowIsCurrent, Lockers, Requests
    <2>5. ReadBeforeUse'
      BY <1>4, <2>2 DEF SaveChecked, Finish, TypeOK, ReadBeforeUse, Lockers, Requests
    <2> QED
      BY <2>3, <2>4, <2>5
  <1>5. ASSUME NEW p \in Lockers, Submit(p) PROVE LockInv'
    BY <1>5 DEF Submit, TypeOK, LockedRowIsCurrent, ReadBeforeUse, Lockers,
                Requests, Phases
  <1>6. ASSUME NEW p \in Lockers, SelectForUpdate(p) PROVE LockInv'
    BY <1>6, NobodyIsNoRequest
    DEF SelectForUpdate, TypeOK, LockedRowIsCurrent, ReadBeforeUse, Lockers,
        Requests, Phases
  <1>7. ASSUME NEW p \in Lockers, Rollback(p) PROVE LockInv'
    BY <1>7, NobodyIsNoRequest
    DEF Rollback, Finish, TypeOK, LockedRowIsCurrent, ReadBeforeUse, Lockers,
        Requests, Phases
  <1>8. ASSUME NEW p \in Services, SaveService(p) PROVE LockInv'
    <2>1. p \in Lockers /\ lock = p /\ loaded[p] = row
      BY <1>8 DEF SaveService, LockedRowIsCurrent, Lockers
    <2>2. row' \in Row
      BY <1>8, <2>1, ChangedIsRow DEF SaveService, TypeOK
    <2>3. TypeOK'
      BY <1>8, <2>2 DEF SaveService, Finish, TypeOK, Lockers, Requests, Phases
    <2>4. LockedRowIsCurrent'
      BY <1>8, <2>1, NobodyIsNoRequest
      DEF SaveService, Finish, TypeOK, LockedRowIsCurrent, Lockers, Requests
    <2>5. ReadBeforeUse'
      BY <1>8 DEF SaveService, Finish, TypeOK, ReadBeforeUse, Lockers, Requests
    <2> QED
      BY <2>3, <2>4, <2>5
  <1>9. ASSUME NEW s \in Mirrorings, ReadMirror(s) PROVE LockInv'
    <2>1. TypeOK'
      BY <1>9 DEF ReadMirror, TypeOK, Requests, Phases
    <2>2. LockedRowIsCurrent'
      BY <1>9, KindsDisjoint
      DEF ReadMirror, TypeOK, LockedRowIsCurrent, Lockers, Requests
    <2>3. ReadBeforeUse'
      BY <1>9, <1>t, KindsDisjoint
      DEF ReadMirror, TypeOK, ReadBeforeUse, Lockers, Requests
    <2> QED
      BY <2>1, <2>2, <2>3
  <1>10. ASSUME NEW s \in Mirrorings, SaveMirror(s) PROVE LockInv'
    <2>1. row' \in Row
      <3>1. s \in Requests /\ loaded[s] # NoCopy
        BY <1>10 DEF SaveMirror, ReadBeforeUse, Requests
      <3>2. Changed(loaded[s]) \in Row
        BY <3>1, <1>10, ChangedIsRow DEF TypeOK
      <3> QED
        BY <3>2, <1>10 DEF SaveMirror, TypeOK, Row
    <2>2. TypeOK'
      BY <1>10, <2>1 DEF SaveMirror, TypeOK, Requests, Phases
    <2>3. LockedRowIsCurrent'
      BY <1>10, KindsDisjoint, NobodyIsNoRequest
      DEF SaveMirror, TypeOK, LockedRowIsCurrent, Lockers, Requests
    <2>4. ReadBeforeUse'
      BY <1>10, KindsDisjoint
      DEF SaveMirror, TypeOK, ReadBeforeUse, Lockers, Requests
    <2> QED
      BY <2>2, <2>3, <2>4
  <1>11. ASSUME NEW p \in Arrangers, SaveArrangement(p) PROVE LockInv'
    <2>1. p \in Lockers /\ lock = p /\ loaded[p] = row
      BY <1>11 DEF SaveArrangement, LockedRowIsCurrent, Lockers
    <2>2. row' \in Row
      <3>1. row \in Row
        BY DEF TypeOK
      <3>2. row' = [row EXCEPT !.place = @ + 1, !.version = row.version]
        BY <1>11, <2>1 DEF SaveArrangement
      <3>3. row' = [content |-> row.content, place |-> row.place + 1,
                    version |-> row.version]
        BY <3>1, <3>2 DEF Row
      <3>4. row.content \in Nat /\ row.place + 1 \in Nat /\ row.version \in Version
        BY <3>1 DEF Row
      <3> QED
        BY <3>3, <3>4 DEF Row
    <2>3. TypeOK'
      BY <1>11, <2>2 DEF SaveArrangement, Finish, TypeOK, Lockers, Requests, Phases
    <2>4. LockedRowIsCurrent'
      BY <1>11, <2>1, NobodyIsNoRequest
      DEF SaveArrangement, Finish, TypeOK, LockedRowIsCurrent, Lockers, Requests
    <2>5. ReadBeforeUse'
      BY <1>11 DEF SaveArrangement, Finish, TypeOK, ReadBeforeUse, Lockers, Requests
    <2> QED
      BY <2>3, <2>4, <2>5
  <1>12. CASE UpdatePlace
    <2>1. row' \in Row
      BY <1>12 DEF UpdatePlace, TypeOK, Row
    <2>2. \A p \in Lockers : lock # p
      BY <1>12, NobodyIsNoRequest DEF UpdatePlace, Lockers
    <2> QED
      BY <1>12, <2>1, <2>2
      DEF UpdatePlace, TypeOK, LockedRowIsCurrent, ReadBeforeUse
  <1>13. CASE UNCHANGED vars
    BY <1>13 DEF vars, TypeOK, LockedRowIsCurrent, ReadBeforeUse
  <1> QED
    BY <1>1, <1>2, <1>3, <1>4, <1>5, <1>6, <1>7, <1>8, <1>9, <1>10, <1>11,
       <1>12, <1>13
    DEF Next, ClientStep

\* The rows and the transactions' copies of them keep their types, whatever
\* kinds of requests run (apps/workspaces/services.py).
THEOREM TypeCorrect == Spec => []TypeOK
  <1>1. LockInv => TypeOK
    BY DEF LockInv
  <1> QED
    BY LockInvInit, LockInvStep, <1>1, PTL DEF Spec

\* Whoever holds the row lock has read the row as it still is: a mirror
\* synchronisation, which does not lock when it reads, cannot write meanwhile.
THEOREM LockProtectsRow == Spec => []LockedRowIsCurrent
  <1>1. LockInv => LockedRowIsCurrent
    BY DEF LockInv
  <1> QED
    BY LockInvInit, LockInvStep, <1>1, PTL DEF Spec

-----------------------------------------------------------------------------
(* Versions: without mirror synchronisation.                               *)

IInv == LockInv /\ VersionIdentifiesContent

LEMMA IInvInit == Init => IInv
  BY LockInvInit DEF Init, IInv, VersionIdentifiesContent

LEMMA IInvStep ==
    ASSUME Mirrorings = {}
    PROVE  IInv /\ [Next]_vars => IInv'
  <1> SUFFICES ASSUME IInv, [Next]_vars PROVE VersionIdentifiesContent'
    BY LockInvStep DEF IInv
  <1> USE DEF IInv, LockInv
  <1>t. LockInv'
    BY LockInvStep
  <1>1. ASSUME NEW c \in Clients, Fetch(c) PROVE VersionIdentifiesContent'
    BY <1>1 DEF Fetch, TypeOK, VersionIdentifiesContent, Row, Version
  <1>2. ASSUME NEW c \in Clients, VersionConflict(c) PROVE VersionIdentifiesContent'
    BY <1>2 DEF VersionConflict, TypeOK, VersionIdentifiesContent
  \* A save of the locked row makes every older version differ from the new one.
  <1>3. ASSUME NEW p \in Lockers, lock = p, row' = Changed(loaded[p]),
               \/ seen' = seen
               \/ p \in Clients /\ seen' = [seen EXCEPT ![p] = row']
        PROVE  VersionIdentifiesContent'
    <2>1. row'.version = row.version + 1 /\ row.version \in Nat
      BY <1>3, ChangedIsRow DEF LockedRowIsCurrent, TypeOK, Row, Version
    <2>2. SUFFICES ASSUME NEW d \in Clients, seen'[d] # NoCopy
                   PROVE  /\ seen'[d].version <= row'.version
                          /\ seen'[d].version = row'.version =>
                                seen'[d].content = row'.content
      BY DEF VersionIdentifiesContent
    <2>3. CASE seen'[d] = row'
      BY <2>1, <2>3
    <2>4. CASE seen'[d] = seen[d]
      <3>1. seen[d].version <= row.version /\ seen[d].version \in Nat
        BY <2>2, <2>4 DEF VersionIdentifiesContent, TypeOK, Row, Version
      <3> QED
        BY <3>1, <2>1, <2>4
    <2> QED
      BY <1>3, <2>3, <2>4 DEF TypeOK
  <1>4. ASSUME NEW c \in Clients, SaveChecked(c) PROVE VersionIdentifiesContent'
    BY <1>4, <1>3 DEF SaveChecked, LockedRowIsCurrent, Lockers
  <1>5. ASSUME NEW p \in Services, SaveService(p) PROVE VersionIdentifiesContent'
    BY <1>5, <1>3 DEF SaveService, LockedRowIsCurrent, Lockers
  \* The version that is put back is the one the row has.
  <1>6. ASSUME NEW p \in Arrangers, SaveArrangement(p)
        PROVE  VersionIdentifiesContent'
    <2>1. loaded[p] = row
      BY <1>6 DEF SaveArrangement, LockedRowIsCurrent, Lockers
    <2>2. row'.version = row.version /\ row'.content = row.content
      BY <1>6, <2>1 DEF SaveArrangement, TypeOK, Row
    <2> QED
      BY <1>6, <2>2 DEF SaveArrangement, VersionIdentifiesContent
  <1>7. CASE UpdatePlace
    <2>1. row'.version = row.version /\ row'.content = row.content
      BY <1>7 DEF UpdatePlace, TypeOK, Row
    <2> QED
      BY <1>7, <2>1 DEF UpdatePlace, VersionIdentifiesContent
  <1>8. CASE UNCHANGED <<row, seen>>
    BY <1>8 DEF VersionIdentifiesContent
  <1> QED
    BY <1>1, <1>2, <1>4, <1>5, <1>6, <1>7, <1>8
    DEF Next, ClientStep, AssertVersion, Submit, SelectForUpdate, Rollback, vars

\* Two contents of the row never share a version that a client holds, if
\* whoever writes them or puts a version back has locked the row before he read
\* it; writes to the place alone need not (services.py:428, 1022-1037).
THEOREM VersionsIdentify ==
    ASSUME Mirrorings = {}
    PROVE  Spec => []VersionIdentifiesContent
  <1>1. IInv => VersionIdentifiesContent
    BY DEF IInv
  <1> QED
    BY IInvInit, IInvStep, <1>1, PTL DEF Spec

\* What assert_version promises (services.py:161-171): the row that a client's
\* change replaces is the one that client has seen.
LEMMA SaveReplacesSeen ==
    ASSUME IInv, NEW c \in Clients, SaveChecked(c)
    PROVE  seen[c].content = row.content /\ row' = Changed(row)
  <1>1. c \in Lockers /\ phase[c] = "checked"
    BY DEF SaveChecked, Lockers
  <1>2. loaded[c] = row /\ seen[c].version = row.version
    BY <1>1 DEF IInv, LockInv, LockedRowIsCurrent
  <1>3. seen[c] # NoCopy
    BY <1>1 DEF IInv, LockInv, ReadBeforeUse
  <1> QED
    BY <1>2, <1>3 DEF SaveChecked, IInv, VersionIdentifiesContent

\* No client overwrites a change that it has not seen, nor a place, for any
\* number of clients, services and moves (docs/ARCHITEKTUR.md:29).
THEOREM OverwritesAreNoticed ==
    ASSUME Mirrorings = {}
    PROVE  Spec => NoUnnoticedOverwrite
  <1>1. IInv /\ [Next]_vars =>
          [\A c \in Clients : SaveChecked(c) =>
              /\ seen[c].content = row.content
              /\ row'.place = row.place]_vars
    BY SaveReplacesSeen, ChangedIsRow DEF IInv, LockInv, TypeOK
  <1> QED
    BY IInvInit, IInvStep, <1>1, PTL DEF Spec, NoUnnoticedOverwrite

-----------------------------------------------------------------------------
(* The row keeps the promise of ConflictChecked.                           *)

Copy == [c \in Clients |-> IF seen[c] = NoCopy THEN NoCopy ELSE seen[c].content]

LEMMA PromiseInit == Init => Promise!CInit
  BY NoCopyIsNoRow DEF Init, Promise!CInit

LEMMA PromiseStep ==
    ASSUME Mirrorings = {}
    PROVE  IInv /\ [Next]_vars => [Promise!CNext]_(Promise!cvars)
  <1> SUFFICES ASSUME IInv, [Next]_vars PROVE [Promise!CNext]_(Promise!cvars)
    OBVIOUS
  <1> USE DEF IInv, LockInv
  <1>t. row \in Row /\ row # NoCopy /\ row.content \in Nat
    BY NoCopyIsNoRow DEF TypeOK, Row
  <1>s. seen \in [Clients -> Row \cup {NoCopy}]
    BY DEF TypeOK
  <1>1. ASSUME NEW c \in Clients, Fetch(c) PROVE Promise!CNext
    <2>1. Copy' = [Copy EXCEPT ![c] = row.content]
      BY <1>1, <1>t, <1>s DEF Fetch, Copy
    <2> QED
      BY <1>1, <2>1 DEF Fetch, Copy, Promise!CNext, Promise!Load
  <1>2. ASSUME NEW c \in Clients, VersionConflict(c) PROVE Promise!CNext
    <2>1. Copy' = [Copy EXCEPT ![c] = NoCopy]
      BY <1>2, <1>s DEF VersionConflict, Copy
    <2> QED
      BY <1>2, <2>1 DEF VersionConflict, Copy, Promise!CNext, Promise!Discard
  <1>3. ASSUME NEW c \in Clients, SaveChecked(c) PROVE Promise!CNext
    <2>1. seen[c].content = row.content /\ row' = Changed(row)
      BY <1>3, SaveReplacesSeen
    <2>2. row'.content = row.content + 1 /\ row' # NoCopy
      BY <2>1, <1>t, ChangedIsRow
    <2>3. Copy[c] = row.content
      BY <2>1, <1>3 DEF Copy, SaveChecked, ReadBeforeUse
    <2>4. Copy' \in {Copy, [Copy EXCEPT ![c] = row'.content]}
      <3>1. CASE seen' = seen
        BY <3>1 DEF Copy
      <3>2. CASE seen' = [seen EXCEPT ![c] = row']
        BY <3>2, <2>2, <1>s DEF Copy
      <3> QED
        BY <1>3, <3>1, <3>2 DEF SaveChecked
    <2> QED
      BY <2>2, <2>3, <2>4 DEF Copy, Promise!CNext, Promise!Change
  <1>4. ASSUME NEW p \in Services, SaveService(p) PROVE Promise!CNext
    <2>1. row'.content = row.content + 1 /\ seen' = seen
      BY <1>4, ChangedIsRow, <1>t DEF SaveService, LockedRowIsCurrent, Lockers
    <2> QED
      BY <2>1 DEF Promise!CNext, Promise!ServerChange
  <1>5. ASSUME NEW p \in Arrangers, SaveArrangement(p) PROVE UNCHANGED Promise!cvars
    <2>1. row'.content = row.content
      BY <1>5, <1>t DEF SaveArrangement, Row
    <2> QED
      BY <1>5, <2>1 DEF SaveArrangement, Promise!cvars
  <1>6. CASE UpdatePlace
    <2>1. row'.content = row.content
      BY <1>6, <1>t DEF UpdatePlace, Row
    <2> QED
      BY <1>6, <2>1 DEF UpdatePlace, Promise!cvars
  <1>7. CASE UNCHANGED <<row, seen>>
    BY <1>7 DEF Promise!cvars
  <1> QED
    BY <1>1, <1>2, <1>3, <1>4, <1>5, <1>6, <1>7
    DEF Next, ClientStep, AssertVersion, Submit, SelectForUpdate, Rollback, vars

\* Locking, re-reading and comparing one number implement the promise of
\* docs/ARCHITEKTUR.md, in which neither locks nor versions occur.
THEOREM PromiseKept ==
    ASSUME Mirrorings = {}
    PROVE  Spec => KeepsPromise
  BY IInvInit, IInvStep, PromiseInit, PromiseStep, PTL
  DEF Spec, KeepsPromise, Promise!CSpec
================================================================================
