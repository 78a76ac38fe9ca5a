----------------------------- MODULE Accounts_proofs ----------------------------
(* Proofs about Accounts, for any passwords, links, settings and number of     *)
(* handlers at a time.                                                         *)
EXTENDS Accounts, SequenceTheorems, TLAPS

(***************************************************************************)
(* The inductive invariant.                                                *)
(***************************************************************************)

CallsTyped ==
    /\ \A c \in Of("issue") : /\ c.token \in TokenIds
                              /\ c.purpose \in Purposes
                              /\ c.outdated \subseteq TokenIds
    /\ \A c \in Of("wait") : c.purpose \in Purposes
    /\ \A c \in Of("reset") : c.token \in TokenIds /\ c.password \in Passwords
    /\ \A c \in Of("change") : c.password \in Passwords
    /\ \A c \in Of("profile") : c.seen \in Account

\* Who issues a link has its key to himself, and the rows it will close.
IssuersHold ==
    \A c \in Of("issue") :
        /\ tokens[c.token].state = "none"
        /\ \A o \in c.outdated : tokens[o].state = "open"
        /\ \A d \in Of("issue") :
              d # c => d.token # c.token /\ d.outdated \cap c.outdated = {}

ConsumedAreClosed == \A t \in consumed : tokens[t].state = "closed"

Earned == \E t \in consumed : tokens[t].purpose = "verify_email"

\* A confirmation that is still to be written has been earned, and so has one
\* that a profile has read and will write again.
WrittenIsEarned ==
    (\/ account.verified
     \/ Of("verify") # {}
     \/ \E c \in Of("profile") : c.seen.verified) => Earned

Chronological ==
    /\ Len(failures) <= LoginFailureLimit + 1
    /\ \A i \in 1..Len(failures) : failures[i] <= now
    /\ \A i, j \in 1..Len(failures) : i <= j => failures[i] <= failures[j]

\* The failure before those that are counted has locked the account, and
\* those that are counted came after the lock.
CountedAfterLock ==
    LET last == Len(failures) - account.failed
    IN  last > 0 =>
          /\ account.lockedUntil = failures[last] + LoginLockMinutes
          /\ \A i \in last + 1..Len(failures) : failures[i] >= account.lockedUntil

TokenInv == CallsTyped /\ TypeOK /\ IssuersHold /\ ConsumedAreClosed

FailureInv == Chronological /\ CountedAfterLock /\ FailuresAreLimited

IInv == TokenInv /\ WrittenIsEarned /\ ResetVoidsLinks /\ FailureInv

(***************************************************************************)
(* What becomes of calls and tokens.                                       *)
(***************************************************************************)

LEMMA ClosedTokens ==
    ASSUME TypeOK, NEW S
    PROVE  /\ Closed(S) \in [TokenIds -> Token]
           /\ \A t \in TokenIds :
                /\ Closed(S)[t].state = IF t \in S THEN "closed" ELSE tokens[t].state
                /\ Closed(S)[t].purpose = tokens[t].purpose
                /\ Closed(S)[t].expires = tokens[t].expires
                /\ Closed(S)[t].era = tokens[t].era
  <1>1. \A t \in TokenIds : tokens[t] \in Token
    BY DEF TypeOK
  <1> QED
    BY <1>1 DEF Closed, Token

LEMMA InitEstablishes == Init => IInv
  <1> SUFFICES ASSUME Init PROVE IInv
    OBVIOUS
  <1>1. TypeOK
    <2>1. account \in Account
      BY FirstIsPassword, SettingsArePositive DEF Init, Account, Unlocked
    <2>2. tokens \in [TokenIds -> Token]
      BY DEF Init, Token, Purposes
    <2> QED
      BY <2>1, <2>2 DEF Init, TypeOK
  <1>2. \A kind : Of(kind) = {}
    BY DEF Init, Of
  <1>3. CallsTyped /\ IssuersHold /\ ConsumedAreClosed /\ WrittenIsEarned
    BY <1>2 DEF Init, CallsTyped, IssuersHold, ConsumedAreClosed, WrittenIsEarned
  <1>4. ResetVoidsLinks
    BY DEF Init, ResetVoidsLinks, OpenTokens
  <1>5. FailureInv
    BY SettingsArePositive
    DEF Init, FailureInv, Chronological, CountedAfterLock, FailuresAreLimited
  <1> QED
    BY <1>1, <1>3, <1>4, <1>5 DEF IInv, TokenInv

\* Somebody, who may have waited, has closed the open tokens of S, and will
\* create token t.
LEMMA IssuePreserves ==
    ASSUME IInv, NEW t \in TokenIds, NEW purpose \in Purposes, Unused(t),
           NEW S \in SUBSET TokenIds,
           \A o \in S : tokens[o].state = "open" /\ ~Locked(o),
           NEW call, call.kind = "issue", call.token = t, call.purpose = purpose,
           call.outdated = S,
           NEW W, \A c \in W : c.kind = "wait", calls' = (calls \ W) \cup {call},
           UNCHANGED <<now, account, tokens, consumed, resets, failures>>
    PROVE  IInv'
  <1>1. tokens[t].state = "none" /\ \A c \in Of("issue") : c.token # t
    BY DEF Unused
  <1>4. /\ Of("issue")' = Of("issue") \cup {call}
        /\ Of("wait")' \subseteq Of("wait")
        /\ \A kind : kind \notin {"issue", "wait"} => Of(kind)' = Of(kind)
    BY DEF Of
  <1>5. CallsTyped'
    BY <1>4 DEF IInv, TokenInv, CallsTyped, Account
  <1>6. TypeOK'
    BY DEF IInv, TokenInv, TypeOK
  <1>7. IssuersHold'
    <2>1. \A c \in Of("issue") : c.token # t /\ c.outdated \cap S = {}
      BY <1>1 DEF Locked
    <2> QED
      BY <1>1, <1>4, <2>1 DEF IInv, TokenInv, IssuersHold
  <1>8. ConsumedAreClosed' /\ FailureInv' /\ ResetVoidsLinks'
    BY DEF IInv, TokenInv, ConsumedAreClosed, FailureInv, ResetVoidsLinks,
           OpenTokens, Chronological, CountedAfterLock, FailuresAreLimited
  <1>9. WrittenIsEarned'
    BY <1>4 DEF IInv, WrittenIsEarned, Earned
  <1> QED
    BY <1>5, <1>6, <1>7, <1>8, <1>9 DEF IInv, TokenInv

LEMMA IssueAtOnce ==
    ASSUME IInv, NEW t \in TokenIds, NEW purpose \in Purposes,
           IssueAccountToken(t, purpose)
    PROVE  IInv'
  <1> DEFINE S == OpenTokens(purpose)
             call == [kind |-> "issue", token |-> t, purpose |-> purpose, outdated |-> S]
             W == {}
  <1>1. /\ Unused(t) /\ calls' = (calls \ W) \cup {call}
        /\ \A o \in S : ~Locked(o)
        /\ UNCHANGED <<now, account, tokens, consumed, resets, failures>>
    BY DEF IssueAccountToken, Begin
  <1>2. S \in SUBSET TokenIds /\ \A o \in S : tokens[o].state = "open"
    BY DEF OpenTokens
  <1>3. /\ call.kind = "issue" /\ call.token = t /\ call.purpose = purpose
        /\ call.outdated = S
    OBVIOUS
  <1>4. \A c \in W : c.kind = "wait"
    OBVIOUS
  <1> HIDE DEF S, call, W
  <1> QED
    BY <1>1, <1>2, <1>3, <1>4, IssuePreserves

LEMMA IssueAfterWait ==
    ASSUME IInv, NEW c \in Of("wait"), NEW t \in TokenIds, CloseSeen(c, t)
    PROVE  IInv'
  <1> DEFINE S == c.seen \cap OpenTokens(c.purpose)
             call == [kind |-> "issue", token |-> t, purpose |-> c.purpose,
                      outdated |-> S]
             W == {c}
  <1>1. /\ Unused(t) /\ calls' = (calls \ W) \cup {call}
        /\ \A o \in S : ~Locked(o)
        /\ UNCHANGED <<now, account, tokens, consumed, resets, failures>>
    BY DEF CloseSeen
  <1>2. S \in SUBSET TokenIds /\ \A o \in S : tokens[o].state = "open"
    BY DEF OpenTokens
  <1>3. /\ call.kind = "issue" /\ call.token = t /\ call.purpose = c.purpose
        /\ call.outdated = S
    OBVIOUS
  <1>4. c.purpose \in Purposes /\ \A d \in W : d.kind = "wait"
    BY DEF IInv, TokenInv, CallsTyped, Of
  <1> HIDE DEF S, call, W
  <1> QED
    BY <1>1, <1>2, <1>3, <1>4, IssuePreserves

LEMMA CommitPreserves ==
    ASSUME IInv, NEW c \in Of("issue"), CommitToken(c)
    PROVE  IInv'
  <1> DEFINE token == [state |-> "open", purpose |-> c.purpose,
                       expires |-> DefaultExpiry(c.purpose), era |-> resets]
  <1>1. /\ tokens' = [Closed(c.outdated) EXCEPT ![c.token] = token]
        /\ calls' = calls \ {c}
        /\ UNCHANGED <<now, account, consumed, resets, failures>>
    BY DEF CommitToken, End
  <1>2. c.token \in TokenIds /\ c.purpose \in Purposes /\ c.outdated \subseteq TokenIds
    BY DEF IInv, TokenInv, CallsTyped
  <1>3. token \in Token /\ token.state = "open" /\ token.era = resets
    BY <1>2 DEF Token, IInv, TokenInv, TypeOK, DefaultExpiry
  <1> HIDE DEF token
  <1>4. \A kind : Of(kind)' = Of(kind) \ {c}
    BY <1>1 DEF Of
  <1>6. tokens' \in [TokenIds -> Token]
        /\ tokens'[c.token] = token
        /\ \A t \in TokenIds : t # c.token =>
             /\ tokens'[t].state = IF t \in c.outdated THEN "closed" ELSE tokens[t].state
             /\ tokens'[t].purpose = tokens[t].purpose
             /\ tokens'[t].era = tokens[t].era
    BY <1>1, <1>2, <1>3, ClosedTokens DEF IInv, TokenInv
  <1>7. CallsTyped'
    BY <1>4 DEF IInv, TokenInv, CallsTyped, Account
  <1>8. TypeOK'
    BY <1>1, <1>6 DEF IInv, TokenInv, TypeOK, Account
  <1>9. tokens[c.token].state = "none" /\ c.token \notin consumed
    BY DEF IInv, TokenInv, IssuersHold, ConsumedAreClosed
  <1>10. IssuersHold'
    BY <1>2, <1>4, <1>6, <1>9 DEF IInv, TokenInv, IssuersHold, CallsTyped
  <1>11. ConsumedAreClosed'
    BY <1>1, <1>6, <1>9 DEF IInv, TokenInv, ConsumedAreClosed, TypeOK
  <1>12. WrittenIsEarned'
    <2>1. Earned => Earned'
      BY <1>1, <1>6, <1>9 DEF Earned, IInv, TokenInv, TypeOK
    <2> QED
      BY <1>1, <1>4, <2>1 DEF IInv, WrittenIsEarned
  <1>13. ResetVoidsLinks'
    BY <1>1, <1>3, <1>6 DEF IInv, ResetVoidsLinks, OpenTokens
  <1>14. FailureInv'
    BY <1>1 DEF IInv, FailureInv, Chronological, CountedAfterLock, FailuresAreLimited
  <1> QED
    BY <1>7, <1>8, <1>10, <1>11, <1>12, <1>13, <1>14 DEF IInv, TokenInv

\* Open tokens that nobody else will close can be closed.
LEMMA ClosingKeeps ==
    ASSUME TokenInv, NEW S \in SUBSET TokenIds,
           \A t \in S : tokens[t].state = "open" /\ ~Locked(t),
           tokens' = Closed(S), Of("issue")' = Of("issue")
    PROVE  /\ tokens' \in [TokenIds -> Token]
           /\ IssuersHold'
           /\ \A t \in S : tokens'[t].state = "closed"
           /\ \A t \in TokenIds :
                /\ tokens[t].state = "closed" => tokens'[t].state = "closed"
                /\ tokens'[t].purpose = tokens[t].purpose
           /\ \A purpose : OpenTokens(purpose)' = OpenTokens(purpose) \ S
           /\ ResetVoidsLinks /\ resets' = resets => ResetVoidsLinks'
  <1>1. \A t \in TokenIds :
            /\ tokens'[t].state = IF t \in S THEN "closed" ELSE tokens[t].state
            /\ tokens'[t].purpose = tokens[t].purpose
            /\ tokens'[t].era = tokens[t].era
    BY ClosedTokens DEF TokenInv
  <1>2. tokens' \in [TokenIds -> Token]
    BY ClosedTokens DEF TokenInv
  <1>3. \A c \in Of("issue"), t \in S : t # c.token /\ t \notin c.outdated
    BY DEF TokenInv, IssuersHold, Locked
  <1>4. IssuersHold'
    BY <1>1, <1>3 DEF TokenInv, IssuersHold, CallsTyped
  <1>5. \A purpose : OpenTokens(purpose)' = OpenTokens(purpose) \ S
    BY <1>1 DEF OpenTokens
  <1>6. ResetVoidsLinks /\ resets' = resets => ResetVoidsLinks'
    <2>1. OpenTokens("reset_password")' \subseteq OpenTokens("reset_password") \cap TokenIds
      BY <1>5 DEF OpenTokens
    <2> QED
      BY <1>1, <2>1 DEF ResetVoidsLinks
  <1> QED
    BY <1>1, <1>2, <1>4, <1>5, <1>6

LEMMA ConsumePreserves ==
    ASSUME IInv, NEW t \in TokenIds, ConsumeVerification(t)
    PROVE  IInv'
  <1> DEFINE call == [kind |-> "verify", token |-> t, verified |-> account.verified]
  <1>1. /\ tokens[t].state = "open" /\ ~Locked(t)
        /\ tokens[t].purpose = "verify_email"
        /\ tokens' = Closed({t})
        /\ consumed' = consumed \cup {t}
        /\ calls' = calls \cup {call}
        /\ UNCHANGED <<now, account, resets, failures>>
    BY DEF ConsumeVerification, ValidateAccountToken, IsUsable, IsFor, Begin
  <1>2. call.kind = "verify"
    OBVIOUS
  <1> HIDE DEF call
  <1>3. \A kind : kind # "verify" => Of(kind)' = Of(kind)
    BY <1>1, <1>2 DEF Of
  <1> DEFINE S == {t}
  <1>11. S \in SUBSET TokenIds /\ tokens' = Closed(S) /\ t \in S
         /\ \A s \in S : tokens[s].state = "open" /\ ~Locked(s)
    BY <1>1
  <1> HIDE DEF S
  <1>4. /\ tokens' \in [TokenIds -> Token]
        /\ IssuersHold'
        /\ tokens'[t].state = "closed"
        /\ \A s \in TokenIds :
             /\ tokens[s].state = "closed" => tokens'[s].state = "closed"
             /\ tokens'[s].purpose = tokens[s].purpose
        /\ ResetVoidsLinks'
    BY <1>1, <1>3, <1>11, ClosingKeeps DEF IInv
  <1>5. CallsTyped'
    BY <1>3 DEF IInv, TokenInv, CallsTyped, Account
  <1>6. TypeOK'
    BY <1>1, <1>4 DEF IInv, TokenInv, TypeOK, Account
  <1>7. ConsumedAreClosed'
    BY <1>1, <1>4 DEF IInv, TokenInv, ConsumedAreClosed, TypeOK
  <1>8. WrittenIsEarned'
    BY <1>1, <1>4 DEF WrittenIsEarned, Earned
  <1>10. FailureInv'
    BY <1>1 DEF IInv, FailureInv, Chronological, CountedAfterLock, FailuresAreLimited
  <1> QED
    BY <1>4, <1>5, <1>6, <1>7, <1>8, <1>10 DEF IInv, TokenInv

\* What touches no token leaves the promises about tokens alone.
LEMMA TokensAsTheyWere ==
    ASSUME IInv, UNCHANGED <<tokens, consumed, resets>>,
           Of("issue")' \subseteq Of("issue"), CallsTyped', WrittenIsEarned',
           account' \in Account, now' \in Nat, failures' \in Seq(Nat), FailureInv'
    PROVE  IInv'
  <1>1. TypeOK'
    BY DEF IInv, TokenInv, TypeOK
  <1>2. IssuersHold' /\ ConsumedAreClosed' /\ ResetVoidsLinks'
    BY DEF IInv, TokenInv, IssuersHold, ConsumedAreClosed, ResetVoidsLinks, OpenTokens
  <1> QED
    BY <1>1, <1>2 DEF IInv, TokenInv

LEMMA FailuresAsTheyWere ==
    ASSUME IInv, failures' = failures, account'.failed = account.failed,
           account'.lockedUntil = account.lockedUntil, now' \in Nat, now' >= now
    PROVE  FailureInv'
  <1>1. Len(failures) \in Nat /\ \A i \in 1..Len(failures) : failures[i] \in Nat
    BY DEF IInv, TokenInv, TypeOK
  <1>2. now \in Nat
    BY DEF IInv, TokenInv, TypeOK
  <1> QED
    BY <1>1, <1>2 DEF IInv, FailureInv, Chronological, CountedAfterLock, FailuresAreLimited

\* Forgetting the failures forgets the obligation.
LEMMA FailuresForgotten ==
    ASSUME account' \in Account, failures' = <<>>
    PROVE  FailureInv'
  BY SettingsArePositive
  DEF FailureInv, Chronological, CountedAfterLock, FailuresAreLimited, Account

LEMMA ConfirmPreserves ==
    ASSUME IInv, NEW c \in Of("verify"), ConfirmVerification(c)
    PROVE  IInv'
  <1>1. /\ account' = [account EXCEPT !.verified = account.verified \/ ~c.verified]
        /\ calls' = calls \ {c}
        /\ UNCHANGED <<now, tokens, consumed, resets, failures>>
    BY DEF ConfirmVerification, End
  <1>2. \A kind : Of(kind)' \subseteq Of(kind)
    BY <1>1 DEF Of
  <1>3. /\ account' \in Account
        /\ account'.failed = account.failed
        /\ account'.lockedUntil = account.lockedUntil
    BY <1>1 DEF IInv, TokenInv, TypeOK, Account
  <1>4. FailureInv'
    BY <1>1, <1>3, FailuresAsTheyWere DEF IInv, TokenInv, TypeOK
  <1>5. WrittenIsEarned'
    BY <1>1 DEF IInv, WrittenIsEarned, Earned
  <1>6. CallsTyped'
    BY <1>2 DEF IInv, TokenInv, CallsTyped, Account
  <1> QED
    BY <1>1, <1>2, <1>3, <1>4, <1>5, <1>6, TokensAsTheyWere DEF IInv, TokenInv, TypeOK

LEMMA SavePasswordPreserves ==
    ASSUME IInv, NEW c \in Of("change"), SavePassword(c)
    PROVE  IInv'
  <1> DEFINE call == [kind |-> "changed", seen |-> TokenIds]
  <1>1. /\ account' = [account EXCEPT !.password = c.password]
        /\ calls' = (calls \ {c}) \cup {call}
        /\ UNCHANGED <<now, tokens, consumed, resets, failures>>
    BY DEF SavePassword
  <1>2. call.kind = "changed"
    OBVIOUS
  <1> HIDE DEF call
  <1>3. \A kind : kind # "changed" => Of(kind)' \subseteq Of(kind)
    BY <1>1, <1>2 DEF Of
  <1>4. /\ account' \in Account
        /\ account'.failed = account.failed
        /\ account'.lockedUntil = account.lockedUntil
        /\ account'.verified = account.verified
    BY <1>1 DEF IInv, TokenInv, TypeOK, Account, CallsTyped
  <1>5. FailureInv'
    BY <1>1, <1>4, FailuresAsTheyWere DEF IInv, TokenInv, TypeOK
  <1>6. WrittenIsEarned'
    <2>1. Of("verify")' \subseteq Of("verify") /\ Of("profile")' \subseteq Of("profile")
      BY <1>3
    <2> QED
      BY <1>1, <1>4, <2>1 DEF IInv, WrittenIsEarned, Earned
  <1>7. CallsTyped'
    BY <1>3 DEF IInv, TokenInv, CallsTyped, Account
  <1> QED
    BY <1>1, <1>3, <1>4, <1>5, <1>6, <1>7, TokensAsTheyWere DEF IInv, TokenInv, TypeOK

LEMMA SaveProfilePreserves ==
    ASSUME IInv, NEW c \in Of("profile"), SaveProfile(c)
    PROVE  IInv'
  <1>1. /\ account' = c.seen
        /\ failures' = <<>>
        /\ calls' = calls \ {c}
        /\ UNCHANGED <<now, tokens, consumed, resets>>
    BY DEF SaveProfile, End
  <1>2. \A kind : Of(kind)' \subseteq Of(kind)
    BY <1>1 DEF Of
  <1>3. account' \in Account
    BY <1>1 DEF IInv, TokenInv, CallsTyped
  <1>4. FailureInv' /\ failures' \in Seq(Nat)
    BY <1>1, <1>3, FailuresForgotten
  <1>5. WrittenIsEarned'
    BY <1>1, <1>2 DEF IInv, WrittenIsEarned, Earned
  <1>6. CallsTyped'
    BY <1>2 DEF IInv, TokenInv, CallsTyped, Account
  <1> QED
    BY <1>1, <1>2, <1>3, <1>4, <1>5, <1>6, TokensAsTheyWere DEF IInv, TokenInv, TypeOK

\* Beginning a call that does not issue a link.
LEMMA BeginPreserves ==
    ASSUME IInv, NEW call, calls' = calls \cup {call}, call.kind # "issue",
           call.kind # "verify",
           call.kind = "reset" => call.token \in TokenIds /\ call.password \in Passwords,
           call.kind = "change" => call.password \in Passwords,
           call.kind = "wait" => call.purpose \in Purposes,
           call.kind = "profile" => call.seen = account,
           UNCHANGED <<now, account, tokens, consumed, resets, failures>>
    PROVE  IInv'
  <1>1. \A kind : Of(kind)' = Of(kind) \cup {c \in {call} : c.kind = kind}
    BY DEF Of
  <1>2. CallsTyped'
    BY <1>1 DEF IInv, TokenInv, CallsTyped, TypeOK, Account
  <1>3. WrittenIsEarned'
    BY <1>1 DEF IInv, WrittenIsEarned, Earned
  <1>4. FailureInv'
    BY DEF IInv, FailureInv, Chronological, CountedAfterLock, FailuresAreLimited
  <1> QED
    BY <1>1, <1>2, <1>3, <1>4, TokensAsTheyWere DEF IInv, TokenInv, TypeOK

LEMMA EndPreserves ==
    ASSUME IInv, NEW c \in calls, End(c),
           UNCHANGED <<account, tokens, consumed, resets, failures>>,
           now' \in Nat, now' >= now
    PROVE  IInv'
  <1>1. \A kind : Of(kind)' \subseteq Of(kind)
    BY DEF Of, End
  <1>2. CallsTyped'
    BY <1>1 DEF IInv, TokenInv, CallsTyped, Account
  <1>3. WrittenIsEarned'
    BY <1>1 DEF IInv, WrittenIsEarned, Earned
  <1>4. FailureInv'
    BY FailuresAsTheyWere
  <1> QED
    BY <1>1, <1>2, <1>3, <1>4, TokensAsTheyWere DEF IInv, TokenInv, TypeOK

LEMMA LatestElements ==
    ASSUME NEW n \in Nat \ {0}, NEW s \in Seq(Nat), NEW e \in Nat, Len(s) <= n,
           NEW t, t = Latest(n, Append(s, e))
    PROVE  /\ t \in Seq(Nat)
           /\ Len(t) = IF Len(s) = n THEN n ELSE Len(s) + 1
           /\ t[Len(t)] = e
           /\ \A i \in 1..Len(t) - 1 : t[i] = s[i + (Len(s) + 1 - Len(t))]
  <1> DEFINE a == Append(s, e)
             d == IF Len(a) > n THEN 1 ELSE 0
  <1>1. /\ a \in Seq(Nat) /\ Len(a) = Len(s) + 1 /\ a[Len(s) + 1] = e
        /\ \A i \in 1..Len(s) : a[i] = s[i]
        /\ Len(s) \in Nat
    OBVIOUS
  <1>2. d \in {0, 1} /\ (d = 1 => Len(s) = n) /\ (d = 0 => Len(s) < n)
    BY <1>1
  <1>3. t = SubSeq(a, d + 1, Len(a))
    <2>1. (IF Len(a) > n THEN Len(a) - n + 1 ELSE 1) = d + 1
      BY <1>1, <1>2
    <2> QED
      BY <2>1 DEF Latest
  <1> HIDE DEF a, d
  <1>4. /\ t \in Seq(Nat)
        /\ Len(t) = Len(s) + 1 - d
        /\ \A i \in 1..Len(s) + 1 - d : t[i] = a[i + d]
    <2>1. d + 1 \in Int /\ Len(a) \in Int /\ \A i \in d + 1..Len(a) : a[i] \in Nat
      BY <1>1, <1>2
    <2>2. d + 1 <= Len(a) /\ Len(a) - (d + 1) + 1 = Len(s) + 1 - d
      BY <1>1, <1>2
    <2>3. /\ t \in Seq(Nat)
          /\ Len(t) = Len(s) + 1 - d
          /\ \A i \in 1..Len(a) - (d + 1) + 1 : t[i] = a[(d + 1) + i - 1]
      BY <1>3, <2>1, <2>2, SubSeqProperties
    <2> QED
      BY <1>1, <1>2, <2>3
  <1>5. t[Len(s) + 1 - d] = e
    BY <1>1, <1>2, <1>4
  <1>6. \A i \in 1..Len(s) - d : t[i] = s[i + d]
    BY <1>1, <1>2, <1>4
  <1>7. Len(t) = IF Len(s) = n THEN n ELSE Len(s) + 1
    BY <1>1, <1>2, <1>4
  <1>8. t[Len(t)] = e
    BY <1>4, <1>5
  <1>9. \A i \in 1..Len(t) - 1 : t[i] = s[i + (Len(s) + 1 - Len(t))]
    <2>1. Len(t) - 1 = Len(s) - d /\ Len(s) + 1 - Len(t) = d
      BY <1>1, <1>2, <1>4
    <2> QED
      BY <1>6, <2>1
  <1> QED
    BY <1>2, <1>4, <1>7, <1>8, <1>9

\* A wrong password is tried while the account is not locked.
LEMMA FailurePreserves ==
    ASSUME IInv, ~IsLoginLocked, account' = Failed, UNCHANGED now,
           failures' = Latest(LoginFailureLimit + 1, Append(failures, now))
    PROVE  /\ account' \in Account
           /\ account'.verified = account.verified
           /\ failures' \in Seq(Nat)
           /\ FailureInv'
  <1> DEFINE L == LoginFailureLimit
             M == LoginLockMinutes
             k == Len(failures)
             n == Len(failures')
             f == account.failed
  <1>1. /\ account \in Account /\ now \in Nat /\ failures \in Seq(Nat)
        /\ k \in Nat /\ k <= L + 1 /\ f \in 0..L - 1 /\ account.lockedUntil \in Nat
        /\ L \in Nat \ {0} /\ M \in Nat
        /\ \A i \in 1..k : failures[i] \in Nat
    BY SettingsArePositive
    DEF IInv, TokenInv, TypeOK, FailureInv, Chronological, Account
  <1>2. account.lockedUntil <= now
    BY <1>1 DEF IsLoginLocked
  <1>14. /\ failures' \in Seq(Nat)
         /\ n = IF k = L + 1 THEN L + 1 ELSE k + 1
         /\ failures'[n] = now
         /\ \A i \in 1..n - 1 : failures'[i] = failures[i + (k + 1 - n)]
    <2> DEFINE m == L + 1
    <2>1. m \in Nat \ {0} /\ k <= m /\ failures' = Latest(m, Append(failures, now))
      BY <1>1
    <2> HIDE DEF L, m
    <2>2. /\ failures' \in Seq(Nat)
          /\ n = IF k = m THEN m ELSE k + 1
          /\ failures'[n] = now
          /\ \A i \in 1..n - 1 : failures'[i] = failures[i + (k + 1 - n)]
      <3>1. failures \in Seq(Nat) /\ now \in Nat
        BY <1>1
      <3> QED
        BY <2>1, <3>1, LatestElements
    <2> QED
      BY <2>2 DEF m
  <1> DEFINE d == k + 1 - n
  <1>3. /\ d \in {0, 1}
        /\ failures' \in Seq(Nat)
        /\ n = k + 1 - d
        /\ d = 1 => n = L + 1
        /\ n <= L + 1
        /\ failures'[n] = now
        /\ \A i \in 1..n - 1 : failures'[i] = failures[i + d]
    BY <1>1, <1>14
  <1>4. /\ account' \in Account
        /\ account'.verified = account.verified
        /\ \/ /\ f + 1 < L /\ account'.failed = f + 1
              /\ account'.lockedUntil = account.lockedUntil
           \/ /\ f + 1 = L /\ account'.failed = 0
              /\ account'.lockedUntil = now + M
    <2>1. CASE f + 1 >= L
      <3>1. account' = [account EXCEPT !.failed = 0, !.lockedUntil = now + M]
        BY <2>1 DEF Failed
      <3>2. f + 1 = L /\ 0 \in 0..L - 1 /\ now + M \in Nat
        BY <1>1, <2>1
      <3> QED
        BY <1>1, <3>1, <3>2 DEF Account
    <2>2. CASE ~(f + 1 >= L)
      <3>1. account' = [account EXCEPT !.failed = f + 1]
        BY <2>2 DEF Failed
      <3>2. f + 1 < L /\ f + 1 \in 0..L - 1
        BY <1>1, <2>2
      <3> QED
        BY <1>1, <3>1, <3>2 DEF Account
    <2> QED
      BY <2>1, <2>2
  <1>5. /\ \A i \in 1..k : failures[i] <= now
        /\ \A i, j \in 1..k : i <= j => failures[i] <= failures[j]
        /\ k - f > 0 =>
              /\ account.lockedUntil = failures[k - f] + M
              /\ \A i \in k - f + 1..k : failures[i] >= account.lockedUntil
    BY DEF IInv, FailureInv, Chronological, CountedAfterLock
  <1> HIDE DEF L, M, k, n, f, d
  <1>13. \A i \in 1..n - 1 : i + d \in 1..k
    BY <1>1, <1>3
  <1>6. \A i \in 1..n : failures'[i] <= now
    <2>1. \A i \in 1..n - 1 : failures'[i] <= now
      BY <1>3, <1>5, <1>13
    <2>2. n \in Nat /\ now <= now
      BY <1>1, <1>3
    <2>3. \A i \in 1..n : i = n \/ i \in 1..n - 1
      BY <2>2
    <2> QED
      BY <1>3, <2>1, <2>2, <2>3
  <1>7. \A i, j \in 1..n : i <= j => failures'[i] <= failures'[j]
    <2> SUFFICES ASSUME NEW i \in 1..n, NEW j \in 1..n, i <= j
                 PROVE  failures'[i] <= failures'[j]
      OBVIOUS
    <2>1. CASE j = n
      BY <1>3, <1>6, <2>1
    <2>2. CASE j # n
      <3>1. i \in 1..n - 1 /\ j \in 1..n - 1 /\ i + d <= j + d
        BY <1>1, <1>3, <2>2
      <3>2. failures'[i] = failures[i + d] /\ failures'[j] = failures[j + d]
        BY <1>3, <3>1
      <3> QED
        BY <1>5, <1>13, <3>1, <3>2
    <2> QED
      BY <2>1, <2>2
  <1>8. Chronological'
    BY <1>3, <1>6, <1>7 DEF Chronological, L, n
  <1>9. n - account'.failed > 0 =>
            /\ account'.lockedUntil = failures'[n - account'.failed] + M
            /\ \A i \in n - account'.failed + 1..n : failures'[i] >= account'.lockedUntil
    <2>1. CASE f + 1 < L /\ account'.failed = f + 1
               /\ account'.lockedUntil = account.lockedUntil
      <3> SUFFICES ASSUME n - account'.failed > 0
                   PROVE  /\ account'.lockedUntil = failures'[n - (f + 1)] + M
                          /\ \A i \in n - (f + 1) + 1..n :
                                failures'[i] >= account'.lockedUntil
        BY <2>1
      <3>1. n - (f + 1) \in 1..n - 1 /\ n - (f + 1) + d = k - f /\ k - f > 0
        BY <1>1, <1>3, <2>1
      <3>2. account'.lockedUntil = failures'[n - (f + 1)] + M
        BY <1>3, <1>5, <2>1, <3>1
      <3>3. ASSUME NEW i \in n - (f + 1) + 1..n
            PROVE  failures'[i] >= account'.lockedUntil
        <4>1. CASE i = n
          BY <1>2, <1>3, <2>1, <4>1
        <4>2. CASE i # n
          <5>1. i \in 1..n - 1 /\ i + d \in k - f + 1..k
            BY <1>1, <1>3, <3>1, <4>2
          <5> QED
            BY <1>3, <1>5, <2>1, <3>1, <5>1
        <4> QED
          BY <4>1, <4>2
      <3> QED
        BY <3>2, <3>3
    <2>2. CASE f + 1 = L /\ account'.failed = 0 /\ account'.lockedUntil = now + M
      BY <1>1, <1>3, <2>2
    <2> QED
      BY <1>4, <2>1, <2>2
  <1>10. CountedAfterLock'
    BY <1>9 DEF CountedAfterLock, M, n
  <1>11. n > L => failures'[L + 1] - failures'[1] >= M
    <2> SUFFICES ASSUME n > L
                 PROVE  failures'[L + 1] - failures'[1] >= M
      OBVIOUS
    <2>1. /\ n = L + 1 /\ k - f > 0 /\ 1 + d \in 1..k /\ k - f \in 1..k
          /\ 1 + d <= k - f /\ 1 \in 1..n - 1
      BY <1>1, <1>3
    <2>2. failures'[1] = failures[1 + d] /\ failures[1 + d] <= failures[k - f]
      BY <1>3, <1>5, <2>1
    <2>3. failures[k - f] + M <= now
      BY <1>2, <1>5, <2>1
    <2>4. failures[1 + d] \in Nat /\ failures[k - f] \in Nat /\ failures'[L + 1] = now
      BY <1>1, <1>3, <2>1
    <2> QED
      BY <1>1, <2>2, <2>3, <2>4
  <1>12. FailuresAreLimited'
    BY <1>11 DEF FailuresAreLimited, L, M, n
  <1> QED
    BY <1>3, <1>4, <1>8, <1>10, <1>12 DEF FailureInv

\* A login and a reset both forget the failures.
LEMMA Unlocking ==
    ASSUME NEW a \in Account, NEW p \in Passwords
    PROVE  LET b == [a EXCEPT !.password = p, !.failed = 0, !.lockedUntil = Unlocked]
           IN  b \in Account /\ b.verified = a.verified
  <1> DEFINE b == [a EXCEPT !.password = p, !.failed = 0, !.lockedUntil = Unlocked]
  <1>1. 0 \in 0..LoginFailureLimit - 1 /\ Unlocked \in Nat
    BY SettingsArePositive DEF Unlocked
  <1>2. b \in Account
    BY <1>1 DEF Account
  <1>3. b.verified = a.verified
    BY DEF Account
  <1> QED
    BY <1>2, <1>3

LEMMA AuthenticatePreserves ==
    ASSUME IInv, NEW password \in Passwords, AuthenticateUser(password)
    PROVE  IInv'
  <1>1. ~IsLoginLocked /\ UNCHANGED <<now, tokens, calls, consumed, resets>>
    BY DEF AuthenticateUser
  <1>2. account \in Account
    BY DEF IInv, TokenInv, TypeOK
  <1>3. /\ account' \in Account /\ account'.verified = account.verified
        /\ failures' \in Seq(Nat) /\ FailureInv'
    <2>1. CASE password = account.password
      <3>1. /\ account' = [account EXCEPT !.failed = 0, !.lockedUntil = Unlocked]
            /\ failures' = <<>>
        BY <2>1 DEF AuthenticateUser
      <3>2. account' = [account EXCEPT !.password = account.password, !.failed = 0,
                                       !.lockedUntil = Unlocked]
        BY <1>2, <3>1 DEF Account
      <3>3. account.password \in Passwords
        BY <1>2 DEF Account
      <3>4. account' \in Account /\ account'.verified = account.verified
        BY <1>2, <3>2, <3>3, Unlocking
      <3>6. failures' \in Seq(Nat)
        BY <3>1
      <3> QED
        BY <3>1, <3>4, <3>6, FailuresForgotten
    <2>2. CASE password # account.password
      BY <1>1, <2>2, FailurePreserves DEF AuthenticateUser
    <2> QED
      BY <2>1, <2>2
  <1>4. \A kind : Of(kind)' = Of(kind)
    BY <1>1 DEF Of
  <1>5. CallsTyped' /\ WrittenIsEarned'
    BY <1>1, <1>3, <1>4
    DEF IInv, TokenInv, CallsTyped, WrittenIsEarned, Earned, Account
  <1> QED
    BY <1>1, <1>3, <1>4, <1>5, TokensAsTheyWere DEF IInv, TokenInv, TypeOK

LEMMA TickPreserves ==
    ASSUME IInv, Tick
    PROVE  IInv'
  <1>1. /\ now' \in Nat /\ now' > now
        /\ UNCHANGED <<account, tokens, calls, consumed, resets, failures>>
    BY AccountBounds DEF Tick
  <1>2. \A kind : Of(kind)' = Of(kind)
    BY <1>1 DEF Of
  <1>3. FailureInv'
    BY <1>1, FailuresAsTheyWere DEF IInv, TokenInv, TypeOK
  <1>4. CallsTyped' /\ WrittenIsEarned'
    BY <1>1, <1>2 DEF IInv, TokenInv, CallsTyped, WrittenIsEarned, Earned, Account
  <1> QED
    BY <1>1, <1>2, <1>3, <1>4, TokensAsTheyWere DEF IInv, TokenInv, TypeOK

LEMMA ResetPreserves ==
    ASSUME IInv, NEW c \in Of("reset"), ResetPassword(c)
    PROVE  IInv'
  <1> DEFINE S == VoidedByReset(c.token)
  <1>1. /\ tokens[c.token].state = "open" /\ tokens[c.token].purpose = "reset_password"
        /\ \A t \in S : ~Locked(t)
        /\ account' = [account EXCEPT !.password = c.password, !.failed = 0,
                                      !.lockedUntil = Unlocked]
        /\ tokens' = Closed(S)
        /\ consumed' = consumed \cup {c.token}
        /\ resets' = resets + 1
        /\ failures' = <<>>
        /\ calls' = calls \ {c}
        /\ now' = now
    BY DEF ResetPassword, ValidateAccountToken, IsUsable, IsFor, End
  <1>2. c.token \in TokenIds /\ c.password \in Passwords
    BY DEF IInv, TokenInv, CallsTyped
  <1>3. /\ S \in SUBSET TokenIds /\ c.token \in S
        /\ \A t \in S : tokens[t].state = "open"
        /\ OpenTokens("reset_password") \ S = {}
    BY <1>1, <1>2 DEF VoidedByReset, OpenTokens
  <1> HIDE DEF S
  <1>4. /\ \A kind : Of(kind)' \subseteq Of(kind)
        /\ Of("issue")' = Of("issue")
    BY <1>1 DEF Of
  <1>5. /\ tokens' \in [TokenIds -> Token]
        /\ IssuersHold'
        /\ \A t \in S : tokens'[t].state = "closed"
        /\ \A t \in TokenIds :
             /\ tokens[t].state = "closed" => tokens'[t].state = "closed"
             /\ tokens'[t].purpose = tokens[t].purpose
        /\ OpenTokens("reset_password")' = {}
    <2>1. TokenInv /\ \A t \in S : tokens[t].state = "open" /\ ~Locked(t)
      BY <1>1, <1>3 DEF IInv
    <2>2. tokens' = Closed(S) /\ S \in SUBSET TokenIds
      BY <1>1, <1>3
    <2>3. \A purpose : OpenTokens(purpose)' = OpenTokens(purpose) \ S
      BY <1>4, <2>1, <2>2, ClosingKeeps
    <2> QED
      BY <1>3, <1>4, <2>1, <2>2, <2>3, ClosingKeeps
  <1>6. account' \in Account /\ account'.verified = account.verified
    BY <1>1, <1>2, Unlocking DEF IInv, TokenInv, TypeOK
  <1>7. CallsTyped'
    BY <1>4 DEF IInv, TokenInv, CallsTyped, Account
  <1>8. TypeOK'
    BY <1>1, <1>2, <1>5, <1>6 DEF IInv, TokenInv, TypeOK
  <1>9. ConsumedAreClosed'
    BY <1>1, <1>3, <1>5 DEF IInv, TokenInv, ConsumedAreClosed, TypeOK
  <1>10. WrittenIsEarned'
    <2>1. Earned => Earned'
      BY <1>1, <1>5 DEF Earned, IInv, TokenInv, TypeOK
    <2> QED
      BY <1>4, <1>6, <2>1 DEF IInv, WrittenIsEarned
  <1>11. ResetVoidsLinks'
    BY <1>5 DEF ResetVoidsLinks
  <1>12. FailureInv'
    BY <1>1, <1>6, FailuresForgotten
  <1> QED
    BY <1>5, <1>7, <1>8, <1>9, <1>10, <1>11, <1>12 DEF IInv, TokenInv

LEMMA WaitToRevokePreserves ==
    ASSUME IInv, NEW c \in Of("changed"), WaitToRevoke(c)
    PROVE  IInv'
  <1> DEFINE call == [kind |-> "changed", seen |-> Revocable(c)]
  <1>1. /\ calls' = (calls \ {c}) \cup {call}
        /\ UNCHANGED <<now, account, tokens, consumed, resets, failures>>
    BY DEF WaitToRevoke
  <1>2. call.kind = "changed"
    OBVIOUS
  <1> HIDE DEF call
  <1>3. \A kind : kind # "changed" => Of(kind)' \subseteq Of(kind)
    BY <1>1, <1>2 DEF Of
  <1>4. FailureInv'
    BY <1>1 DEF IInv, FailureInv, Chronological, CountedAfterLock, FailuresAreLimited
  <1>5. WrittenIsEarned'
    <2>1. Of("verify")' \subseteq Of("verify") /\ Of("profile")' \subseteq Of("profile")
      BY <1>3
    <2> QED
      BY <1>1, <2>1 DEF IInv, WrittenIsEarned, Earned
  <1>6. CallsTyped'
    BY <1>3 DEF IInv, TokenInv, CallsTyped, Account
  <1> QED
    BY <1>1, <1>3, <1>4, <1>5, <1>6, TokensAsTheyWere DEF IInv, TokenInv, TypeOK

LEMMA RevokePreserves ==
    ASSUME IInv, NEW c \in Of("changed"), RevokeResetTokens(c)
    PROVE  IInv'
  <1> DEFINE S == Revocable(c)
  <1>1. /\ \A t \in S : ~Locked(t)
        /\ tokens' = Closed(S)
        /\ calls' = calls \ {c}
        /\ UNCHANGED <<now, account, consumed, resets, failures>>
    BY DEF RevokeResetTokens, End
  <1>2. S \in SUBSET TokenIds /\ \A t \in S : tokens[t].state = "open"
    BY DEF Revocable, OpenTokens
  <1> HIDE DEF S
  <1>3. /\ \A kind : Of(kind)' \subseteq Of(kind)
        /\ Of("issue")' = Of("issue")
    BY <1>1 DEF Of
  <1>4. /\ tokens' \in [TokenIds -> Token]
        /\ IssuersHold'
        /\ ResetVoidsLinks'
        /\ \A t \in TokenIds :
             /\ tokens[t].state = "closed" => tokens'[t].state = "closed"
             /\ tokens'[t].purpose = tokens[t].purpose
    BY <1>1, <1>2, <1>3, ClosingKeeps DEF IInv
  <1>5. CallsTyped'
    BY <1>3 DEF IInv, TokenInv, CallsTyped, Account
  <1>6. TypeOK' /\ ConsumedAreClosed'
    BY <1>1, <1>4 DEF IInv, TokenInv, TypeOK, ConsumedAreClosed, Account
  <1>7. WrittenIsEarned'
    <2>1. Earned => Earned'
      BY <1>1, <1>4 DEF Earned, IInv, TokenInv, TypeOK
    <2> QED
      BY <1>1, <1>3, <2>1 DEF IInv, WrittenIsEarned
  <1>8. FailureInv'
    BY <1>1 DEF IInv, FailureInv, Chronological, CountedAfterLock, FailuresAreLimited
  <1> QED
    BY <1>4, <1>5, <1>6, <1>7, <1>8 DEF IInv, TokenInv

LEMMA NextPreserves ==
    ASSUME IInv, [Next]_vars
    PROVE  IInv'
  <1>1. ASSUME TokenStep PROVE IInv'
    <2>1. ASSUME NEW t \in TokenIds, RequestVerification(t) \/ RequestPasswordReset(t)
          PROVE  IInv'
      <3>1. PICK purpose \in Purposes : \/ IssueAccountToken(t, purpose)
                                       \/ WaitForIssuer(purpose)
        BY <2>1 DEF RequestVerification, RequestPasswordReset, Purposes
      <3>2. CASE IssueAccountToken(t, purpose)
        BY <3>2, IssueAtOnce
      <3>3. CASE WaitForIssuer(purpose)
        <4> DEFINE call == [kind |-> "wait", purpose |-> purpose,
                            seen |-> OpenTokens(purpose)]
        <4>1. /\ calls' = calls \cup {call}
              /\ UNCHANGED <<now, account, tokens, consumed, resets, failures>>
          BY <3>3 DEF WaitForIssuer, Begin
        <4>2. call.kind = "wait" /\ call.purpose \in Purposes
          OBVIOUS
        <4> HIDE DEF call
        <4> QED
          BY <4>1, <4>2, BeginPreserves
      <3> QED
        BY <3>1, <3>2, <3>3
    <2>2. ASSUME NEW t \in TokenIds, NEW p \in Passwords, PreviewReset(t, p)
          PROVE  IInv'
      <3> DEFINE call == [kind |-> "reset", token |-> t, password |-> p]
      <3>1. /\ calls' = calls \cup {call}
            /\ UNCHANGED <<now, account, tokens, consumed, resets, failures>>
        BY <2>2 DEF PreviewReset, Begin
      <3>2. call.kind = "reset" /\ call.token \in TokenIds /\ call.password \in Passwords
        OBVIOUS
      <3> HIDE DEF call
      <3> QED
        BY <3>1, <3>2, BeginPreserves
    <2> QED
      BY <1>1, <2>1, <2>2, IssueAfterWait, CommitPreserves, ConsumePreserves,
         ConfirmPreserves, ResetPreserves DEF TokenStep
  <1>2. ASSUME AccountStep PROVE IInv'
    <2>1. ASSUME NEW p \in Passwords, CheckCurrentPassword(p) PROVE IInv'
      <3> DEFINE call == [kind |-> "change", password |-> p]
      <3>1. /\ calls' = calls \cup {call}
            /\ UNCHANGED <<now, account, tokens, consumed, resets, failures>>
        BY <2>1 DEF CheckCurrentPassword, Begin
      <3>2. call.kind = "change" /\ call.password \in Passwords
        OBVIOUS
      <3> HIDE DEF call
      <3> QED
        BY <3>1, <3>2, BeginPreserves
    <2>2. ASSUME ReadProfile PROVE IInv'
      <3> DEFINE call == [kind |-> "profile", seen |-> account]
      <3>1. /\ calls' = calls \cup {call}
            /\ UNCHANGED <<now, account, tokens, consumed, resets, failures>>
        BY <2>2 DEF ReadProfile, Begin
      <3>2. call.kind = "profile" /\ call.seen = account
        OBVIOUS
      <3> HIDE DEF call
      <3> QED
        BY <3>1, <3>2, BeginPreserves
    <2> QED
      BY <1>2, <2>1, <2>2, AuthenticatePreserves, SavePasswordPreserves,
         WaitToRevokePreserves, RevokePreserves, SaveProfilePreserves DEF AccountStep
  <1>3. ASSUME Abandon PROVE IInv'
    <2>1. now \in Nat
      BY DEF IInv, TokenInv, TypeOK
    <2> QED
      BY <1>3, <2>1, EndPreserves DEF Abandon
  <1>4. CASE UNCHANGED vars
    BY <1>4 DEF vars, IInv, TokenInv, TypeOK, CallsTyped, IssuersHold, ConsumedAreClosed,
                WrittenIsEarned, Earned, ResetVoidsLinks, OpenTokens, FailureInv,
                Chronological, CountedAfterLock, FailuresAreLimited, Of
  <1> QED
    BY <1>1, <1>2, <1>3, <1>4, TickPreserves DEF Next

(***************************************************************************)
(* A link is issued, then used once or void.                               *)
(***************************************************************************)

Became == [t \in TokenIds |->
                CASE t \in consumed -> "used"
                  [] t \notin consumed /\ tokens[t].state = "none" -> "unissued"
                  [] /\ t \notin consumed
                     /\ tokens[t].state = "open"
                     /\ tokens[t].expires > now -> "open"
                  [] OTHER -> "void"]

Live(t) == tokens[t].state = "open" /\ tokens[t].expires > now

LEMMA FateOfTokens ==
    \A t \in TokenIds :
        Became[t] = IF t \in consumed THEN "used"
                    ELSE IF tokens[t].state = "none" THEN "unissued"
                    ELSE IF Live(t) THEN "open" ELSE "void"
  BY DEF Became, Live

LEMMA FateOfTokensAfter ==
    \A t \in TokenIds :
        Became'[t] = IF t \in consumed' THEN "used"
                     ELSE IF tokens'[t].state = "none" THEN "unissued"
                     ELSE IF Live(t)' THEN "open" ELSE "void"
  BY DEF Became, Live

LEMMA GrantsInit == Init => Grants!Init
  BY DEF Init, Grants!Init

\* Tokens that are closed or expire without being used.
LEMMA VoidStep ==
    ASSUME IInv, NEW S \in SUBSET TokenIds, consumed' = consumed,
           \A t \in S : tokens[t].state = "open" /\ ~Live(t)',
           \A t \in S : tokens'[t].state # "none",
           \A t \in TokenIds \ S : tokens'[t].state = tokens[t].state /\ Live(t)' = Live(t)
    PROVE  Grants!Next \/ Became' = Became
  <1>1. \A t \in S : t \notin consumed
    BY DEF IInv, TokenInv, ConsumedAreClosed
  <1>2. PICK V \in SUBSET TokenIds : /\ \A t \in V : t \in S /\ Live(t)
                                    /\ \A t \in S \ V : ~Live(t)
    <2>1. {t \in S : Live(t)} \in SUBSET TokenIds
      OBVIOUS
    <2> QED
      BY <2>1
  <1>3. \A t \in V : Became[t] = "open"
    BY <1>1, <1>2, FateOfTokens DEF Live
  <1>4. \A t \in TokenIds : Became'[t] = IF t \in V THEN "void" ELSE Became[t]
    <2> SUFFICES ASSUME NEW t \in TokenIds
                 PROVE  Became'[t] = IF t \in V THEN "void" ELSE Became[t]
      OBVIOUS
    <2>1. CASE t \in S
      BY <2>1, <1>1, <1>2, FateOfTokens, FateOfTokensAfter
    <2>2. CASE t \notin S
      BY <2>2, <1>2, FateOfTokens, FateOfTokensAfter
    <2> QED
      BY <2>1, <2>2
  <1>5. Became' = [t \in TokenIds |-> IF t \in V THEN "void" ELSE Became[t]]
    BY <1>4 DEF Became
  <1>6. CASE V = {}
    <2>1. Became' = Became
      BY <1>5, <1>6 DEF Became
    <2> QED
      BY <2>1
  <1>7. CASE V # {}
    <2>1. Grants!Void(V)
      BY <1>3, <1>5, <1>7 DEF Grants!Void, Became
    <2> QED
      BY <2>1 DEF Grants!Next
  <1> QED
    BY <1>6, <1>7

LEMMA TickStep ==
    ASSUME IInv, Tick
    PROVE  Grants!Next \/ Became' = Became
  <1> DEFINE S == {t \in TokenIds : Live(t) /\ ~Live(t)'}
  <1>1. consumed' = consumed /\ tokens' = tokens /\ now \in Nat /\ now' \in Nat /\ now' > now
    BY AccountBounds DEF Tick, IInv, TokenInv, TypeOK
  <1>2. \A t \in TokenIds : tokens[t].expires \in Nat
    BY DEF IInv, TokenInv, TypeOK, Token
  <1>3. \A t \in TokenIds : Live(t)' => Live(t)
    BY <1>1, <1>2 DEF Live
  <1>4. /\ S \in SUBSET TokenIds
        /\ \A t \in S : Live(t) /\ ~Live(t)'
        /\ \A t \in TokenIds \ S : Live(t)' = Live(t)
    BY <1>3 DEF Live
  <1> HIDE DEF S
  <1>5. \A t \in S : tokens[t].state = "open"
    BY <1>4 DEF Live
  <1>6. /\ \A t \in S : tokens'[t].state # "none"
        /\ \A t \in TokenIds \ S : tokens'[t].state = tokens[t].state
    BY <1>1, <1>5
  <1> QED
    BY <1>1, <1>4, <1>5, <1>6, VoidStep

LEMMA RevokeStep ==
    ASSUME IInv, NEW c \in Of("changed"), RevokeResetTokens(c)
    PROVE  Grants!Next \/ Became' = Became
  <1> DEFINE S == Revocable(c)
  <1>1. tokens' = Closed(S) /\ consumed' = consumed /\ now' = now
    BY DEF RevokeResetTokens
  <1>2. S \in SUBSET TokenIds /\ \A t \in S : tokens[t].state = "open"
    BY DEF Revocable, OpenTokens
  <1> HIDE DEF S
  <1>3. \A t \in TokenIds :
            /\ tokens'[t].state = IF t \in S THEN "closed" ELSE tokens[t].state
            /\ tokens'[t].expires = tokens[t].expires
    BY <1>1, ClosedTokens DEF IInv, TokenInv
  <1>4. \A t \in S : tokens'[t].state # "none" /\ ~Live(t)'
    BY <1>2, <1>3 DEF Live
  <1>5. \A t \in TokenIds \ S : tokens'[t].state = tokens[t].state /\ Live(t)' = Live(t)
    BY <1>1, <1>3 DEF Live
  <1> QED
    BY <1>1, <1>2, <1>4, <1>5, VoidStep

LEMMA CommitStep ==
    ASSUME IInv, NEW c \in Of("issue"), CommitToken(c)
    PROVE  Grants!Next
  <1> DEFINE token == [state |-> "open", purpose |-> c.purpose,
                       expires |-> DefaultExpiry(c.purpose), era |-> resets]
  <1>1. /\ tokens' = [Closed(c.outdated) EXCEPT ![c.token] = token]
        /\ consumed' = consumed /\ now' = now
    BY DEF CommitToken
  <1>2. /\ c.token \in TokenIds /\ c.outdated \subseteq TokenIds
        /\ tokens[c.token].state = "none"
        /\ \A o \in c.outdated : tokens[o].state = "open"
    BY DEF IInv, TokenInv, CallsTyped, IssuersHold
  <1>3. token.state = "open" /\ token.expires > now
    BY DEF DefaultExpiry, IInv, TokenInv, TypeOK
  <1> HIDE DEF token
  <1>4. \A t \in TokenIds : t # c.token =>
            /\ tokens'[t].state = IF t \in c.outdated THEN "closed" ELSE tokens[t].state
            /\ tokens'[t].expires = tokens[t].expires
    BY <1>1, <1>2, ClosedTokens DEF IInv, TokenInv
  <1>5. tokens'[c.token] = token
    BY <1>1, <1>2, ClosedTokens DEF IInv, TokenInv
  <1>6. \A t \in TokenIds : tokens[t].state # "closed" => t \notin consumed
    BY DEF IInv, TokenInv, ConsumedAreClosed
  <1>7. PICK S \in SUBSET TokenIds : /\ \A t \in S : t \in c.outdated /\ Live(t)
                                    /\ \A t \in c.outdated \ S : ~Live(t)
    <2>1. {t \in c.outdated : Live(t)} \in SUBSET TokenIds
      BY <1>2
    <2> QED
      BY <2>1
  <1>8. Became[c.token] = "unissued" /\ \A t \in S : Became[t] = "open"
    BY <1>2, <1>6, <1>7, FateOfTokens DEF Live
  <1>9. \A t \in TokenIds :
            Became'[t] = IF t = c.token THEN "open"
                         ELSE IF t \in S THEN "void" ELSE Became[t]
    <2> SUFFICES ASSUME NEW t \in TokenIds
                 PROVE  Became'[t] = IF t = c.token THEN "open"
                                     ELSE IF t \in S THEN "void" ELSE Became[t]
      OBVIOUS
    <2>1. CASE t = c.token
      BY <2>1, <1>1, <1>2, <1>3, <1>5, <1>6, FateOfTokensAfter DEF Live
    <2>2. CASE t # c.token /\ t \in c.outdated
      BY <2>2, <1>1, <1>2, <1>4, <1>6, <1>7, FateOfTokens, FateOfTokensAfter DEF Live
    <2>3. CASE t # c.token /\ t \notin c.outdated
      BY <2>3, <1>1, <1>4, <1>7, FateOfTokens, FateOfTokensAfter DEF Live
    <2> QED
      BY <2>1, <2>2, <2>3
  <1>10. Became' = [t \in TokenIds |-> IF t = c.token THEN "open"
                                       ELSE IF t \in S THEN "void" ELSE Became[t]]
    BY <1>9 DEF Became
  <1>11. Grants!Issue(c.token, S)
    BY <1>8, <1>10 DEF Grants!Issue, Became
  <1> QED
    BY <1>2, <1>11 DEF Grants!Next

\* A link is used, and the open ones of S are void with it.
LEMMA UseStep ==
    ASSUME IInv, NEW t \in TokenIds, NEW S \in SUBSET TokenIds, t \in S,
           Live(t), tokens' = Closed(S), consumed' = consumed \cup {t}, now' = now,
           \A s \in S : tokens[s].state = "open"
    PROVE  Grants!Next
  <1>1. \A s \in TokenIds :
            /\ tokens'[s].state = IF s \in S THEN "closed" ELSE tokens[s].state
            /\ tokens'[s].expires = tokens[s].expires
    BY ClosedTokens DEF IInv, TokenInv
  <1>2. \A s \in S : s \notin consumed
    BY DEF IInv, TokenInv, ConsumedAreClosed
  <1>3. PICK V \in SUBSET TokenIds : /\ \A s \in V : s \in S /\ Live(s)
                                    /\ \A s \in S \ V : ~Live(s)
    <2>1. {s \in S : Live(s)} \in SUBSET TokenIds
      OBVIOUS
    <2> QED
      BY <2>1
  <1>4. Became[t] = "open" /\ \A s \in V : Became[s] = "open"
    BY <1>2, <1>3, FateOfTokens DEF Live
  <1>5. \A s \in TokenIds :
            Became'[s] = IF s = t THEN "used" ELSE IF s \in V THEN "void" ELSE Became[s]
    <2> SUFFICES ASSUME NEW s \in TokenIds
                 PROVE  Became'[s] = IF s = t THEN "used"
                                     ELSE IF s \in V THEN "void" ELSE Became[s]
      OBVIOUS
    <2>1. CASE s = t
      BY <2>1, FateOfTokensAfter
    <2>2. CASE s # t /\ s \in S
      BY <2>2, <1>1, <1>2, <1>3, FateOfTokens, FateOfTokensAfter DEF Live
    <2>3. CASE s # t /\ s \notin S
      BY <2>3, <1>1, <1>3, FateOfTokens, FateOfTokensAfter DEF Live
    <2> QED
      BY <2>1, <2>2, <2>3
  <1>6. Became' = [s \in TokenIds |-> IF s = t THEN "used"
                                      ELSE IF s \in V THEN "void" ELSE Became[s]]
    BY <1>5 DEF Became
  <1>7. Grants!Use(t, V)
    BY <1>4, <1>6 DEF Grants!Use, Became
  <1> QED
    BY <1>7 DEF Grants!Next

LEMMA ConsumeStep ==
    ASSUME IInv, NEW t \in TokenIds, ConsumeVerification(t)
    PROVE  Grants!Next
  <1>1. PICK S \in SUBSET TokenIds : S = {t}
    OBVIOUS
  <1>2. /\ Live(t) /\ tokens' = Closed(S) /\ consumed' = consumed \cup {t} /\ now' = now
        /\ t \in S /\ \A s \in S : tokens[s].state = "open"
    BY <1>1 DEF ConsumeVerification, ValidateAccountToken, IsUsable, Live
  <1> QED
    BY <1>2, UseStep

LEMMA ResetStep ==
    ASSUME IInv, NEW c \in Of("reset"), ResetPassword(c)
    PROVE  Grants!Next
  <1>1. c.token \in TokenIds
    BY DEF IInv, TokenInv, CallsTyped
  <1>2. PICK S \in SUBSET TokenIds : S = VoidedByReset(c.token)
    BY <1>1 DEF VoidedByReset, OpenTokens
  <1>3. /\ Live(c.token) /\ tokens' = Closed(S) /\ consumed' = consumed \cup {c.token}
        /\ now' = now
    BY <1>2 DEF ResetPassword, ValidateAccountToken, IsUsable, Live
  <1>4. c.token \in S /\ \A s \in S : tokens[s].state = "open"
    BY <1>2, <1>3 DEF VoidedByReset, OpenTokens, Live
  <1> QED
    BY <1>1, <1>3, <1>4, UseStep

LEMMA SameTokens ==
    ASSUME UNCHANGED <<tokens, consumed, now>>
    PROVE  Became' = Became
  BY DEF Became

LEMMA GrantsStep ==
    IInv /\ [Next]_vars => Grants!Next \/ Became' = Became
  <1> SUFFICES ASSUME IInv, [Next]_vars PROVE Grants!Next \/ Became' = Became
    OBVIOUS
  <1>1. CASE UNCHANGED <<tokens, consumed, now>>
    BY <1>1, SameTokens
  <1>2. ASSUME TokenStep PROVE Grants!Next \/ UNCHANGED <<tokens, consumed, now>>
    <2>1. ASSUME NEW t \in TokenIds, RequestVerification(t) \/ RequestPasswordReset(t)
          PROVE  UNCHANGED <<tokens, consumed, now>>
      BY <2>1 DEF RequestVerification, RequestPasswordReset, IssueAccountToken,
                  WaitForIssuer
    <2>2. ASSUME NEW t \in TokenIds, NEW p \in Passwords, PreviewReset(t, p)
          PROVE  UNCHANGED <<tokens, consumed, now>>
      BY <2>2 DEF PreviewReset
    <2>3. ASSUME NEW c \in Of("verify"), ConfirmVerification(c)
          PROVE  UNCHANGED <<tokens, consumed, now>>
      BY <2>3 DEF ConfirmVerification
    <2>4. ASSUME NEW c \in Of("wait"), NEW t \in TokenIds, CloseSeen(c, t)
          PROVE  UNCHANGED <<tokens, consumed, now>>
      BY <2>4 DEF CloseSeen
    <2> QED
      BY <1>2, <2>1, <2>2, <2>3, <2>4, CommitStep, ConsumeStep, ResetStep DEF TokenStep
  <1>3. ASSUME AccountStep
        PROVE  \/ \E c \in Of("changed") : RevokeResetTokens(c)
               \/ UNCHANGED <<tokens, consumed, now>>
    BY <1>3 DEF AccountStep, AuthenticateUser, CheckCurrentPassword, SavePassword,
                WaitToRevoke, ReadProfile, SaveProfile
  <1>4. CASE \E c \in Of("changed") : RevokeResetTokens(c)
    BY <1>4, RevokeStep
  <1> QED
    BY <1>1, <1>2, <1>3, <1>4, TickStep DEF Next, Abandon, vars

(***************************************************************************)
(* Theorems.                                                               *)
(***************************************************************************)

\* Rows have their types, and the failure count stays below the limit
\* (services.py:107-113).
THEOREM TypeCorrect == Spec => []TypeOK
  <1>1. IInv => TypeOK
    BY DEF IInv, TokenInv
  <1> QED
    BY InitEstablishes, NextPreserves, <1>1, PTL DEF Spec

\* Whatever the limit and the duration of the lock: one more wrong password
\* than the limit takes at least as long as the lock (services.py:93-113).
THEOREM FailuresLimited == Spec => []FailuresAreLimited
  <1>1. IInv => FailuresAreLimited
    BY DEF IInv, FailureInv
  <1> QED
    BY InitEstablishes, NextPreserves, <1>1, PTL DEF Spec

\* The address is never confirmed but by a link that was sent to confirm it,
\* also when a profile that was read before is saved over it
\* (services.py:175-186, views.py:148).
THEOREM VerificationEarned == Spec => []VerificationIsEarned
  <1>1. IInv => VerificationIsEarned
    BY DEF IInv, WrittenIsEarned, VerificationIsEarned, Earned
  <1> QED
    BY InitEstablishes, NextPreserves, <1>1, PTL DEF Spec

\* An open reset link was sent after the latest reset (views.py:341-345),
\* though its issuer may have begun before it.
THEOREM LinksVoidedByReset == Spec => []ResetVoidsLinks
  <1>1. IInv => ResetVoidsLinks
    BY DEF IInv
  <1> QED
    BY InitEstablishes, NextPreserves, <1>1, PTL DEF Spec

\* However requests overlap, die and time passes, a link is used at most once,
\* never after it has expired or been replaced (services.py:142-186).
THEOREM UsedOnce == Spec => TokensAreUsedOnce
  <1>1. IInv /\ [Next]_vars => [Grants!Next]_Became
    BY GrantsStep
  <1> QED
    BY InitEstablishes, NextPreserves, GrantsInit, <1>1, PTL
    DEF Spec, TokensAreUsedOnce, Grants!Spec, Became
================================================================================
