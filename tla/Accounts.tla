-------------------------------- MODULE Accounts -------------------------------
(***************************************************************************)
(* One account (apps/accounts): its password, the lock after failed        *)
(* logins, and the links sent by e-mail that confirm the address or reset  *)
(* the password, each good for one use.                                    *)
(*                                                                         *)
(* A login locks the row of the account and is one step.  Every other      *)
(* handler reads first and writes later, some in several transactions: it  *)
(* is a record in calls meanwhile, and may die.  Time is in minutes.       *)
(***************************************************************************)
EXTENDS Integers, FiniteSets, Sequences

CONSTANTS
    Passwords, FirstPassword,
    TokenIds,
    LoginFailureLimit, LoginLockMinutes,   \* settings
    Instants,        \* bound: when something happens
    MaxCalls         \* bound: handlers at a time

ASSUME FirstIsPassword == FirstPassword \in Passwords
ASSUME SettingsArePositive ==
    LoginFailureLimit \in Nat \ {0} /\ LoginLockMinutes \in Nat
ASSUME AccountBounds == Instants \subseteq Nat /\ MaxCalls \in Nat

VARIABLES
    now,
    account,     \* the row of the User
    tokens,      \* the rows of AccountToken
    calls,       \* handlers between their steps
    consumed,    \* history: the tokens that did what they are for
    resets,      \* history: the number of resets
    failures     \* history: when the latest wrong passwords were tried

vars == <<now, account, tokens, calls, consumed, resets, failures>>

Purposes == {"verify_email", "reset_password"}

Unlocked == 0    \* locked_until: SQL NULL, or in the past

Account ==
    [password : Passwords, failed : 0..LoginFailureLimit - 1,
     lockedUntil : Nat, verified : BOOLEAN]

Token ==
    [state : {"none", "open", "closed"},     \* no row; used_at NULL or set
     purpose : Purposes, expires : Nat,
     era : Nat]                              \* history: resets when it was issued

DefaultExpiry(purpose) == now + IF purpose = "verify_email" THEN 24 * 60 ELSE 60

\* Mutant of IsUsable: the expiry is checked, the earlier use is not.
IsUnexpired(t) == tokens[t].state # "none" /\ tokens[t].expires > now

IsUsable(t) == tokens[t].state = "open" /\ tokens[t].expires > now

\* Expired ones, too: used_at is NULL.
OpenTokens(purpose) ==
    {t \in TokenIds : tokens[t].state = "open" /\ tokens[t].purpose = purpose}

Closed(S) ==
    [t \in TokenIds |->
        IF t \in S THEN [tokens[t] EXCEPT !.state = "closed"] ELSE tokens[t]]

-----------------------------------------------------------------------------
Begin(call) ==
    /\ Cardinality(calls) < MaxCalls
    /\ call \notin calls
    /\ calls' = calls \cup {call}

End(call) == calls' = calls \ {call}

Of(kind) == {c \in calls : c.kind = kind}

\* An UPDATE that is not committed.
Locked(t) == \E c \in Of("issue") : t \in c.outdated

\* The process dies or its transaction is rolled back.
Abandon ==
    /\ \E c \in calls : End(c)
    /\ UNCHANGED <<now, account, tokens, consumed, resets, failures>>

Tick ==
    /\ now' \in {t \in Instants : t > now}
    /\ UNCHANGED <<account, tokens, calls, consumed, resets, failures>>

-----------------------------------------------------------------------------
(* Login.                                                                  *)

\* Mutant of IsLoginLocked: the lock is not looked at.
IsNeverLocked == FALSE

IsLoginLocked == account.lockedUntil > now

Failed ==
    IF account.failed + 1 >= LoginFailureLimit
    THEN [account EXCEPT !.failed = 0, !.lockedUntil = now + LoginLockMinutes]
    ELSE [account EXCEPT !.failed = @ + 1]

Latest(n, s) == SubSeq(s, IF Len(s) > n THEN Len(s) - n + 1 ELSE 1, Len(s))

AuthenticateUser(password) ==
    /\ ~IsLoginLocked
    /\ IF password = account.password
       THEN /\ account' = [account EXCEPT !.failed = 0, !.lockedUntil = Unlocked]
            /\ failures' = <<>>
       ELSE /\ account' = Failed
            /\ failures' = Latest(LoginFailureLimit + 1, Append(failures, now))
    /\ UNCHANGED <<now, tokens, calls, consumed, resets>>

-----------------------------------------------------------------------------
(* Tokens.                                                                 *)

\* No row has the key, and nobody else is about to insert it.
Unused(t) == tokens[t].state = "none" /\ \A c \in Of("issue") : c.token # t

\* issue_account_token closes the open tokens it sees ...
IssueAccountToken(t, purpose) ==
    /\ Unused(t)
    /\ \A o \in OpenTokens(purpose) : ~Locked(o)
    /\ Begin([kind |-> "issue", token |-> t, purpose |-> purpose,
              outdated |-> OpenTokens(purpose)])
    /\ UNCHANGED <<now, account, tokens, consumed, resets, failures>>

\* ... or waits for another that is closing one of them ...
WaitForIssuer(purpose) ==
    /\ \E o \in OpenTokens(purpose) : Locked(o)
    /\ Begin([kind |-> "wait", purpose |-> purpose, seen |-> OpenTokens(purpose)])
    /\ UNCHANGED <<now, account, tokens, consumed, resets, failures>>

\* ... and then closes those it has seen that are still open: not the token
\* which the other has created since ...
CloseSeen(c, t) ==
    /\ Unused(t)
    /\ \A o \in c.seen : ~Locked(o)
    /\ calls' = (calls \ {c}) \cup
            {[kind |-> "issue", token |-> t, purpose |-> c.purpose,
              outdated |-> c.seen \cap OpenTokens(c.purpose)]}
    /\ UNCHANGED <<now, account, tokens, consumed, resets, failures>>

\* ... and creates its own.
CommitToken(c) ==
    /\ tokens' = [Closed(c.outdated) EXCEPT ![c.token] =
            [state |-> "open", purpose |-> c.purpose,
             expires |-> DefaultExpiry(c.purpose), era |-> resets]]
    /\ End(c)
    /\ UNCHANGED <<now, account, consumed, resets, failures>>

RequestVerification(t) ==
    /\ ~account.verified
    /\ IssueAccountToken(t, "verify_email") \/ WaitForIssuer("verify_email")

RequestPasswordReset(t) ==
    IssueAccountToken(t, "reset_password") \/ WaitForIssuer("reset_password")

\* Mutant of IsFor: the purpose is not compared.
IsForAnything(t, purpose) == TRUE

IsFor(t, purpose) == tokens[t].purpose = purpose

ValidateAccountToken(t, purpose) == IsUsable(t) /\ IsFor(t, purpose)

\* The account is read with the token, and saved after the commit.
ConsumeVerification(t) ==
    /\ ValidateAccountToken(t, "verify_email") /\ ~Locked(t)
    /\ tokens' = Closed({t})
    /\ consumed' = consumed \cup {t}
    /\ Begin([kind |-> "verify", token |-> t, verified |-> account.verified])
    /\ UNCHANGED <<now, account, resets, failures>>

ConfirmVerification(c) ==
    /\ account' = [account EXCEPT !.verified = @ \/ ~c.verified]
    /\ End(c)
    /\ UNCHANGED <<now, tokens, consumed, resets, failures>>

\* The link is tried before the transaction begins.
PreviewReset(t, password) ==
    /\ ValidateAccountToken(t, "reset_password")
    /\ password # account.password
    /\ Begin([kind |-> "reset", token |-> t, password |-> password])
    /\ UNCHANGED <<now, account, tokens, consumed, resets, failures>>

\* Mutant of VoidedByReset: only the token itself is closed.
OnlyItself(t) == {t}

VoidedByReset(t) == {t} \cup OpenTokens("reset_password")

\* The row of the account is locked with the token's, and inserting a token
\* needs a share of it: no link comes to be while a reset waits for an issuer,
\* one of the two is rolled back.
ResetPassword(c) ==
    /\ ValidateAccountToken(c.token, "reset_password")
    /\ \A t \in VoidedByReset(c.token) : ~Locked(t)
    /\ c.password # account.password
    /\ account' = [account EXCEPT !.password = c.password, !.failed = 0,
                                  !.lockedUntil = Unlocked]
    /\ tokens' = Closed(VoidedByReset(c.token))
    /\ consumed' = consumed \cup {c.token}
    /\ resets' = resets + 1
    /\ failures' = <<>>
    /\ End(c)
    /\ UNCHANGED now

-----------------------------------------------------------------------------
(* Changes by the person who is logged in.  The row of the account was     *)
(* read when the request was authenticated.                                *)

\* The current password is right, the new one is another.
CheckCurrentPassword(password) ==
    /\ password # account.password
    /\ Begin([kind |-> "change", password |-> password])
    /\ UNCHANGED <<now, account, tokens, consumed, resets, failures>>

SavePassword(c) ==
    /\ account' = [account EXCEPT !.password = c.password]
    /\ calls' = (calls \ {c}) \cup {[kind |-> "changed", seen |-> TokenIds]}
    /\ UNCHANGED <<now, tokens, consumed, resets, failures>>

Revocable(c) == c.seen \cap OpenTokens("reset_password")

\* It waits for an issuer, and will not see what that creates.
WaitToRevoke(c) ==
    /\ c.seen = TokenIds
    /\ \E t \in Revocable(c) : Locked(t)
    /\ calls' = (calls \ {c}) \cup {[kind |-> "changed", seen |-> Revocable(c)]}
    /\ UNCHANGED <<now, account, tokens, consumed, resets, failures>>

RevokeResetTokens(c) ==
    /\ \A t \in Revocable(c) : ~Locked(t)
    /\ tokens' = Closed(Revocable(c))
    /\ End(c)
    /\ UNCHANGED <<now, account, consumed, resets, failures>>

ReadProfile ==
    /\ Begin([kind |-> "profile", seen |-> account])
    /\ UNCHANGED <<now, account, tokens, consumed, resets, failures>>

\* The serializer saves every column of the row it was given.
SaveProfile(c) ==
    /\ account' = c.seen
    /\ failures' = <<>>
    /\ End(c)
    /\ UNCHANGED <<now, tokens, consumed, resets>>

-----------------------------------------------------------------------------
\* A new account, after register_user.
Init ==
    /\ now = 1
    /\ account = [password |-> FirstPassword, failed |-> 0,
                  lockedUntil |-> Unlocked, verified |-> FALSE]
    /\ tokens = [t \in TokenIds |->
            [state |-> "none", purpose |-> "verify_email", expires |-> 0, era |-> 0]]
    /\ calls = {} /\ consumed = {} /\ resets = 0 /\ failures = <<>>

TokenStep ==
    \/ \E t \in TokenIds : RequestVerification(t) \/ RequestPasswordReset(t)
    \/ \E c \in Of("wait"), t \in TokenIds : CloseSeen(c, t)
    \/ \E c \in Of("issue") : CommitToken(c)
    \/ \E t \in TokenIds : ConsumeVerification(t)
    \/ \E c \in Of("verify") : ConfirmVerification(c)
    \/ \E t \in TokenIds, p \in Passwords : PreviewReset(t, p)
    \/ \E c \in Of("reset") : ResetPassword(c)

AccountStep ==
    \/ \E p \in Passwords : AuthenticateUser(p) \/ CheckCurrentPassword(p)
    \/ \E c \in Of("change") : SavePassword(c)
    \/ \E c \in Of("changed") : WaitToRevoke(c) \/ RevokeResetTokens(c)
    \/ ReadProfile
    \/ \E c \in Of("profile") : SaveProfile(c)

Next == TokenStep \/ AccountStep \/ Tick \/ Abandon

Spec == Init /\ [][Next]_vars

-----------------------------------------------------------------------------
(* Properties.                                                             *)

\* The failure count stays below the limit, at which the account is locked
\* instead (services.py:107-113); rows have their types.
TypeOK ==
    /\ account \in Account
    /\ tokens \in [TokenIds -> Token]
    /\ consumed \subseteq TokenIds
    /\ resets \in Nat /\ now \in Nat /\ failures \in Seq(Nat)

\* A link is issued, then open until it is used once or void for ever
\* (services.py:177).
Grants == INSTANCE OneTimeGrant WITH
    Grants <- TokenIds,
    grant <- [t \in TokenIds |->
                CASE t \in consumed -> "used"
                  [] t \notin consumed /\ tokens[t].state = "none" -> "unissued"
                  [] /\ t \notin consumed
                     /\ tokens[t].state = "open"
                     /\ tokens[t].expires > now -> "open"
                  [] OTHER -> "void"]

TokensAreUsedOnce == Grants!Spec

\* One more wrong password than the limit takes at least as long as the lock,
\* unless a login, a reset or a saved profile came in between
\* (services.py:93-113).
FailuresAreLimited ==
    Len(failures) > LoginFailureLimit =>
        failures[LoginFailureLimit + 1] - failures[1] >= LoginLockMinutes

\* The address is confirmed only by a link sent to confirm it
\* (services.py:175-186).
VerificationIsEarned ==
    account.verified => \E t \in consumed : tokens[t].purpose = "verify_email"

\* A reset voids every reset link sent before it, whichever of them was used
\* (views.py:341-345).
ResetVoidsLinks ==
    \A t \in OpenTokens("reset_password") : tokens[t].era = resets

\* Saving the profile changes nothing but the profile (views.py:148).  Not
\* kept: the row is saved as it was when the request was authenticated.
ProfileIsAllThatIsSaved ==
    [][\A c \in Of("profile") : SaveProfile(c) => account' = account]_vars

\* A person has at most one open link for each purpose (services.py:147).
LatestLinkOnly == \A purpose \in Purposes : Cardinality(OpenTokens(purpose)) <= 1
================================================================================
