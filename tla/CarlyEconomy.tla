------------------------------ MODULE CarlyEconomy -----------------------------
(***************************************************************************)
(* One person's Carly (apps/preferences): needs that decay with time,      *)
(* rewards for work with daily limits, credits, food and streaks.          *)
(*                                                                         *)
(* Rewards and care lock the row of CarlyState and are one step from there *)
(* on.  The decay of a page view and of the nightly Celery run is computed *)
(* from a row read without a lock and written later: such a handler is a   *)
(* record in calls.  Time is counted in quarters of an hour, so cooldowns, *)
(* all below one, do not show.  Versions are the subject of VersionedRow.  *)
(***************************************************************************)
EXTENDS Integers, FiniteSetsExt

CONSTANTS
    DailyXpSoftCap, DailyXpHardCap, DailyCreditSoftCap, DailyCreditHardCap,
    Jobs,            \* <<event, source>>: what can be rewarded, each once
    Subtasks,        \* numbers of finished subtasks a task may have
    Collaborators,   \* numbers of further participants a task may have
    Foods,           \* bound: the kinds of food on sale
    Cares,           \* bound: the kinds of care that are given
    Instants,        \* bound: when something happens
    MaxTimes, MaxCalls   \* bounds: care per day and food in stock, calls at a time

Needs == {"affection", "energy", "satiety"}

FoodRules ==
    [fish   |-> [cost |-> 20, satiety |-> 25, affection |-> 1, energy |-> 0, lasts |-> 1],
     berry  |-> [cost |-> 35, satiety |-> 18, affection |-> 3, energy |-> 0, lasts |-> 2],
     cookie |-> [cost |-> 60, satiety |-> 12, affection |-> 7, energy |-> 1, lasts |-> 4],
     potion |-> [cost |-> 100, satiety |-> 4, affection |-> 1, energy |-> 0, lasts |-> 0]]

RewardRules ==
    [task_created |-> [xp |-> 3, credits |-> 8, fullUntil |-> 5],
     task_completed |-> [xp |-> 15, credits |-> 40, fullUntil |-> 5],
     subtask_completed |-> [xp |-> 2, credits |-> 4, fullUntil |-> 10],
     task_updated |-> [xp |-> 1, credits |-> 2, fullUntil |-> 10],
     task_moved |-> [xp |-> 1, credits |-> 2, fullUntil |-> 10],
     project_created |-> [xp |-> 8, credits |-> 25, fullUntil |-> 3],
     project_updated |-> [xp |-> 2, credits |-> 5, fullUntil |-> 8],
     project_completed |-> [xp |-> 50, credits |-> 150, fullUntil |-> 2],
     comment_created |-> [xp |-> 2, credits |-> 4, fullUntil |-> 10],
     mention_created |-> [xp |-> 2, credits |-> 5, fullUntil |-> 8],
     message_sent |-> [xp |-> 1, credits |-> 2, fullUntil |-> 5],
     pet |-> [xp |-> 5, credits |-> 0, fullUntil |-> 3],
     play |-> [xp |-> 8, credits |-> 0, fullUntil |-> 3],
     feed |-> [xp |-> 2, credits |-> 0, fullUntil |-> 4]]

ActionRules ==
    [pet |-> [daily |-> 20, affection |-> 2, energy |-> 0, satiety |-> 0],
     play |-> [daily |-> 10, affection |-> 3, energy |-> -8, satiety |-> -2],
     sleep |-> [daily |-> 12, affection |-> 0, energy |-> 0, satiety |-> 0],
     wake |-> [daily |-> 12, affection |-> 0, energy |-> 0, satiety |-> -2],
     feed |-> [daily |-> 12, affection |-> 0, energy |-> 0, satiety |-> 0]]

ProductiveEvents == DOMAIN RewardRules \ {"pet", "play", "feed"}
CompletionEvents == {"task_completed", "subtask_completed", "project_completed"}
BerryFocusEvents == {"task_completed", "subtask_completed"}

ASSUME CapsAreOrdered ==
    /\ DailyXpSoftCap \in Nat /\ DailyXpHardCap \in Nat
    /\ DailyCreditSoftCap \in Nat /\ DailyCreditHardCap \in Nat
    /\ DailyXpSoftCap <= DailyXpHardCap /\ DailyCreditSoftCap <= DailyCreditHardCap
ASSUME JobsAreProductive == Jobs \subseteq ProductiveEvents \X Nat
ASSUME CatalogueIsKnown ==
    Foods \subseteq DOMAIN FoodRules /\ Cares \subseteq DOMAIN ActionRules
ASSUME BoundsAreNat ==
    /\ Subtasks \subseteq 0..5 /\ Collaborators \subseteq 0..3
    /\ Instants \subseteq Nat /\ MaxTimes \in Nat /\ MaxCalls \in Nat

VARIABLES
    now,      \* the clock
    carly,    \* the row of CarlyState
    ledger,   \* the rows of CarlyRewardLog
    cared,    \* cared[a]: the day of the last a, and how often on that day
    calls,    \* handlers between reading and writing
    bought, eaten   \* history: food bought and eaten

vars == <<now, carly, ledger, cared, calls, bought, eaten>>

Day == 96

Today == now \div Day

NoDay == 0       \* SQL NULL; the clock starts later
Never == 0

-----------------------------------------------------------------------------
(* Decay.                                                                  *)

Interval(need, sleeping) ==
    CASE need = "affection" -> 24
      [] need = "satiety" -> 3
      [] OTHER -> IF sleeping THEN 4 ELSE 2

\* Full intervals since; none if the clock has been turned back.
WholeSteps(since, interval) == Max({0, now - since}) \div interval

\* Mutant of Clamped: needs may leave 0..100.
Unclamped(x) == x

Clamped(x) == Max({0, Min({100, x})})

\* apply_carly_decay, without its save.
ApplyCarlyDecay(c) ==
    LET steps == [n \in Needs |-> WholeSteps(c.since[n], Interval(n, c.sleeping))]
        gains(n) == n = "energy" /\ c.sleeping
    IN  [c EXCEPT
            !.needs = [n \in Needs |->
                Clamped(IF gains(n) THEN @[n] + steps[n] ELSE @[n] - steps[n])],
            !.since = [n \in Needs |-> @[n] + steps[n] * Interval(n, c.sleeping)]]

\* Mutant of SaveDecayed: the whole row is saved, not the decayed columns.
SaveAll(row, c) == c

\* The save of apply_carly_decay, with its update_fields.
SaveDecayed(row, c) == [row EXCEPT !.needs = c.needs, !.since = c.since]

-----------------------------------------------------------------------------
(* Levels.                                                                 *)

Threshold(level) == 100 + (level - 1) * 25

\* The loop of level_state, from a level and the experience that remains.
Climb[s \in Nat \X Nat] ==
    IF s[2] >= Threshold(s[1])
    THEN Climb[<<s[1] + 1, s[2] - Threshold(s[1])>>]
    ELSE s[1]

LevelState(experience) == Climb[<<1, experience>>]

-----------------------------------------------------------------------------
(* Rewards.                                                                *)

SumXp(entries) == SumFunction([r \in entries |-> r.xp])

SumCredits(entries) == SumFunction([r \in entries |-> r.credits])

OfToday == {r \in ledger : r.day = Today}

\* Multipliers are percentages.
EventMultiplier(event) ==
    LET count == Cardinality({r \in OfToday : r.event = event})
        full == RewardRules[event].fullUntil
    IN  CASE count < full -> 100
          [] count >= full /\ count < 2 * full -> 50
          [] count >= 2 * full /\ count < 4 * full -> 25
          [] OTHER -> 0

DailySoftMultiplier(current, soft, hard) ==
    CASE current < soft -> 100
      [] current >= soft /\ current < soft + (hard - soft) \div 2 -> 50
      [] OTHER -> 25

CapReward(base, eventMultiplier, dailyMultiplier, remaining) ==
    IF base <= 0 \/ remaining <= 0 THEN 0
    ELSE LET scaled == IF eventMultiplier = 0 THEN 1
                       ELSE Max({1, (base * eventMultiplier * dailyMultiplier)
                                        \div 10000})
         IN  Min({scaled, remaining})

\* Mutant of WithinLimit: bonuses are added to a capped reward as they are.
NoLimit(bonus, available) == bonus

WithinLimit(bonus, available) == Min({bonus, Max({0, available})})

HasFocus(c, event) ==
    /\ event \in BerryFocusEvents
    /\ c.charges > 0
    /\ c.until["berry"] > now

\* The reward of the decayed row c for an event worth base.
Reward(c, event, base) ==
    LET today == OfToday
        xpToday == SumXp(today)
        creditsToday == SumCredits(today)
        multiplier == EventMultiplier(event)
        plain == CapReward(base.xp, multiplier,
                    DailySoftMultiplier(xpToday, DailyXpSoftCap, DailyXpHardCap),
                    DailyXpHardCap - xpToday)
        left == DailyXpHardCap - xpToday - plain
        bonus(active, amount, used) ==
            IF active THEN WithinLimit(amount, left - used) ELSE 0
        moon == bonus(c.until["fish"] > now, 3, 0)
        focus == bonus(HasFocus(c, event), 5, moon)
        cookie == bonus(event = "project_completed" /\ c.until["cookie"] > now,
                        10, moon + focus)
        energy == bonus(event \in CompletionEvents /\ c.needs["energy"] >= 100,
                        3, moon + focus + cookie)
    IN  [xp |-> plain + moon + focus + cookie + energy,
         credits |-> CapReward(base.credits, multiplier,
                        DailySoftMultiplier(creditsToday, DailyCreditSoftCap,
                                            DailyCreditHardCap),
                        DailyCreditHardCap - creditsToday),
         focus |-> focus > 0]

\* Mutant of StreakAfter: a second reward on one day counts as another day.
StreakOfRewards(c) == IF c.lastDay \in {Today - 1, Today} THEN c.streak + 1 ELSE 1

StreakAfter(c) ==
    CASE c.lastDay = Today - 1 -> c.streak + 1
      [] c.lastDay = Today -> c.streak
      [] OTHER -> 1

\* Mutant of FocusSpent: the charge outlives the bonus.
FocusKept(c, reward) == c

FocusSpent(c, reward) ==
    IF reward.focus
    THEN [c EXCEPT !.charges = Max({0, @ - 1}), !.until["berry"] = Never]
    ELSE c

\* A productive event counts for the streak, pleases Carly and wakes her.
Cheered(c, reward) ==
    [c EXCEPT
        !.streak = StreakAfter(c),
        !.lastDay = Today,
        !.needs["affection"] =
            Min({100, @ + Max({1, Min({5, reward.xp \div 10})})}),
        !.sleeping = FALSE,
        !.since["energy"] = IF c.sleeping THEN now ELSE @]

\* Mutant of Leveled: the level is derived before the experience is added.
LeveledBefore(c, xp) ==
    [c EXCEPT !.level = LevelState(c.experience), !.experience = @ + xp]

Leveled(c, xp) ==
    [c EXCEPT !.level = LevelState(c.experience + xp), !.experience = @ + xp]

Credited(c, event, reward) ==
    LET paid == [Leveled(FocusSpent(c, reward), reward.xp)
                    EXCEPT !.credits = @ + reward.credits]
    IN  IF event \in ProductiveEvents THEN Cheered(paid, reward) ELSE paid

\* Mutant of Rewarded: the unique constraint on event keys is dropped.
NeverRewarded(key) == FALSE

\* The unique constraint carly_reward_event_unique.
Rewarded(key) == \E r \in ledger : r.key = key

\* award_carly_reward from its lock on, for the row c of its transaction.
Award(c, key, event, base) ==
    LET decayed == ApplyCarlyDecay(c)
        reward == Reward(decayed, event, base)
        paid == reward.xp > 0 \/ reward.credits > 0
    IN  IF Rewarded(key)
        THEN carly' = decayed /\ UNCHANGED ledger
        ELSE /\ ledger' = ledger \cup
                    {[key |-> key, event |-> event, day |-> Today, xp |-> reward.xp,
                      credits |-> reward.credits, focus |-> reward.focus]}
             /\ carly' = IF paid THEN Credited(decayed, event, reward) ELSE decayed

-----------------------------------------------------------------------------
(* Handlers.                                                               *)

Begin(call) ==
    /\ Cardinality(calls) < MaxCalls
    /\ call \notin calls
    /\ calls' = calls \cup {call}

End(call) == calls' = calls \ {call}

Of(kind) == {c \in calls : c.kind = kind}

\* The process dies or its transaction is rolled back.
Abandon ==
    /\ \E c \in calls : End(c)
    /\ UNCHANGED <<now, carly, ledger, cared, bought, eaten>>

Tick ==
    /\ now' \in {t \in Instants : t > now}
    /\ UNCHANGED <<carly, ledger, cared, calls, bought, eaten>>

\* What reward_task_completion, or the rule of another event, pays for a job.
Worth(event) ==
    LET rule == RewardRules[event]
    IN  IF event = "task_completed"
        THEN {[xp |-> rule.xp + 2 * s + 2 * c, credits |-> rule.credits + 4 * s + 5 * c] :
                s \in Subtasks, c \in Collaborators}
        ELSE {[xp |-> rule.xp, credits |-> rule.credits]}

\* award_carly_reward: the ledger is searched before the row is locked.
LookUpReward(key, base) ==
    /\ ~ \E r \in ledger : r.key = key
    /\ Begin([kind |-> "reward", key |-> key, base |-> base])
    /\ UNCHANGED <<now, carly, ledger, cared, bought, eaten>>

AwardCarlyReward(c) ==
    /\ Award(carly, c.key, c.key[1], c.base)
    /\ End(c)
    /\ UNCHANGED <<now, cared, bought, eaten>>

\* bootstrap_preferences of every view: read, decay.
ReadCarly ==
    LET decayed == ApplyCarlyDecay(carly)
    IN  /\ decayed # carly
        /\ Begin([kind |-> "decay", decayed |-> decayed])
        /\ UNCHANGED <<now, carly, ledger, cared, bought, eaten>>

SaveDecay(c) ==
    /\ carly' = SaveDecayed(carly, c.decayed)
    /\ End(c)
    /\ UNCHANGED <<now, ledger, cared, bought, eaten>>

\* refresh_carly_streaks, at ten past midnight, reads 500 rows at once.
FetchCarly ==
    /\ now % Day = 0
    /\ Begin([kind |-> "refresh", seen |-> carly])
    /\ UNCHANGED <<now, carly, ledger, cared, bought, eaten>>

StreakIsBroken(c) ==
    c.lastDay # NoDay /\ Today - c.lastDay > 1 /\ c.streak > 0

RefreshCarly(c) ==
    LET decayed == ApplyCarlyDecay(c.seen)
    IN  /\ carly' = IF decayed # c.seen THEN SaveDecayed(carly, decayed) ELSE carly
        /\ calls' = (calls \ {c}) \cup
                IF StreakIsBroken(c.seen) THEN {[kind |-> "streak"]} ELSE {}
        /\ UNCHANGED <<now, ledger, cared, bought, eaten>>

ResetStreak(c) ==
    /\ carly' = [carly EXCEPT !.streak = 0]
    /\ End(c)
    /\ UNCHANGED <<now, ledger, cared, bought, eaten>>

\* reset_carly_settings: of what is modelled, the decay, under the lock.
ResetCarlySettings ==
    /\ carly' = ApplyCarlyDecay(carly)
    /\ UNCHANGED <<now, ledger, cared, calls, bought, eaten>>

\* perform_carly_action, "buy-food".
BuyFood(f) ==
    LET c == ApplyCarlyDecay(carly)
    IN  /\ c.inventory[f] < MaxTimes
        /\ c.credits >= FoodRules[f].cost
        /\ carly' = [c EXCEPT !.credits = @ - FoodRules[f].cost, !.inventory[f] = @ + 1]
        /\ bought' = [bought EXCEPT ![f] = @ + 1]
        /\ UNCHANGED <<now, ledger, cared, calls, eaten>>

TimesToday(a) == IF cared[a].day = Today THEN cared[a].times ELSE 0

\* The daily limit; the action is logged.
Log(a) ==
    /\ TimesToday(a) < ActionRules[a].daily
    /\ TimesToday(a) < MaxTimes
    /\ cared' = [cared EXCEPT ![a] = [day |-> Today, times |-> TimesToday(a) + 1]]

\* perform_carly_action rewards the action in its own transaction.
RewardCare(c, a) == Award(c, <<a, Today, TimesToday(a) + 1>>, a, RewardRules[a])

\* What an action other than feeding does to Carly's needs.
Tended(c, a) ==
    [c EXCEPT !.needs = [n \in Needs |-> Clamped(@[n] + ActionRules[a][n])]]

PetOrPlay(a) ==
    LET c == ApplyCarlyDecay(carly)
    IN  /\ ~c.sleeping
        /\ a = "play" => c.needs["energy"] > 0
        /\ Log(a)
        /\ RewardCare(Tended(c, a), a)
        /\ UNCHANGED <<now, calls, bought, eaten>>

\* Both start the count of energy steps anew.
SleepOrWake(a) ==
    LET c == ApplyCarlyDecay(carly)
    IN  /\ Log(a)
        /\ carly' = Tended([c EXCEPT !.sleeping = (a = "sleep"),
                                     !.since["energy"] = now], a)
        /\ UNCHANGED <<now, ledger, calls, bought, eaten>>

Fed(c, f) ==
    LET rule == FoodRules[f]
    IN  [c EXCEPT
            !.inventory[f] = @ - 1,
            !.needs = [n \in Needs |->
                IF n = "energy" /\ f = "potion" THEN 100
                ELSE Min({100, @[n] + rule[n]})],
            !.since["energy"] = IF f = "potion" THEN now ELSE @,
            !.charges = IF f = "berry" THEN 1 ELSE @,
            !.until[f] = now + rule.lasts]

Feed(f) ==
    LET c == ApplyCarlyDecay(carly)
    IN  /\ ~c.sleeping
        /\ c.inventory[f] > 0
        /\ Log("feed")
        /\ RewardCare(Fed(c, f), "feed")
        /\ eaten' = [eaten EXCEPT ![f] = @ + 1]
        /\ UNCHANGED <<now, calls, bought>>

-----------------------------------------------------------------------------
InitialInventory == [f \in DOMAIN FoodRules |-> IF f = "fish" THEN 1 ELSE 0]

NewCarly ==
    [level |-> 1, experience |-> 0, credits |-> 40, inventory |-> InitialInventory,
     needs |-> [affection |-> 50, energy |-> 80, satiety |-> 70],
     since |-> [n \in Needs |-> now],
     streak |-> 0, lastDay |-> NoDay, sleeping |-> FALSE,
     until |-> [f \in DOMAIN FoodRules |-> Never], charges |-> 0]

Init ==
    /\ now = 2 * Day + 1
    /\ carly = NewCarly
    /\ ledger = {}
    /\ cared = [a \in DOMAIN ActionRules |-> [day |-> NoDay, times |-> 0]]
    /\ calls = {}
    /\ bought = [f \in DOMAIN FoodRules |-> 0]
    /\ eaten = [f \in DOMAIN FoodRules |-> 0]

DecayStep ==
    \/ ReadCarly
    \/ \E c \in Of("decay") : SaveDecay(c)
    \/ FetchCarly
    \/ \E c \in Of("refresh") : RefreshCarly(c)
    \/ \E c \in Of("streak") : ResetStreak(c)
    \/ ResetCarlySettings

RewardStep ==
    \/ \E key \in Jobs : \E base \in Worth(key[1]) : LookUpReward(key, base)
    \/ \E c \in Of("reward") : AwardCarlyReward(c)

CareStep ==
    \/ \E a \in Cares \cap {"pet", "play"} : PetOrPlay(a)
    \/ \E a \in Cares \cap {"sleep", "wake"} : SleepOrWake(a)
    \/ \E f \in Foods : BuyFood(f)
    \/ \E f \in Foods : "feed" \in Cares /\ Feed(f)

Next == DecayStep \/ RewardStep \/ CareStep \/ Tick \/ Abandon

Spec == Init /\ [][Next]_vars

-----------------------------------------------------------------------------
(* Properties.                                                             *)

CarlyRow ==
    [level : Nat \ {0}, experience : Nat, credits : Nat,
     inventory : [DOMAIN FoodRules -> Nat],
     needs : [Needs -> 0..100], since : [Needs -> Nat],
     streak : Nat, lastDay : Nat, sleeping : BOOLEAN,
     until : [DOMAIN FoodRules -> Nat], charges : 0..1]

\* Needs stay between 0 and 100, credits and inventory are never negative
\* (models.py:114-117 and the check constraints).
TypeOK ==
    /\ now \in Nat
    /\ carly \in CarlyRow
    /\ \A r \in ledger : r.xp \in Nat /\ r.credits \in Nat /\ r.focus \in BOOLEAN
    /\ \A n \in Needs : carly.since[n] <= now

\* Whatever decays are written in between, every reward and purchase counts
\* once: experience, credits and inventory are what the ledger and the history
\* of food add up to (the save at rewards.py:196-209 leaves them alone).
LedgerBalances ==
    LET spent == SumFunction([f \in DOMAIN FoodRules |-> bought[f] * FoodRules[f].cost])
    IN  /\ carly.experience = SumXp(ledger)
        /\ carly.credits + spent = 40 + SumCredits(ledger)
        /\ \A f \in DOMAIN FoodRules :
              carly.inventory[f] + eaten[f] = InitialInventory[f] + bought[f]

\* No day pays more than its hard caps, bonuses included (rewards.py:17-20).
DailyCapsHold ==
    \A d \in {r.day : r \in ledger} :
        LET entries == {r \in ledger : r.day = d}
        IN  SumXp(entries) <= DailyXpHardCap
            /\ SumCredits(entries) <= DailyCreditHardCap

\* A job is rewarded once, though it is looked up before the lock
\* (rewards.py:352, "idempotente").
RewardedOnce ==
    \A r, s \in ledger : r.key = s.key => r = s

\* The level is the one whose thresholds add up to the experience
\* (rewards.py:216-225).
LevelIsExact ==
    LET reached(l) == 100 * (l - 1) + (25 * (l - 1) * (l - 2)) \div 2
    IN  /\ reached(carly.level) <= carly.experience
        /\ carly.experience < reached(carly.level + 1)

\* Each day of a streak has a productive reward in the ledger
\* (rewards.py:443-449).
StreakIsEarned ==
    \A k \in 0..carly.streak - 1 :
        \E r \in ledger : /\ r.day = carly.lastDay - k
                          /\ r.event \in ProductiveEvents
                          /\ r.xp > 0 \/ r.credits > 0

\* Each berry focuses one completion (rewards.py:437-440).
FocusIsSpentOnce ==
    Cardinality({r \in ledger : r.focus}) <= eaten["berry"]

\* The nightly run does not take a streak from who was productive today
\* (tasks.py:12).
StreakIsAlive == carly.lastDay = Today => carly.streak > 0

\* Decay takes no more than the time that passed since the last decay
\* (rewards.py:171, "deterministisch").
DecayTakesItsTime ==
    [][\A n \in Needs :
          ledger' = ledger /\ cared' = cared =>
              carly'.needs[n] >= carly.needs[n]
                  - WholeSteps(carly.since[n], Interval(n, FALSE))]_vars
================================================================================
