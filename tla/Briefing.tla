------------------------------ MODULE Briefing ------------------------------
(***************************************************************************)
(* The morning briefing (packages/server/src/push/briefing.ts): a timer    *)
(* that fires once a minute, and acts in the first minute of an hour.      *)
(*                                                                         *)
(* Time is a count of minutes in UTC; a day has HoursPerDay hours, of      *)
(* MinutesPerHour minutes each, and the server's clock shows local time.   *)
(* The timer drifts: it may skip a minute, but it never fires twice in     *)
(* one.  Which subscriptions had their briefing is kept in memory, and     *)
(* goes with the process.                                                  *)
(***************************************************************************)
EXTENDS Integers

CONSTANTS
    Subs,
    HoursPerDay, MinutesPerHour,
    Offset,       \* hours the local time is behind UTC
    LastMinute    \* minutes in a run (bound)

ASSUME BriefingAssumption ==
    /\ HoursPerDay \in Nat \ {0} /\ MinutesPerHour \in Nat \ {0}
    /\ Offset \in 0 .. HoursPerDay - 1 /\ LastMinute \in Nat

VARIABLES
    minute,      \* minutes since the run began
    lastTick,    \* the minute of the last tick, or of the start
    sentToday, lastCheckDate,
    reading,     \* the hours whose ticks wait for the rows
    briefingHour,
    quietHours,  \* the UTC hours a subscription wants no notification in
    sending,     \* briefings on their way
    sent,        \* history: the briefings handed to the push service
    repeated     \* history: those handed to it more than once

briefingVars == <<minute, lastTick, sentToday, lastCheckDate, reading, briefingHour,
                  quietHours, sending, sent, repeated>>

Hours == 0 .. HoursPerDay - 1
DayLength == HoursPerDay * MinutesPerHour

(* A run begins on day 1, by both clocks.                                  *)
localTime == minute + DayLength
utcTime == localTime + Offset * MinutesPerHour

(* Mutant of HourOf: the hours are not taken round the clock.              *)
MutHourOf(time) == time \div MinutesPerHour

HourOf(time) == (time \div MinutesPerHour) % HoursPerDay
DayOf(time) == time \div DayLength

Days == 0 .. LastMinute \div DayLength + 2
Moments == [day : Days, hour : Hours]
Briefings == [sub : Subs, at : Moments]

(* The hours from start to end, across midnight if end comes first.        *)
Window(start, end) ==
    IF start <= end THEN {h \in Hours : start <= h /\ h < end}
    ELSE {h \in Hours : start <= h \/ h < end}

BriefingTypeOK ==
    /\ minute \in 0 .. LastMinute /\ lastTick \in 0 .. LastMinute
    /\ sentToday \subseteq Subs /\ lastCheckDate \in Days
    /\ reading \subseteq Moments
    /\ briefingHour \in [Subs -> Hours] /\ quietHours \in [Subs -> SUBSET Hours]
    /\ sending \subseteq sent /\ sent \subseteq Briefings /\ repeated \subseteq sent

BriefingInit ==
    /\ minute = 0 /\ lastTick = 0
    /\ sentToday = {} /\ lastCheckDate = 0
    /\ reading = {} /\ sending = {} /\ sent = {} /\ repeated = {}
    /\ briefingHour \in [Subs -> Hours] /\ quietHours = [s \in Subs |-> {}]

-----------------------------------------------------------------------------
(* Mutant of DueMinute: every tick of the hour acts.                       *)
MutDueMinute == TRUE

DueMinute == localTime % MinutesPerHour = 0

(* A tick, up to its wait for the subscriptions.                           *)
BriefingTick ==
    LET today == DayOf(utcTime) IN
    /\ minute > lastTick /\ lastTick' = minute
    /\ sentToday' = IF today = lastCheckDate THEN sentToday ELSE {}
    /\ lastCheckDate' = today
    /\ reading' = IF DueMinute
                  THEN reading \cup {[day |-> DayOf(localTime), hour |-> HourOf(localTime)]}
                  ELSE reading
    /\ UNCHANGED <<minute, briefingHour, quietHours, sending, sent, repeated>>

(* isQuietHours asks for the hour in UTC.                                  *)
Due(s, at) ==
    /\ s \notin sentToday
    /\ briefingHour[s] = at.hour
    /\ HourOf(utcTime) \notin quietHours[s]

(* getAllSubscriptions answers, and the briefings are sent; a subscription *)
(* without lines gets none.                                                *)
RowsRead(at) ==
    /\ at \in reading /\ reading' = reading \ {at}
    /\ \E S \in SUBSET {s \in Subs : Due(s, at)} :
         LET new == {[sub |-> s, at |-> at] : s \in S} IN
         /\ sending' = sending \cup new
         /\ sent' = sent \cup new
         /\ repeated' = repeated \cup (new \cap sent)
    /\ UNCHANGED <<minute, lastTick, sentToday, lastCheckDate, briefingHour, quietHours>>

(* sendPushNotification resolves; a failure is not remembered as sent.     *)
BriefingSettled(b) ==
    /\ b \in sending /\ sending' = sending \ {b}
    /\ sentToday' \in {sentToday, sentToday \cup {b.sub}}
    /\ UNCHANGED <<minute, lastTick, lastCheckDate, reading, briefingHour, quietHours,
                   sent, repeated>>

(* upsertSubscription writes the hour and the quiet hours anew.            *)
Resubscribe(s) ==
    /\ \E h, start, end \in Hours :
         /\ briefingHour' = [briefingHour EXCEPT ![s] = h]
         /\ quietHours' = [quietHours EXCEPT ![s] = Window(start, end)]
    /\ UNCHANGED <<minute, lastTick, sentToday, lastCheckDate, reading, sending, sent, repeated>>

(* The timer of the new process fires a minute after its start.            *)
BriefingRestart ==
    /\ sentToday' = {} /\ lastCheckDate' = 0
    /\ reading' = {} /\ sending' = {}
    /\ lastTick' = minute
    /\ UNCHANGED <<minute, briefingHour, quietHours, sent, repeated>>

MinutePasses ==
    /\ minute < LastMinute /\ minute' = minute + 1
    /\ UNCHANGED <<lastTick, sentToday, lastCheckDate, reading, briefingHour, quietHours,
                   sending, sent, repeated>>

BriefingNext ==
    \/ BriefingTick \/ BriefingRestart \/ MinutePasses
    \/ \E at \in reading : RowsRead(at)
    \/ \E b \in sending : BriefingSettled(b)
    \/ \E s \in Subs : Resubscribe(s)
BriefingSpec == BriefingInit /\ [][BriefingNext]_briefingVars

-----------------------------------------------------------------------------
(* Properties *)

(* A subscription has its briefing of a day and an hour at most once,      *)
(* however slow the rows and the push service are, and whenever the server *)
(* was restarted: what a restart forgets is covered by the one tick of the *)
(* hour's first minute.  A subscription whose hour is changed gets another *)
(* briefing that day, of the other hour: the set of those briefed tells    *)
(* the hours apart and the property does too.                              *)
NoRepeatedBriefing == repeated = {}
=============================================================================
