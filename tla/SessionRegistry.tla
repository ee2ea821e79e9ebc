-------------------------- MODULE SessionRegistry --------------------------
(***************************************************************************)
(* The registry of concurrent sessions                                     *)
(* (packages/server/src/middleware/concurrent-session-management.ts): the  *)
(* sessions of every user in the order they were registered, and beside it *)
(* the sessions counted against each device.                               *)
(*                                                                         *)
(* Times are abstracted to what the code asks of them: the order of        *)
(* registration (createdAt), whether a session is due for the cleanup      *)
(* (expired or idle too long), and whether the idle time last recorded for *)
(* it exceeds a minute.                                                    *)
(***************************************************************************)
EXTENDS Integers, FiniteSets

CONSTANTS
    Sessions, Users, Devices,
    NoDevice,       \* a session registered without device information
    MaxConcurrent,  \* maxConcurrentSessions
    PerDevice,      \* maxSessionsPerDevice
    Strategies,     \* the conflict resolutions in use
    Priorities      \* 1 is "low"

ASSUME RegistryAssumption ==
    /\ MaxConcurrent \in Nat \ {0} /\ PerDevice \in Nat
    /\ NoDevice \notin Devices
    /\ Strategies \subseteq {"deny_new", "terminate_oldest", "terminate_idle",
                             "terminate_lowest_priority", "allow_all"}
    /\ Priorities \subseteq Nat /\ Priorities # {}

VARIABLES
    registry,   \* userSessionRegistry: the sessions in each user's list
    older,      \* the order of the lists: pairs of sessions, the older first
    onDevice,   \* deviceSessionRegistry: the sessions counted for their device
    info        \* what the registered session objects say of themselves

registryVars == <<registry, older, onDevice, info>>

Info == [device : Devices \cup {NoDevice}, priority : Priorities,
         pinned : BOOLEAN, wasIdle : BOOLEAN, due : BOOLEAN]
NoInfo == [device |-> NoDevice, priority |-> CHOOSE p \in Priorities : TRUE,
           pinned |-> FALSE, wasIdle |-> FALSE, due |-> FALSE]

AllOf(r) == UNION {r[u] : u \in Users}
Listed == AllOf(registry)

(* A session is in one list, and a list is in one order.                   *)
OneList == \A u, v \in Users : u # v => registry[u] \cap registry[v] = {}
InOrder ==
    /\ older \subseteq Listed \X Listed
    /\ \A u \in Users : \A s, t \in registry[u] :
         s # t => (<<s, t>> \in older <=> <<t, s>> \notin older)

RegistryTypeOK ==
    /\ registry \in [Users -> SUBSET Sessions]
    /\ OneList /\ InOrder
    /\ onDevice \in SUBSET Sessions
    /\ info \in [Sessions -> Info]

RegistryInit ==
    /\ registry = [u \in Users |-> {}]
    /\ older = {} /\ onDevice = {}
    /\ info = [s \in Sessions |-> NoInfo]

-----------------------------------------------------------------------------
getDeviceSessionCount(d) == Cardinality({s \in onDevice : info[s].device = d})

(* The objects of sessions that are in no list any more are garbage.       *)
Kept(listed, i) == [s \in Sessions |-> IF s \in listed THEN i[s] ELSE NoInfo]
Among(listed) == older \cap (listed \X listed)

(* The list a registration replaces, and what it takes off the devices.    *)
Drop(r, gone) ==
    /\ registry' = r
    /\ older' = Among(AllOf(r))
    /\ onDevice' = onDevice \ gone
    /\ info' = Kept(AllOf(r), info)

(* The first of the sessions, as the singleton or empty set of its members.*)
Oldest(list) == {s \in list : \A t \in list : <<t, s>> \notin older}
Unpinned(list) == {s \in list : ~info[s].pinned}

(* Mutant of DeviceVictim: the oldest has to go, pinned or not.            *)
MutDeviceVictim(u, d) ==
    IF d = NoDevice \/ PerDevice = 0 \/ getDeviceSessionCount(d) < PerDevice
    THEN {}
    ELSE Oldest({s \in registry[u] : info[s].device = d})

(* The session a registration of u terminates because the device is full:  *)
(* the oldest of u's own there, unless it is pinned.                       *)
DeviceVictim(u, d) ==
    IF d = NoDevice \/ PerDevice = 0 \/ getDeviceSessionCount(d) < PerDevice
    THEN {}
    ELSE Unpinned(Oldest({s \in registry[u] : info[s].device = d}))

(* resolveSessionConflict: the sessions that may have to go; none if the   *)
(* new session is refused.                                                 *)
LowestPriority(list) ==
    {s \in list : \A t \in list : info[s].priority <= info[t].priority}
Idle(list) == {s \in list : info[s].wasIdle}
Victims(list, strategy) ==
    CASE strategy = "terminate_oldest" -> Oldest(Unpinned(list))
      [] strategy = "terminate_lowest_priority" -> Oldest(LowestPriority(Unpinned(list)))
      [] strategy = "terminate_idle" ->
           IF Idle(Unpinned(list)) # {} THEN Idle(Unpinned(list)) ELSE Oldest(Unpinned(list))
      [] OTHER -> {}

(* registerSession.  terminateSessionAndContinue stores a copy of the list *)
(* without its victim, and registerSession stores the list it read before, *)
(* victim included, with the new session at its end.                       *)
registerSession(u, s, d, p, pin, strategy) ==
    LET full(list) == strategy # "allow_all" /\ Cardinality(list) >= MaxConcurrent
        ousted == DeviceVictim(u, d)
        list == registry[u] \ ousted
    IN  /\ s \notin Listed
        /\ \/ /\ full(list) /\ Victims(list, strategy) = {}
              /\ Drop([registry EXCEPT ![u] = list], ousted)
           \/ \E gone \in IF full(list) THEN {{v} : v \in Victims(list, strategy)} ELSE {{}} :
                /\ registry' = [registry EXCEPT ![u] = list \cup {s}]
                /\ older' = Among(AllOf(registry')) \cup (list \X {s})
                /\ onDevice' = (onDevice \ (ousted \cup gone))
                                 \cup (IF d = NoDevice THEN {} ELSE {s})
                /\ info' = [Kept(AllOf(registry'), info) EXCEPT
                              ![s] = [device |-> d, priority |-> p, pinned |-> pin,
                                      wasIdle |-> FALSE, due |-> FALSE]]

(* updateSessionActivity records how long the session was idle; one that   *)
(* has expired stays due.                                                  *)
updateSessionActivity(s) ==
    /\ s \in Listed
    /\ \E idle \in BOOLEAN, due \in {FALSE, info[s].due} :
          info' = [info EXCEPT ![s].wasIdle = idle, ![s].due = due]
    /\ UNCHANGED <<registry, older, onDevice>>

(* Time passes: the session expires or has been idle for too long.         *)
BecomeDue(s) ==
    /\ s \in Listed
    /\ info' = [info EXCEPT ![s].due = TRUE]
    /\ UNCHANGED <<registry, older, onDevice>>

(* Mutant of cleanupRegistry: the devices are not told.                    *)
MutCleanup ==
    LET gone == {s \in Listed : info[s].due /\ ~info[s].pinned}
    IN  /\ gone # {}
        /\ registry' = [u \in Users |-> registry[u] \ gone]
        /\ older' = Among(AllOf(registry'))
        /\ info' = Kept(AllOf(registry'), info)
        /\ UNCHANGED onDevice

cleanupRegistry ==
    LET gone == {s \in Listed : info[s].due /\ ~info[s].pinned}
    IN  gone # {} /\ Drop([u \in Users |-> registry[u] \ gone], gone)

terminateSession(s) ==
    /\ s \in Listed
    /\ Drop([u \in Users |-> registry[u] \ {s}], {s})

terminateAllUserSessions(u) ==
    /\ registry[u] # {}
    /\ Drop([registry EXCEPT ![u] = {}], registry[u])

terminateAllOtherSessions(u, keep) ==
    LET gone == registry[u] \ {keep}
    IN  gone # {} /\ Drop([registry EXCEPT ![u] = @ \ gone], gone)

pinSession(s, pin) ==
    /\ s \in Listed /\ info[s].pinned # pin
    /\ info' = [info EXCEPT ![s].pinned = pin]
    /\ UNCHANGED <<registry, older, onDevice>>

Register == \E u \in Users, s \in Sessions, d \in Devices \cup {NoDevice},
               p \in Priorities, pin \in BOOLEAN, strategy \in Strategies :
                 registerSession(u, s, d, p, pin, strategy)

RegistryNext ==
    \/ Register
    \/ cleanupRegistry
    \/ \E s \in Sessions :
         \/ updateSessionActivity(s) \/ BecomeDue(s) \/ terminateSession(s)
         \/ \E pin \in BOOLEAN : pinSession(s, pin)
    \/ \E u \in Users :
         \/ terminateAllUserSessions(u)
         \/ \E s \in Sessions : terminateAllOtherSessions(u, s)

RegistrySpec == RegistryInit /\ [][RegistryNext]_registryVars

-----------------------------------------------------------------------------
(* Properties                                                              *)

(* The device counts hold no session that is gone: whichever way a session *)
(* ends, expired, idle, ousted, signed out, it frees its place, and no     *)
(* device stays full for ever.                                             *)
DeviceCountsLive == \A s \in onDevice : s \in Listed /\ info[s].device # NoDevice

Ended ==
    \/ \E s \in Sessions : terminateSession(s)
    \/ \E u \in Users : \/ terminateAllUserSessions(u)
                       \/ \E s \in Sessions : terminateAllOtherSessions(u, s)

(* A pinned session is ended by an explicit termination only, never by a   *)
(* limit or by the cleanup.                                                *)
PinnedStays ==
    [][\A s \in Listed \ Listed' : info[s].pinned => Ended]_registryVars
=============================================================================
