---------------------------- MODULE AuthSessions ----------------------------
(***************************************************************************)
(* Sessions and refresh tokens of one API key                              *)
(* (packages/server/src/middleware/authentication.ts).                     *)
(*                                                                         *)
(* Every session is made together with one refresh token, so both carry    *)
(* the same identifier; a refresh replaces a session by a new one of the   *)
(* same rotation family.  createSession and refreshSession wait for        *)
(* cryptography (the device fingerprint, the decryption of stored tokens,  *)
(* the fingerprint of a new token) and other requests run meanwhile.       *)
(*                                                                         *)
(* Which session was active least recently is left open, and the sessions  *)
(* of one device type are any of the key's: a victim of a limit is any     *)
(* session the code could choose.                                          *)
(***************************************************************************)
EXTENDS Integers, FiniteSets

CONSTANTS
    Ids,         \* sessions made in a run (bound)
    Clients,     \* refreshes in progress at the same time (bound)
    MaxCreating, \* sign-ins in progress at the same time (bound)
    NoId,
    MaxSessions, \* MAX_CONCURRENT_SESSIONS
    MaxOfType    \* MAX_SESSIONS_PER_DEVICE_TYPE

ASSUME SessionsAssumption ==
    /\ NoId \notin Ids /\ IsFiniteSet(Ids)
    /\ MaxCreating \in Nat \ {0}
    /\ MaxSessions \in Nat \ {0} /\ MaxOfType \in Nat \ {0}

VARIABLES
    keyActive,  \* the API key is active
    session,    \* sessions: what the map holds under the identifier; an
                \* inactive one that was dropped while it was being made
    token,      \* refreshTokens; a token can be deleted from the map while a
                \* refresh that found it still holds it
    linked,     \* the token session.refreshTokenId names
    family,     \* rotationFamily, named by the first session of the chain
    stage,      \* how far the making of a session is
    found       \* the token a client's refresh has found

authVars == <<keyActive, session, token, linked, family, stage, found>>

Present == {i \in Ids : session[i] \in {"active", "inactive"}}
Active == {i \in Ids : session[i] = "active"}

AuthTypeOK ==
    /\ keyActive \in BOOLEAN
    /\ session \in [Ids -> {"none", "active", "inactive", "dropped"}]
    /\ token \in [Ids -> {"none", "unused", "used", "detached"}]
    /\ linked \in [Ids -> Ids \cup {NoId}]
    /\ family \in [Ids -> Ids \cup {NoId}]
    /\ stage \in [Ids -> {"free", "device", "token", "rotated", "made"}]
    /\ found \in [Clients -> Ids \cup {NoId}]

AuthInit ==
    /\ keyActive = TRUE
    /\ session = [i \in Ids |-> "none"] /\ token = [i \in Ids |-> "none"]
    /\ linked = [i \in Ids |-> NoId] /\ family = [i \in Ids |-> NoId]
    /\ stage = [i \in Ids |-> "free"]
    /\ found = [c \in Clients |-> NoId]

-----------------------------------------------------------------------------
Making == {i \in Ids : stage[i] \in {"device", "token"}}

(* refreshTokens.delete: what is left of the tokens and of the sessions.   *)
WithoutTokens(gone) ==
    [i \in Ids |->
       IF i \notin gone \/ token[i] = "detached" THEN token[i]
       ELSE IF token[i] = "unused" /\ \E c \in Clients : found[c] = i
            THEN "detached" ELSE "none"]
TokensOf(S) == {linked[i] : i \in S} \ {NoId}

Delete(ses, gone) ==
    [i \in Ids |->
       IF i \notin gone THEN ses[i]
       ELSE IF ses[i] = "inactive" /\ stage[i] = "token" THEN "dropped" ELSE "none"]

(* Mutant of Deactivate: revocation is a state of its own.                 *)
MutDeactivate(gone) ==
    [i \in Ids |-> IF i \in gone /\ session[i] = "active" THEN "revoked" ELSE session[i]]

Deactivate(gone) ==
    [i \in Ids |-> IF i \in gone /\ session[i] = "active" THEN "inactive" ELSE session[i]]

(* A limit of n that the sessions S have reached costs one of them.        *)
Excess(S, n) == IF Cardinality(S) < n THEN {{}} ELSE {{i} : i \in S}

(* Mutant of Surplus: inactive sessions are not counted.                   *)
MutSurplus ==
    {S \in SUBSET Present :
       Cardinality(S) = (IF Cardinality(Active) > MaxSessions
                         THEN Cardinality(Active) - MaxSessions ELSE 0)}

(* cleanupOldSessions deletes what exceeds the maximum, active or not.     *)
Surplus ==
    {S \in SUBSET Present :
       Cardinality(S) = (IF Cardinality(Present) > MaxSessions
                         THEN Cardinality(Present) - MaxSessions ELSE 0)}

(* createSession up to its first wait: revokeSession for the limit of the  *)
(* device type, if it has that many sessions, and for the total.           *)
CreateStart(i) ==
    /\ stage[i] = "free" /\ keyActive /\ Cardinality(Making) < MaxCreating
    /\ \E typed \in {{}} \cup Excess(Active, MaxOfType) :
       \E oldest \in Excess(Active \ typed, MaxSessions) :
       \E surplus \in Surplus :
         /\ session' = Delete(Deactivate(typed \cup oldest), surplus)
         /\ token' = WithoutTokens(TokensOf(typed \cup oldest))
    /\ stage' = [stage EXCEPT ![i] = "device"]
    /\ UNCHANGED <<keyActive, linked, family, found>>

(* ... the device is known: the session is stored ...                      *)
CreateStored(i) ==
    /\ stage[i] = "device"
    /\ stage' = [stage EXCEPT ![i] = "token"]
    /\ session' = [session EXCEPT ![i] = "active"]
    /\ UNCHANGED <<keyActive, token, linked, family, found>>

(* ... and stored once more when its token is made, also if it was deleted *)
(* in between.                                                             *)
CreateDone(i) ==
    /\ stage[i] = "token"
    /\ stage' = [stage EXCEPT ![i] = "made"]
    /\ session' = [session EXCEPT
                     ![i] = IF @ \in {"none", "active"} THEN "active" ELSE "inactive"]
    /\ token' = [token EXCEPT ![i] = "unused"]
    /\ linked' = [linked EXCEPT ![i] = i]
    /\ family' = [family EXCEPT ![i] = i]
    /\ UNCHANGED <<keyActive, found>>

-----------------------------------------------------------------------------
(* refreshSession: the token is looked up, which waits for decryptions.    *)
RefreshStart(c, i) ==
    /\ found[c] = NoId /\ token[i] \in {"unused", "used"}
    /\ found' = [found EXCEPT ![c] = i]
    /\ UNCHANGED <<keyActive, session, token, linked, family, stage>>

Forget(c) == found' = [found EXCEPT ![c] = NoId]

(* Reuse: invalidateRefreshTokenFamily.                                    *)
RefreshReused(c) ==
    /\ found[c] # NoId /\ token[found[c]] \in {"used", "none"}
    /\ token' = WithoutTokens({i \in Ids : family[i] = family[found[c]]})
    /\ Forget(c)
    /\ UNCHANGED <<keyActive, session, linked, family, stage>>

Fresh(c) == found[c] # NoId /\ token[found[c]] \in {"unused", "detached"}

(* The session is gone or inactive: the token stays as it is.              *)
RefreshWithout(c) ==
    /\ Fresh(c) /\ session[found[c]] # "active"
    /\ Forget(c)
    /\ UNCHANGED <<keyActive, session, token, linked, family, stage>>

(* The token is marked as used; an idle session is closed.                 *)
RefreshIdle(c) ==
    /\ Fresh(c) /\ session[found[c]] = "active"
    /\ token' = [token EXCEPT ![found[c]] = "used"]
    /\ session' = Deactivate({found[c]})
    /\ Forget(c)
    /\ UNCHANGED <<keyActive, linked, family, stage>>

(* Mutant of RefreshRotate: the old session is left in the map.            *)
MutRefreshRotate(c, n) ==
    LET old == found[c] IN
    /\ Fresh(c) /\ session[old] = "active"
    /\ stage[n] = "free"
    /\ token' = [token EXCEPT ![old] = "used"]
    /\ session' = [session EXCEPT ![n] = "active"]
    /\ linked' = [linked EXCEPT ![n] = linked[old]]
    /\ family' = [family EXCEPT ![n] = family[old]]
    /\ stage' = [stage EXCEPT ![n] = "rotated"]
    /\ Forget(c)
    /\ UNCHANGED keyActive

(* regenerateSession replaces the session at once ...                      *)
RefreshRotate(c, n) ==
    LET old == found[c] IN
    /\ Fresh(c) /\ session[old] = "active"
    /\ stage[n] = "free"
    /\ token' = [token EXCEPT ![old] = "used"]
    /\ session' = [session EXCEPT ![old] = "none", ![n] = "active"]
    /\ linked' = [linked EXCEPT ![n] = linked[old]]
    /\ family' = [family EXCEPT ![n] = family[old]]
    /\ stage' = [stage EXCEPT ![n] = "rotated"]
    /\ Forget(c)
    /\ UNCHANGED keyActive

(* ... and the new token follows.                                          *)
RefreshDone(n) ==
    /\ stage[n] = "rotated"
    /\ stage' = [stage EXCEPT ![n] = "made"]
    /\ token' = [token EXCEPT ![n] = "unused"]
    /\ linked' = IF n \in Present THEN [linked EXCEPT ![n] = n] ELSE linked
    /\ UNCHANGED <<keyActive, session, family, found>>

-----------------------------------------------------------------------------
(* The end of sessions and tokens                                          *)

(* revokeSession, for one session or for all others than one.              *)
Revoke(S) ==
    /\ S # {} /\ S \subseteq Present
    /\ session' = Deactivate(S)
    /\ token' = WithoutTokens(TokensOf(S))
    /\ UNCHANGED <<keyActive, linked, family, stage, found>>
revokeSession(i) == Revoke({i})
revokeOtherSessions(i) == Revoke(Active \ {i})

(* validateSession closes a session that moved or was idle; its token      *)
(* stays.                                                                  *)
ValidateFails(i) ==
    /\ i \in Active
    /\ session' = Deactivate({i})
    /\ UNCHANGED <<keyActive, token, linked, family, stage, found>>

invalidateSession(i) ==
    /\ i \in Present
    /\ session' = Delete(session, {i})
    /\ UNCHANGED <<keyActive, token, linked, family, stage, found>>

(* revokeApiKey, with invalidateAllSessionsForKey.                         *)
revokeApiKey ==
    /\ keyActive /\ keyActive' = FALSE
    /\ session' = Delete(session, Present)
    /\ UNCHANGED <<token, linked, family, stage, found>>

(* cleanupExpiredSessions: every inactive session, and those that have     *)
(* expired or been idle, which one in the making has not.                  *)
cleanupExpiredSessions ==
    \E due \in SUBSET {i \in Active : stage[i] = "made"} :
      LET gone == due \cup (Present \ Active) IN
      /\ gone # {}
      /\ session' = Delete(session, gone)
      /\ token' = WithoutTokens(TokensOf(gone))
      /\ UNCHANGED <<keyActive, linked, family, stage, found>>

(* A token that has expired is deleted by cleanupExpiredRefreshTokens or   *)
(* by the refresh that finds it; invalidateRefreshToken does the same.     *)
DeleteToken(i) ==
    /\ token[i] \in {"unused", "used"}
    /\ token' = WithoutTokens({i})
    /\ UNCHANGED <<keyActive, session, linked, family, stage, found>>

AuthNext ==
    \/ revokeApiKey \/ cleanupExpiredSessions
    \/ \E i \in Ids :
         \/ CreateStart(i) \/ CreateStored(i) \/ CreateDone(i) \/ RefreshDone(i)
         \/ revokeSession(i) \/ revokeOtherSessions(i) \/ ValidateFails(i)
         \/ invalidateSession(i) \/ DeleteToken(i)
    \/ \E c \in Clients :
         \/ RefreshReused(c) \/ RefreshWithout(c) \/ RefreshIdle(c)
         \/ \E i \in Ids : RefreshStart(c, i) \/ RefreshRotate(c, i)

AuthSpec == AuthInit /\ [][AuthNext]_authVars

-----------------------------------------------------------------------------
(* Properties                                                              *)

Usable(i) == token[i] \in {"unused", "detached"}

OneTokenPerFamily ==
    \A i, j \in Ids : i # j /\ Usable(i) /\ Usable(j) => family[i] # family[j]
OneSessionPerFamily ==
    \A i, j \in Active : i # j /\ family[i] # NoId => family[i] # family[j]

(* A refresh token is spent once, however many refreshes found it before   *)
(* the first of them was done: a rotation family never has two tokens that *)
(* can be refreshed, nor two sessions that are active.                     *)
FamiliesDoNotFork == OneTokenPerFamily /\ OneSessionPerFamily

(* A key's sessions exceed the maximum by no more than the sign-ins that   *)
(* were in progress at once, each of which passed the limit before the     *)
(* others were stored.                                                     *)
SessionsBounded == Cardinality(Present) <= MaxSessions + MaxCreating
=============================================================================
