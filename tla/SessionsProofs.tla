-------------------------- MODULE SessionsProofs ----------------------------
(***************************************************************************)
(* Proofs about the sessions of the server, those an API key has           *)
(* (AuthSessions) and the registry of concurrent ones (SessionRegistry),   *)
(* for any number of sessions, users, devices, sign-ins and refreshes, and *)
(* any limits.                                                             *)
(***************************************************************************)
EXTENDS MCSessions, FiniteSetTheorems, TLAPS

-----------------------------------------------------------------------------
(***************************************************************************)
(* Sessions and refresh tokens.                                            *)
(*                                                                         *)
(* The argument for the families: of every family one member at most is    *)
(* live, that is, has a token that can be spent, waits for its token, or   *)
(* is an active session. A refresh ends the life of the one it found,      *)
(* token and session both, in the step that begins the next one's.         *)
(*                                                                         *)
(* And for the limit: the sessions there are and those in the making,      *)
(* taken together, grow at the start of a sign-in only, which has just     *)
(* brought the former down to the maximum.                                 *)
(***************************************************************************)

(* Before its token is made an identifier has no token and no family; from *)
(* then on it has a family, which is named by a session that was made.     *)
Stages ==
    \A i \in Ids :
      /\ stage[i] # "made" => token[i] = "none"
      /\ stage[i] \in {"free", "device", "token"} => family[i] = NoId
      /\ stage[i] \in {"rotated", "made"} => family[i] \in Ids
      /\ family[i] \in Ids => stage[family[i]] = "made"

Live(i) ==
    \/ token[i] \in {"unused", "detached"}
    \/ stage[i] = "rotated"
    \/ session[i] = "active"

OneLive ==
    \A i, j \in Ids : i # j /\ family[i] = family[j] /\ family[i] # NoId => ~(Live(i) /\ Live(j))

AuthInv == AuthTypeOK /\ Stages /\ OneLive

-----------------------------------------------------------------------------
(* The operators on sessions and tokens: what they return, and that they   *)
(* bring nothing to life.                                                  *)
LEMMA WithoutTokensType ==
    ASSUME token \in [Ids -> {"none", "unused", "used", "detached"}], NEW gone
    PROVE  /\ WithoutTokens(gone) \in [Ids -> {"none", "unused", "used", "detached"}]
           /\ \A i \in Ids : /\ token[i] = "none" => WithoutTokens(gone)[i] = "none"
                             /\ WithoutTokens(gone)[i] \in {"unused", "detached"} =>
                                  token[i] \in {"unused", "detached"}
  BY DEF WithoutTokens

LEMMA DeactivateType ==
    ASSUME session \in [Ids -> {"none", "active", "inactive", "dropped"}], NEW gone
    PROVE  /\ Deactivate(gone) \in [Ids -> {"none", "active", "inactive", "dropped"}]
           /\ \A i \in Ids : Deactivate(gone)[i] = "active" => session[i] = "active"
  BY DEF Deactivate

LEMMA DeleteType ==
    ASSUME NEW ses \in [Ids -> {"none", "active", "inactive", "dropped"}], NEW gone
    PROVE  /\ Delete(ses, gone) \in [Ids -> {"none", "active", "inactive", "dropped"}]
           /\ \A i \in Ids : Delete(ses, gone)[i] = "active" => ses[i] = "active"
  BY DEF Delete

(* A step that makes no token, and no session active, and leaves families  *)
(* and stages alone, keeps the invariant.                                  *)
LEMMA Fading ==
    ASSUME AuthInv, AuthTypeOK', UNCHANGED <<family, stage>>,
           \A i \in Ids : /\ token[i] = "none" => token'[i] = "none"
                          /\ token'[i] \in {"unused", "detached"} => token[i] \in {"unused", "detached"}
                          /\ session'[i] = "active" => session[i] = "active"
    PROVE  AuthInv'
  BY DEF AuthInv, Stages, OneLive, Live

-----------------------------------------------------------------------------
LEMMA AuthInitInv == AuthInit => AuthInv
  BY SessionsAssumption DEF AuthInit, AuthInv, AuthTypeOK, Stages, OneLive, Live, SessionsAssumption

(* createSession: the new session has no family until its token is made.   *)
LEMMA CreateStartKeeps == ASSUME AuthInv, NEW i \in Ids, CreateStart(i) PROVE AuthInv'
<1>1. PICK typed, oldest, surplus :
        /\ session' = Delete(Deactivate(typed \cup oldest), surplus)
        /\ token' = WithoutTokens(TokensOf(typed \cup oldest))
  BY DEF CreateStart
<1>2. /\ session' \in [Ids -> {"none", "active", "inactive", "dropped"}]
      /\ \A j \in Ids : session'[j] = "active" => session[j] = "active"
  BY <1>1, DeactivateType, DeleteType DEF AuthInv, AuthTypeOK
<1>3. /\ token' \in [Ids -> {"none", "unused", "used", "detached"}]
      /\ \A j \in Ids : /\ token[j] = "none" => token'[j] = "none"
                        /\ token'[j] \in {"unused", "detached"} => token[j] \in {"unused", "detached"}
  BY <1>1, WithoutTokensType DEF AuthInv, AuthTypeOK
<1>4. stage[i] = "free" /\ stage' = [stage EXCEPT ![i] = "device"]
      /\ UNCHANGED <<keyActive, linked, family, found>>
  BY DEF CreateStart
<1>5. AuthTypeOK'
  BY <1>2, <1>3, <1>4 DEF AuthInv, AuthTypeOK
<1>6. Stages'
  BY <1>3, <1>4 DEF AuthInv, AuthTypeOK, Stages
<1>7. OneLive'
  BY <1>2, <1>3, <1>4 DEF AuthInv, AuthTypeOK, OneLive, Live
<1> QED BY <1>5, <1>6, <1>7 DEF AuthInv

LEMMA CreateStoredKeeps == ASSUME AuthInv, NEW i \in Ids, CreateStored(i) PROVE AuthInv'
<1>1. AuthTypeOK'
  BY DEF AuthInv, AuthTypeOK, CreateStored
<1>2. Stages'
  BY DEF AuthInv, AuthTypeOK, CreateStored, Stages
<1>3. family[i] = NoId
  BY DEF AuthInv, Stages, CreateStored
<1>4. \A j \in Ids \ {i} : Live(j)' <=> Live(j)
  BY DEF AuthInv, AuthTypeOK, CreateStored, Live
<1>5. OneLive'
  BY <1>3, <1>4 DEF AuthInv, OneLive, CreateStored
<1> QED BY <1>1, <1>2, <1>5 DEF AuthInv

(* The family it is given has no other member.                             *)
LEMMA CreateDoneKeeps == ASSUME AuthInv, NEW i \in Ids, CreateDone(i) PROVE AuthInv'
<1> USE DEF CreateDone
<1>1. AuthTypeOK'
  BY DEF AuthInv, AuthTypeOK
<1>2. \A j \in Ids : family[j] # i
  BY DEF AuthInv, Stages
<1>3. Stages'
  BY DEF AuthInv, AuthTypeOK, Stages
<1>4. \A j \in Ids \ {i} : (Live(j)' <=> Live(j)) /\ family'[j] = family[j] /\ family'[j] # i
  BY <1>2 DEF AuthInv, AuthTypeOK, Live
<1>5. family'[i] = i
  BY DEF AuthInv, AuthTypeOK
<1>6. OneLive'
  BY <1>4, <1>5 DEF AuthInv, OneLive
<1> QED BY <1>1, <1>3, <1>6 DEF AuthInv

-----------------------------------------------------------------------------
(* refreshSession                                                          *)
LEMMA LookupKeeps ==
    ASSUME AuthInv, NEW c \in Clients,
           RefreshReused(c) \/ RefreshWithout(c) \/ RefreshIdle(c)
             \/ \E i \in Ids : RefreshStart(c, i)
    PROVE  AuthInv'
<1>1. CASE \E i \in Ids : RefreshStart(c, i)
  <2>1. AuthTypeOK'
    BY <1>1 DEF RefreshStart, AuthInv, AuthTypeOK
  <2> QED BY <1>1, <2>1, Fading DEF RefreshStart
<1>2. CASE RefreshReused(c)
  <2>1. /\ token' \in [Ids -> {"none", "unused", "used", "detached"}]
        /\ \A j \in Ids : /\ token[j] = "none" => token'[j] = "none"
                          /\ token'[j] \in {"unused", "detached"} => token[j] \in {"unused", "detached"}
    BY <1>2, WithoutTokensType DEF RefreshReused, AuthInv, AuthTypeOK
  <2>2. AuthTypeOK'
    BY <1>2, <2>1 DEF RefreshReused, Forget, AuthInv, AuthTypeOK
  <2> QED BY <1>2, <2>1, <2>2, Fading DEF RefreshReused
<1>3. CASE RefreshWithout(c)
  <2>1. AuthTypeOK'
    BY <1>3 DEF RefreshWithout, Forget, AuthInv, AuthTypeOK
  <2> QED BY <1>3, <2>1, Fading DEF RefreshWithout
<1>4. CASE RefreshIdle(c)
  <2>1. found[c] \in Ids /\ token[found[c]] # "none"
    BY <1>4 DEF RefreshIdle, Fresh, AuthInv, AuthTypeOK
  <2>2. AuthTypeOK' /\ \A j \in Ids : session'[j] = "active" => session[j] = "active"
    BY <1>4, DeactivateType DEF RefreshIdle, Forget, AuthInv, AuthTypeOK
  <2> QED BY <1>4, <2>1, <2>2, Fading DEF RefreshIdle, AuthInv, AuthTypeOK
<1> QED BY <1>1, <1>2, <1>3, <1>4

(* The session that was refreshed dies, and the one that replaces it lives.*)
LEMMA RotateKeeps == ASSUME AuthInv, NEW c \in Clients, NEW n \in Ids, RefreshRotate(c, n) PROVE AuthInv'
<1>1. PICK old \in Ids : /\ old = found[c] /\ session[old] = "active"
                         /\ token[old] \in {"unused", "detached"}
  BY DEF RefreshRotate, Fresh, AuthInv, AuthTypeOK
<1>2. /\ stage[n] = "free" /\ stage[old] = "made" /\ old # n
      /\ family[old] \in Ids /\ family[old] # NoId
  BY <1>1, SessionsAssumption DEF RefreshRotate, AuthInv, Stages, SessionsAssumption
<1>3. AuthTypeOK'
  BY <1>1 DEF RefreshRotate, Forget, AuthInv, AuthTypeOK
<1>4. family'[n] = family[old] /\ \A i \in Ids \ {n} : family'[i] = family[i]
  BY <1>1 DEF RefreshRotate, AuthInv, AuthTypeOK
<1>5. stage'[n] = "rotated" /\ \A i \in Ids \ {n} : stage'[i] = stage[i]
  BY DEF RefreshRotate, AuthInv, AuthTypeOK
<1>6. token'[old] = "used" /\ \A i \in Ids \ {old} : token'[i] = token[i]
  BY <1>1 DEF RefreshRotate, AuthInv, AuthTypeOK
<1>7. session'[old] = "none" /\ \A i \in Ids \ {old, n} : session'[i] = session[i]
  BY <1>1, <1>2 DEF RefreshRotate, AuthInv, AuthTypeOK
<1>8. Stages'
  <2>1. ASSUME NEW i \in Ids, family'[i] \in Ids PROVE stage'[family'[i]] = "made"
    <3>1. stage[family'[i]] = "made"
      BY <1>2, <1>4, <2>1 DEF AuthInv, Stages
    <3> QED BY <1>2, <1>5, <2>1, <3>1
  <2> QED BY <1>2, <1>4, <1>5, <1>6, <2>1 DEF AuthInv, Stages
<1>9. Live(old) /\ ~Live(old)' /\ \A i \in Ids \ {old, n} : Live(i)' <=> Live(i)
  BY <1>1, <1>2, <1>5, <1>6, <1>7 DEF Live
<1>10. OneLive'
  BY <1>2, <1>4, <1>9 DEF AuthInv, OneLive
<1> QED BY <1>3, <1>8, <1>10 DEF AuthInv

LEMMA RefreshDoneKeeps == ASSUME AuthInv, NEW n \in Ids, RefreshDone(n) PROVE AuthInv'
<1> USE DEF RefreshDone
<1>1. AuthTypeOK'
  BY DEF AuthInv, AuthTypeOK
<1>2. Stages'
  BY DEF AuthInv, AuthTypeOK, Stages
<1>3. Live(n) /\ \A i \in Ids \ {n} : Live(i)' <=> Live(i)
  BY DEF AuthInv, AuthTypeOK, Live
<1>4. OneLive'
  BY <1>3 DEF AuthInv, OneLive
<1> QED BY <1>1, <1>2, <1>4 DEF AuthInv

-----------------------------------------------------------------------------
(* The ends of sessions and tokens.                                        *)
LEMMA EndKeeps ==
    ASSUME AuthInv,
           \/ revokeApiKey \/ cleanupExpiredSessions
           \/ \E i \in Ids : \/ revokeSession(i) \/ revokeOtherSessions(i) \/ ValidateFails(i)
                             \/ invalidateSession(i) \/ DeleteToken(i)
    PROVE  AuthInv'
<1>1. ASSUME NEW S, Revoke(S) PROVE AuthInv'
  <2>1. /\ token' \in [Ids -> {"none", "unused", "used", "detached"}]
        /\ \A j \in Ids : /\ token[j] = "none" => token'[j] = "none"
                          /\ token'[j] \in {"unused", "detached"} => token[j] \in {"unused", "detached"}
    BY <1>1, WithoutTokensType DEF Revoke, AuthInv, AuthTypeOK
  <2>2. AuthTypeOK' /\ \A j \in Ids : session'[j] = "active" => session[j] = "active"
    BY <1>1, <2>1, DeactivateType DEF Revoke, AuthInv, AuthTypeOK
  <2> QED BY <1>1, <2>1, <2>2, Fading DEF Revoke
<1>2. CASE revokeApiKey
  <2>1. AuthTypeOK' /\ \A j \in Ids : session'[j] = "active" => session[j] = "active"
    BY <1>2, DeleteType DEF revokeApiKey, AuthInv, AuthTypeOK
  <2> QED BY <1>2, <2>1, Fading DEF revokeApiKey
<1>3. CASE cleanupExpiredSessions
  <2>1. PICK gone : session' = Delete(session, gone) /\ token' = WithoutTokens(TokensOf(gone))
                    /\ UNCHANGED <<keyActive, linked, family, stage, found>>
    BY <1>3 DEF cleanupExpiredSessions
  <2>2. /\ token' \in [Ids -> {"none", "unused", "used", "detached"}]
        /\ \A j \in Ids : /\ token[j] = "none" => token'[j] = "none"
                          /\ token'[j] \in {"unused", "detached"} => token[j] \in {"unused", "detached"}
    BY <2>1, WithoutTokensType DEF AuthInv, AuthTypeOK
  <2>3. AuthTypeOK' /\ \A j \in Ids : session'[j] = "active" => session[j] = "active"
    BY <2>1, <2>2, DeleteType DEF AuthInv, AuthTypeOK
  <2> QED BY <2>1, <2>2, <2>3, Fading
<1>4. ASSUME NEW i \in Ids, ValidateFails(i) PROVE AuthInv'
  <2>1. AuthTypeOK' /\ \A j \in Ids : session'[j] = "active" => session[j] = "active"
    BY <1>4, DeactivateType DEF ValidateFails, AuthInv, AuthTypeOK
  <2> QED BY <1>4, <2>1, Fading DEF ValidateFails
<1>5. ASSUME NEW i \in Ids, invalidateSession(i) PROVE AuthInv'
  <2>1. AuthTypeOK' /\ \A j \in Ids : session'[j] = "active" => session[j] = "active"
    BY <1>5, DeleteType DEF invalidateSession, AuthInv, AuthTypeOK
  <2> QED BY <1>5, <2>1, Fading DEF invalidateSession
<1>6. ASSUME NEW i \in Ids, DeleteToken(i) PROVE AuthInv'
  <2>1. /\ token' \in [Ids -> {"none", "unused", "used", "detached"}]
        /\ \A j \in Ids : /\ token[j] = "none" => token'[j] = "none"
                          /\ token'[j] \in {"unused", "detached"} => token[j] \in {"unused", "detached"}
    BY <1>6, WithoutTokensType DEF DeleteToken, AuthInv, AuthTypeOK
  <2>2. AuthTypeOK'
    BY <1>6, <2>1 DEF DeleteToken, AuthInv, AuthTypeOK
  <2> QED BY <1>6, <2>1, <2>2, Fading DEF DeleteToken
<1> QED BY <1>1, <1>2, <1>3, <1>4, <1>5, <1>6 DEF revokeSession, revokeOtherSessions

LEMMA AuthStep == AuthInv /\ [AuthNext]_authVars => AuthInv'
<1>1. ASSUME AuthInv, AuthNext PROVE AuthInv'
  BY <1>1, CreateStartKeeps, CreateStoredKeeps, CreateDoneKeeps, LookupKeeps, RotateKeeps,
     RefreshDoneKeeps, EndKeeps DEF AuthNext
<1>2. ASSUME AuthInv, UNCHANGED authVars PROVE AuthInv'
  BY <1>2 DEF authVars, AuthInv, AuthTypeOK, Stages, OneLive, Live
<1> QED BY <1>1, <1>2

LEMMA AuthInvariance == AuthSpec => []AuthInv
  BY AuthInitInv, AuthStep, PTL DEF AuthSpec

(* The variables keep their types.                                         *)
THEOREM AuthTypeCorrect == AuthSpec => []AuthTypeOK
<1>1. AuthInv => AuthTypeOK
  BY DEF AuthInv
<1> QED BY <1>1, AuthInvariance, PTL

(* A refresh token is spent once: no family ever has two tokens that can   *)
(* be refreshed, nor two active sessions.                                  *)
THEOREM NoFamilyForks == AuthSpec => []FamiliesDoNotFork
<1>1. AuthInv => FamiliesDoNotFork
  <2>1. ASSUME AuthInv, NEW i \in Ids, Usable(i) PROVE Live(i) /\ family[i] # NoId
    BY <2>1, SessionsAssumption DEF AuthInv, Stages, Usable, Live, SessionsAssumption
  <2>2. ASSUME NEW i \in Active PROVE i \in Ids /\ Live(i)
    BY <2>2 DEF Active, Live
  <2> QED BY <2>1, <2>2 DEF FamiliesDoNotFork, OneTokenPerFamily, OneSessionPerFamily, AuthInv, OneLive
<1> QED BY <1>1, AuthInvariance, PTL

-----------------------------------------------------------------------------
(* The limit                                                               *)

Crowd == Present \cup Making
CrowdBounded == Cardinality(Crowd) <= MaxSessions + MaxCreating

LEMMA CrowdFinite ==
    /\ IsFiniteSet(Crowd) /\ Cardinality(Crowd) \in Nat
    /\ IsFiniteSet(Present) /\ Cardinality(Present) \in Nat
    /\ IsFiniteSet(Making) /\ Cardinality(Making) \in Nat
<1>1. Crowd \in SUBSET Ids /\ Present \in SUBSET Ids /\ Making \in SUBSET Ids
  BY DEF Crowd, Present, Making
<1> QED BY <1>1, FS_Subset, FS_CardinalityType, SessionsAssumption DEF SessionsAssumption

LEMMA CrowdShrinks == ASSUME CrowdBounded, Crowd' \subseteq Crowd PROVE CrowdBounded'
<1>1. Cardinality(Crowd') <= Cardinality(Crowd) /\ IsFiniteSet(Crowd')
  BY CrowdFinite, FS_Subset
<1>2. Cardinality(Crowd') \in Nat /\ MaxSessions + MaxCreating \in Nat
  BY <1>1, FS_CardinalityType, SessionsAssumption DEF SessionsAssumption
<1> QED BY <1>1, <1>2, CrowdFinite DEF CrowdBounded

(* What is deleted or deactivated does not become present.                 *)
LEMMA DeletePresent ==
    ASSUME NEW ses, NEW gone
    PROVE  {i \in Ids : Delete(ses, gone)[i] \in {"active", "inactive"}}
             = {i \in Ids : ses[i] \in {"active", "inactive"}} \ gone
  BY DEF Delete

LEMMA DeactivatePresent ==
    ASSUME NEW gone
    PROVE  {i \in Ids : Deactivate(gone)[i] \in {"active", "inactive"}} = Present
  BY DEF Deactivate, Present

(* The start of a sign-in leaves no more than the maximum, and one more    *)
(* session in the making.                                                  *)
LEMMA StartBounded == ASSUME AuthInv, NEW i \in Ids, CreateStart(i) PROVE CrowdBounded'
<1>1. PICK surplus \in Surplus : \E gone : session' = Delete(Deactivate(gone), surplus)
  BY DEF CreateStart
<1>2. Present' = Present \ surplus
  <2>1. PICK gone : session' = Delete(Deactivate(gone), surplus)
    BY <1>1
  <2> QED BY <2>1, DeletePresent, DeactivatePresent DEF Present
<1>3. surplus \in SUBSET Present
      /\ Cardinality(surplus) = (IF Cardinality(Present) > MaxSessions
                                 THEN Cardinality(Present) - MaxSessions ELSE 0)
  BY <1>1 DEF Surplus
<1>4. Cardinality(Present') = Cardinality(Present) - Cardinality(surplus)
  <2>1. Present \cap surplus = surplus
    BY <1>3
  <2>2. IsFiniteSet(Present)
    BY CrowdFinite
  <2>3. Cardinality(Present \ surplus) = Cardinality(Present) - Cardinality(Present \cap surplus)
    BY <2>2, FS_Difference
  <2> QED BY <1>2, <2>1, <2>3
<1>5. Cardinality(Present') <= MaxSessions
  BY <1>3, <1>4, CrowdFinite, SessionsAssumption DEF SessionsAssumption
<1>6. Making' = Making \cup {i} /\ Cardinality(Making) < MaxCreating
  BY DEF CreateStart, Making, AuthInv, AuthTypeOK
<1>7. IsFiniteSet(Making') /\ Cardinality(Making') <= MaxCreating
  <2>1. IsFiniteSet(Making) /\ Cardinality(Making) \in Nat
    BY CrowdFinite
  <2>2. /\ IsFiniteSet(Making \cup {i})
        /\ Cardinality(Making \cup {i}) = IF i \in Making THEN Cardinality(Making)
                                          ELSE Cardinality(Making) + 1
    BY <2>1, FS_AddElement
  <2> QED BY <1>6, <2>1, <2>2, SessionsAssumption DEF SessionsAssumption
<1>8. IsFiniteSet(Present')
  BY <1>2, CrowdFinite, FS_Difference
<1>9. Cardinality(Crowd') <= Cardinality(Present') + Cardinality(Making')
  <2>1. Cardinality(Present' \cup Making')
          = Cardinality(Present') + Cardinality(Making') - Cardinality(Present' \cap Making')
    BY <1>7, <1>8, FS_Union
  <2>2. Cardinality(Present' \cap Making') \in Nat
    BY <1>7, <1>8, FS_Subset, FS_CardinalityType
  <2> QED BY <1>7, <1>8, <2>1, <2>2, FS_CardinalityType DEF Crowd
<1>10. Cardinality(Present') \in Nat /\ Cardinality(Making') \in Nat /\ Cardinality(Crowd') \in Nat
  BY <1>7, <1>8, FS_CardinalityType, FS_Union DEF Crowd
<1> QED BY <1>5, <1>7, <1>9, <1>10, SessionsAssumption DEF CrowdBounded, SessionsAssumption

(* A refresh puts one session in the place of another.                     *)
LEMMA RotateBounded ==
    ASSUME AuthInv, CrowdBounded, NEW c \in Clients, NEW n \in Ids, RefreshRotate(c, n)
    PROVE  CrowdBounded'
<1>1. PICK old \in Ids : old = found[c] /\ session[old] = "active"
                        /\ token[old] \in {"unused", "detached"}
  BY DEF RefreshRotate, Fresh, AuthInv, AuthTypeOK
<1>2. old \in Crowd /\ old \notin Making /\ old # n
  BY <1>1 DEF Crowd, Present, Making, RefreshRotate, AuthInv, Stages
<1>3. Crowd' \subseteq (Crowd \ {old}) \cup {n}
  <2>1. Making' \subseteq Making
    BY DEF RefreshRotate, Making, AuthInv, AuthTypeOK
  <2>2. Present' \subseteq (Present \ {old}) \cup {n}
    BY <1>1, <1>2 DEF RefreshRotate, Present, AuthInv, AuthTypeOK
  <2> QED BY <1>2, <2>1, <2>2 DEF Crowd
<1>4. /\ IsFiniteSet((Crowd \ {old}) \cup {n})
      /\ Cardinality((Crowd \ {old}) \cup {n}) <= Cardinality(Crowd)
  <2>1. IsFiniteSet(Crowd \ {old}) /\ Cardinality(Crowd \ {old}) = Cardinality(Crowd) - 1
    BY <1>2, CrowdFinite, FS_RemoveElement
  <2>2. /\ IsFiniteSet((Crowd \ {old}) \cup {n})
        /\ Cardinality((Crowd \ {old}) \cup {n})
             = IF n \in Crowd \ {old} THEN Cardinality(Crowd \ {old}) ELSE Cardinality(Crowd \ {old}) + 1
    BY <2>1, FS_AddElement
  <2> QED BY <2>1, <2>2, CrowdFinite
<1>5. IsFiniteSet(Crowd') /\ Cardinality(Crowd') <= Cardinality((Crowd \ {old}) \cup {n})
  BY <1>3, <1>4, FS_Subset
<1>6. Cardinality(Crowd') \in Nat /\ Cardinality((Crowd \ {old}) \cup {n}) \in Nat
  BY <1>4, <1>5, FS_CardinalityType
<1> QED BY <1>4, <1>5, <1>6, CrowdFinite, SessionsAssumption DEF CrowdBounded, SessionsAssumption

LEMMA OthersBounded ==
    ASSUME AuthInv, CrowdBounded, AuthNext,
           \A i \in Ids : ~CreateStart(i) /\ \A c \in Clients : ~RefreshRotate(c, i)
    PROVE  CrowdBounded'
<1>1. CASE \E i \in Ids : CreateStored(i) \/ CreateDone(i) \/ RefreshDone(i)
  <2>1. Crowd' \subseteq Crowd
    BY <1>1 DEF CreateStored, CreateDone, RefreshDone, Crowd, Present, Making, AuthInv, AuthTypeOK
  <2> QED BY <2>1, CrowdShrinks
<1>2. CASE stage' = stage /\ Present' \subseteq Present
  BY <1>2, CrowdShrinks DEF Crowd, Making
<1>3. ASSUME NEW S, Revoke(S) PROVE stage' = stage /\ Present' \subseteq Present
  BY <1>3, DeactivatePresent DEF Revoke, Present
<1>4. ASSUME NEW i \in Ids, ValidateFails(i) \/ invalidateSession(i) \/ DeleteToken(i)
      PROVE  stage' = stage /\ Present' \subseteq Present
  BY <1>4, DeactivatePresent, DeletePresent DEF ValidateFails, invalidateSession, DeleteToken, Present
<1>5. ASSUME revokeApiKey \/ cleanupExpiredSessions PROVE stage' = stage /\ Present' \subseteq Present
  <2>1. PICK gone : session' = Delete(session, gone) /\ stage' = stage
    <3>1. CASE revokeApiKey
      BY <3>1 DEF revokeApiKey
    <3>2. CASE cleanupExpiredSessions
      BY <3>2 DEF cleanupExpiredSessions
    <3> QED BY <1>5, <3>1, <3>2
  <2> QED BY <2>1, DeletePresent DEF Present
<1>6. ASSUME NEW c \in Clients,
             \/ RefreshReused(c) \/ RefreshWithout(c) \/ RefreshIdle(c)
             \/ \E i \in Ids : RefreshStart(c, i)
      PROVE  stage' = stage /\ Present' \subseteq Present
  BY <1>6, DeactivatePresent DEF RefreshReused, RefreshWithout, RefreshIdle, RefreshStart, Present
<1> QED BY <1>1, <1>2, <1>3, <1>4, <1>5, <1>6 DEF AuthNext, revokeSession, revokeOtherSessions

(* A key has no more sessions than the maximum and the sign-ins that were  *)
(* in progress at once, although each of these passed the limit before.    *)
THEOREM LimitExceededByOverlapOnly == AuthSpec => []SessionsBounded
<1>1. AuthInit => CrowdBounded
  <2>1. AuthInit => Crowd = {}
    BY DEF AuthInit, Crowd, Present, Making
  <2> QED BY <2>1, FS_EmptySet, SessionsAssumption DEF CrowdBounded, SessionsAssumption
<1>2. AuthInv /\ CrowdBounded /\ [AuthNext]_authVars => CrowdBounded'
  <2>1. ASSUME AuthInv, CrowdBounded, AuthNext PROVE CrowdBounded'
    BY <2>1, StartBounded, RotateBounded, OthersBounded
  <2>2. ASSUME CrowdBounded, UNCHANGED authVars PROVE CrowdBounded'
    BY <2>2 DEF authVars, CrowdBounded, Crowd, Present, Making
  <2> QED BY <2>1, <2>2
<1>3. CrowdBounded => SessionsBounded
  <2>1. Cardinality(Present) <= Cardinality(Crowd)
    BY CrowdFinite, FS_Subset DEF Crowd
  <2> QED BY <2>1, CrowdFinite, SessionsAssumption DEF CrowdBounded, SessionsBounded, SessionsAssumption
<1> QED BY <1>1, <1>2, <1>3, AuthInvariance, PTL DEF AuthSpec

-----------------------------------------------------------------------------
(***************************************************************************)
(* The registry.                                                           *)
(*                                                                         *)
(* The argument: every list that is stored is the list that was read, less *)
(* sessions that are taken off their devices in the same step, and in the  *)
(* order it had; the one list that grows gets a session no list has.       *)
(***************************************************************************)

RegistryInv == RegistryTypeOK /\ DeviceCountsLive

LEMMA NoInfoType == NoInfo \in Info
BY RegistryAssumption DEF NoInfo, Info

LEMMA RegistryInitInv == RegistryInit => RegistryInv
BY NoInfoType DEF RegistryInit, RegistryInv, RegistryTypeOK, OneList, InOrder, DeviceCountsLive

(* Lists that only lose sessions, those lost being off the devices.        *)
LEMMA DropInv ==
    ASSUME RegistryInv, NEW r \in [Users -> SUBSET Sessions], NEW gone, Drop(r, gone),
           \A u \in Users : r[u] \subseteq registry[u] /\ registry[u] \ r[u] \subseteq gone
    PROVE  RegistryInv'
<1>1. /\ registry' = r /\ older' = older \cap (AllOf(r) \X AllOf(r)) /\ onDevice' = onDevice \ gone
      /\ info' = [s \in Sessions |-> IF s \in AllOf(r) THEN info[s] ELSE NoInfo]
      /\ Listed' = AllOf(r)
  BY DEF Drop, Among, Kept, Listed, AllOf
<1>2. AllOf(r) \subseteq Listed /\ Listed \ AllOf(r) \subseteq gone /\ AllOf(r) \subseteq Sessions
  BY DEF AllOf, Listed
<1>3. info' \in [Sessions -> Info]
  BY <1>1, NoInfoType DEF RegistryInv, RegistryTypeOK
<1>4. OneList'
  BY <1>1 DEF RegistryInv, RegistryTypeOK, OneList
<1>5. InOrder'
  <2>1. older' \subseteq Listed' \X Listed'
    BY <1>1
  <2>2. ASSUME NEW u \in Users, NEW s \in r[u], NEW t \in r[u], s # t
        PROVE  <<s, t>> \in older' <=> <<t, s>> \notin older'
    <3>1. s \in registry[u] /\ t \in registry[u] /\ s \in AllOf(r) /\ t \in AllOf(r)
      BY DEF AllOf
    <3>2. <<s, t>> \in older <=> <<t, s>> \notin older
      BY <2>2, <3>1 DEF RegistryInv, RegistryTypeOK, InOrder
    <3>3. <<s, t>> \in AllOf(r) \X AllOf(r) /\ <<t, s>> \in AllOf(r) \X AllOf(r)
      BY <3>1
    <3> QED BY <1>1, <3>2, <3>3
  <2> QED BY <1>1, <2>1, <2>2 DEF InOrder
<1>6. DeviceCountsLive'
  <2> SUFFICES ASSUME NEW s \in onDevice' PROVE s \in AllOf(r) /\ info'[s].device # NoDevice
    BY <1>1 DEF DeviceCountsLive
  <2>1. s \in Listed /\ info[s].device # NoDevice
    BY <1>1 DEF RegistryInv, DeviceCountsLive
  <2> QED BY <1>1, <1>2, <2>1
<1> QED BY <1>1, <1>3, <1>4, <1>5, <1>6 DEF RegistryInv, RegistryTypeOK

(* The session that has to go for its device is one of the user's own, and *)
(* not a pinned one.                                                       *)
LEMMA VictimIs ==
    ASSUME NEW u \in Users, NEW d
    PROVE  DeviceVictim(u, d) \subseteq {s \in registry[u] : ~info[s].pinned}
BY DEF DeviceVictim, Unpinned, Oldest

(* The two ways a registration ends: refused, or at the end of the list.   *)
LEMMA RegisterIs ==
    ASSUME NEW u \in Users, NEW s \in Sessions, NEW d, NEW p, NEW pin, NEW strategy,
           registerSession(u, s, d, p, pin, strategy)
    PROVE  LET ousted == DeviceVictim(u, d)
               list == registry[u] \ ousted IN
           /\ s \notin Listed
           /\ \/ Drop([registry EXCEPT ![u] = list], ousted)
              \/ /\ registry' = [registry EXCEPT ![u] = list \cup {s}]
                 /\ older' = Among(AllOf(registry')) \cup (list \X {s})
                 /\ onDevice' \subseteq (onDevice \ ousted) \cup (IF d = NoDevice THEN {} ELSE {s})
                 /\ info' = [Kept(AllOf(registry'), info) EXCEPT
                               ![s] = [device |-> d, priority |-> p, pinned |-> pin,
                                       wasIdle |-> FALSE, due |-> FALSE]]
BY DEF registerSession

LEMMA RegisterInv ==
    ASSUME RegistryInv, NEW u \in Users, NEW s \in Sessions, NEW d \in Devices \cup {NoDevice},
           NEW p \in Priorities, NEW pin \in BOOLEAN, NEW strategy \in Strategies,
           registerSession(u, s, d, p, pin, strategy)
    PROVE  RegistryInv'
<1> DEFINE ousted == DeviceVictim(u, d)
           list == registry[u] \ ousted
           new == [device |-> d, priority |-> p, pinned |-> pin, wasIdle |-> FALSE, due |-> FALSE]
<1>1. /\ registry \in [Users -> SUBSET Sessions] /\ ousted \subseteq registry[u]
      /\ list \subseteq registry[u] /\ registry[u] \ list \subseteq ousted
  BY VictimIs DEF RegistryInv, RegistryTypeOK
<1>2. s \notin Listed
  BY RegisterIs
<1>3. CASE Drop([registry EXCEPT ![u] = list], ousted)
  <2> DEFINE r == [registry EXCEPT ![u] = list]
  <2>1. /\ r \in [Users -> SUBSET Sessions]
        /\ \A v \in Users : r[v] \subseteq registry[v] /\ registry[v] \ r[v] \subseteq ousted
    BY <1>1
  <2> HIDE DEF r, ousted, list
  <2>2. Drop(r, ousted)
    BY <1>3 DEF r
  <2> QED BY <2>1, <2>2, DropInv
<1>4. CASE /\ registry' = [registry EXCEPT ![u] = list \cup {s}]
           /\ older' = Among(AllOf(registry')) \cup (list \X {s})
           /\ onDevice' \subseteq (onDevice \ ousted) \cup (IF d = NoDevice THEN {} ELSE {s})
           /\ info' = [Kept(AllOf(registry'), info) EXCEPT ![s] = new]
  <2>1. /\ registry' \in [Users -> SUBSET Sessions] /\ registry'[u] = list \cup {s}
        /\ \A v \in Users \ {u} : registry'[v] = registry[v]
    BY <1>1, <1>4
  <2>2. Listed' = AllOf(registry')
    BY DEF Listed, AllOf
  <2> HIDE DEF ousted, list
  <2>3. /\ s \in Listed' /\ Listed \ ousted \subseteq Listed' /\ Listed' \subseteq Listed \cup {s}
        /\ list \subseteq Listed'
    BY <1>1, <2>1, <2>2 DEF Listed, AllOf
  <2>4. new \in Info /\ new.device = d
    BY DEF Info
  <2> HIDE DEF new
  <2>5. /\ info' \in [Sessions -> Info] /\ info'[s] = new
        /\ \A t \in Sessions \ {s} : t \in Listed' => info'[t] = info[t]
    <3> DEFINE k == Kept(AllOf(registry'), info)
    <3>1. k \in [Sessions -> Info] /\ \A t \in Sessions : t \in Listed' => k[t] = info[t]
      BY <2>2, NoInfoType DEF Kept, RegistryInv, RegistryTypeOK
    <3>2. info' = [k EXCEPT ![s] = new]
      BY <1>4
    <3> HIDE DEF k
    <3> QED BY <2>4, <3>1, <3>2
  <2>6. OneList'
    <3> SUFFICES ASSUME NEW v \in Users, NEW w \in Users, v # w PROVE registry'[v] \cap registry'[w] = {}
      BY DEF OneList
    <3>1. \A x \in Users : s \notin registry[x]
      BY <1>2 DEF Listed, AllOf
    <3> QED BY <1>1, <2>1, <3>1 DEF RegistryInv, RegistryTypeOK, OneList
  <2>7. InOrder'
    <3>1. older' = (older \cap (Listed' \X Listed')) \cup (list \X {s})
      BY <1>4, <2>2 DEF Among
    <3>2. older' \subseteq Listed' \X Listed'
      BY <2>3, <3>1
    <3>3. \A t : <<t, s>> \notin older /\ <<s, t>> \notin older
      BY <1>2 DEF RegistryInv, RegistryTypeOK, InOrder
    <3>4. ASSUME NEW v \in Users, NEW x \in registry'[v], NEW y \in registry'[v], x # y
          PROVE  <<x, y>> \in older' <=> <<y, x>> \notin older'
      <4>1. x \in Listed' /\ y \in Listed'
        BY <2>2 DEF AllOf
      <4>2. CASE x # s /\ y # s
        <5>1. x \in registry[v] /\ y \in registry[v]
          BY <1>1, <2>1, <4>2
        <5>2. <<x, y>> \in older <=> <<y, x>> \notin older
          BY <3>4, <5>1 DEF RegistryInv, RegistryTypeOK, InOrder
        <5> QED BY <3>1, <4>1, <4>2, <5>2
      <4>3. CASE x = s \/ y = s
        <5>1. v = u
          BY <1>2, <2>1, <4>3 DEF Listed, AllOf
        <5>2. x \in list \cup {s} /\ y \in list \cup {s} /\ s \notin list
          BY <1>1, <1>2, <2>1, <5>1 DEF Listed, AllOf
        <5> QED BY <3>1, <3>3, <3>4, <4>3, <5>2
      <4> QED BY <4>2, <4>3
    <3> QED BY <3>2, <3>4 DEF InOrder
  <2>8. onDevice' \subseteq Sessions /\ DeviceCountsLive'
    <3>1. \A t \in onDevice : t \in Listed /\ info[t].device # NoDevice
      BY DEF RegistryInv, DeviceCountsLive
    <3>2. \A t \in onDevice' : (t \in onDevice \ ousted) \/ (t = s /\ d # NoDevice)
      BY <1>4
    <3>3. Listed \subseteq Sessions
      BY <1>1 DEF Listed, AllOf
    <3>4. ASSUME NEW t \in onDevice' PROVE t \in Sessions /\ t \in Listed' /\ info'[t].device # NoDevice
      <4>1. CASE t = s /\ d # NoDevice
        BY <2>3, <2>4, <2>5, <4>1
      <4>2. CASE t \in onDevice \ ousted /\ t # s
        <5>1. t \in Listed /\ info[t].device # NoDevice /\ t \in Sessions /\ t \in Listed'
          BY <2>3, <3>1, <3>3, <4>2
        <5> QED BY <2>5, <4>2, <5>1
      <4>3. CASE t \in onDevice \ ousted /\ t = s
        BY <1>2, <3>1, <4>3
      <4> QED BY <3>2, <4>1, <4>2, <4>3
    <3> QED BY <3>4 DEF DeviceCountsLive
  <2> QED BY <2>1, <2>5, <2>6, <2>7, <2>8 DEF RegistryInv, RegistryTypeOK
<1> QED BY <1>3, <1>4, RegisterIs

(* A session says something new of itself, but not its device.             *)
LEMMA InfoInv ==
    ASSUME RegistryInv, UNCHANGED <<registry, older, onDevice>>, info' \in [Sessions -> Info],
           \A s \in Sessions : info'[s].device = info[s].device
    PROVE  RegistryInv'
<1>1. Listed' = Listed /\ Listed \subseteq Sessions
  BY DEF Listed, AllOf, RegistryInv, RegistryTypeOK
<1> QED BY <1>1 DEF RegistryInv, RegistryTypeOK, OneList, InOrder, DeviceCountsLive

LEMMA TellInv ==
    ASSUME RegistryInv, NEW s \in Sessions
    PROVE  /\ updateSessionActivity(s) => RegistryInv'
           /\ BecomeDue(s) => RegistryInv'
           /\ \A pin \in BOOLEAN : pinSession(s, pin) => RegistryInv'
<1>1. info \in [Sessions -> Info]
  BY DEF RegistryInv, RegistryTypeOK
<1>2. \A b \in BOOLEAN, i \in Info : /\ [i EXCEPT !.due = b] \in Info /\ [i EXCEPT !.pinned = b] \in Info
                                     /\ [i EXCEPT !.wasIdle = b] \in Info
                                     /\ [i EXCEPT !.due = b].device = i.device
                                     /\ [i EXCEPT !.pinned = b].device = i.device
                                     /\ [i EXCEPT !.wasIdle = b].device = i.device
  BY DEF Info
<1>3. ASSUME updateSessionActivity(s) PROVE RegistryInv'
  <2>1. PICK idle \in BOOLEAN, due \in {FALSE, info[s].due} :
           info' = [info EXCEPT ![s].wasIdle = idle, ![s].due = due]
    BY <1>3 DEF updateSessionActivity
  <2>2. due \in BOOLEAN
    BY <1>1 DEF Info
  <2> DEFINE i == [info[s] EXCEPT !.wasIdle = idle, !.due = due]
  <2>3. i \in Info /\ i.device = info[s].device
    BY <1>1, <2>2 DEF Info
  <2>4. info' = [info EXCEPT ![s] = i]
    BY <1>1, <2>1
  <2> HIDE DEF i
  <2>5. info' \in [Sessions -> Info] /\ \A t \in Sessions : info'[t].device = info[t].device
    BY <1>1, <2>3, <2>4
  <2> QED BY <1>3, <2>5, InfoInv DEF updateSessionActivity
<1>4. ASSUME BecomeDue(s) PROVE RegistryInv'
  <2>1. info' = [info EXCEPT ![s] = [info[s] EXCEPT !.due = TRUE]]
    BY <1>1, <1>4 DEF BecomeDue
  <2>2. info' \in [Sessions -> Info] /\ \A t \in Sessions : info'[t].device = info[t].device
    BY <1>1, <1>2, <2>1
  <2> QED BY <1>4, <2>2, InfoInv DEF BecomeDue
<1>5. ASSUME NEW pin \in BOOLEAN, pinSession(s, pin) PROVE RegistryInv'
  <2>1. info' = [info EXCEPT ![s] = [info[s] EXCEPT !.pinned = pin]]
    BY <1>1, <1>5 DEF pinSession
  <2>2. info' \in [Sessions -> Info] /\ \A t \in Sessions : info'[t].device = info[t].device
    BY <1>1, <1>2, <2>1
  <2> QED BY <1>5, <2>2, InfoInv DEF pinSession
<1> QED BY <1>3, <1>4, <1>5

(* The ways a session ends, each with its device told.                     *)
LEMMA EndInv ==
    ASSUME RegistryInv
    PROVE  /\ cleanupRegistry => RegistryInv'
           /\ \A s \in Sessions : terminateSession(s) => RegistryInv'
           /\ \A u \in Users : terminateAllUserSessions(u) => RegistryInv'
           /\ \A u \in Users, s \in Sessions : terminateAllOtherSessions(u, s) => RegistryInv'
<1>1. registry \in [Users -> SUBSET Sessions]
  BY DEF RegistryInv, RegistryTypeOK
<1>2. ASSUME NEW gone, Drop([u \in Users |-> registry[u] \ gone], gone) PROVE RegistryInv'
  <2> DEFINE r == [u \in Users |-> registry[u] \ gone]
  <2>1. /\ r \in [Users -> SUBSET Sessions]
        /\ \A u \in Users : r[u] \subseteq registry[u] /\ registry[u] \ r[u] \subseteq gone
    BY <1>1
  <2> HIDE DEF r
  <2> QED BY <1>2, <2>1, DropInv DEF r
<1>3. ASSUME NEW u \in Users, NEW rest, NEW gone, rest \subseteq registry[u], registry[u] \ rest \subseteq gone,
             Drop([registry EXCEPT ![u] = rest], gone)
      PROVE  RegistryInv'
  <2> DEFINE r == [registry EXCEPT ![u] = rest]
  <2>1. /\ r \in [Users -> SUBSET Sessions]
        /\ \A v \in Users : r[v] \subseteq registry[v] /\ registry[v] \ r[v] \subseteq gone
    BY <1>1, <1>3
  <2> HIDE DEF r
  <2> QED BY <1>3, <2>1, DropInv DEF r
<1>4. cleanupRegistry => RegistryInv'
  BY <1>2 DEF cleanupRegistry
<1>5. \A s \in Sessions : terminateSession(s) => RegistryInv'
  BY <1>2 DEF terminateSession
<1>6. \A u \in Users : terminateAllUserSessions(u) => RegistryInv'
  BY <1>3 DEF terminateAllUserSessions
<1>7. ASSUME NEW u \in Users, NEW s \in Sessions, terminateAllOtherSessions(u, s) PROVE RegistryInv'
  <2> DEFINE gone == registry[u] \ {s}
             rest == registry[u] \ gone
  <2>1. Drop([registry EXCEPT ![u] = rest], gone)
    BY <1>7 DEF terminateAllOtherSessions
  <2>2. rest \subseteq registry[u] /\ registry[u] \ rest \subseteq gone
    OBVIOUS
  <2> HIDE DEF rest, gone
  <2> QED BY <1>3, <2>1, <2>2
<1> QED BY <1>4, <1>5, <1>6, <1>7

LEMMA RegistryStep == RegistryInv /\ [RegistryNext]_registryVars => RegistryInv'
<1>1. ASSUME RegistryInv, UNCHANGED registryVars PROVE RegistryInv'
  BY <1>1, InfoInv DEF registryVars, RegistryInv, RegistryTypeOK
<1>2. ASSUME RegistryInv, Register PROVE RegistryInv'
  BY <1>2, RegisterInv DEF Register
<1> QED BY <1>1, <1>2, TellInv, EndInv DEF RegistryNext

(* The inductive invariant holds in every state.                           *)
LEMMA RegistryInvariance == RegistrySpec => []RegistryInv
<1> QED BY RegistryInitInv, RegistryStep, PTL DEF RegistrySpec

(* A session is in one list, a list is in one order, and every variable of *)
(* the registry keeps its type.                                            *)
THEOREM RegistryTypeCorrect == RegistrySpec => []RegistryTypeOK
<1>1. RegistryInv => RegistryTypeOK
  BY DEF RegistryInv
<1> QED BY <1>1, RegistryInvariance, PTL

(* The device counts hold no session that is gone, whichever way it ended, *)
(* for any limits and any strategies.                                      *)
THEOREM CountsLive == RegistrySpec => []DeviceCountsLive
<1>1. RegistryInv => DeviceCountsLive
  BY DEF RegistryInv
<1> QED BY <1>1, RegistryInvariance, PTL

(* Which step takes a pinned session out of the lists.                     *)
LEMMA PinnedStep ==
    ASSUME RegistryTypeOK, [RegistryNext]_registryVars, NEW s \in Listed \ Listed', info[s].pinned
    PROVE  Ended
<1>1. PICK w \in Users : s \in registry[w]
  BY DEF Listed, AllOf
<1>2. \A v \in Users : s \notin registry'[v]
  BY DEF Listed, AllOf
<1>3. registry \in [Users -> SUBSET Sessions]
  BY DEF RegistryTypeOK
<1>4. registry' # registry
  BY <1>1, <1>2
<1>5. ~cleanupRegistry
  BY <1>1, <1>2, <1>3 DEF cleanupRegistry, Drop
<1>6. ~Register
  <2> SUFFICES ASSUME NEW u \in Users, NEW x \in Sessions, NEW d, NEW p, NEW pin, NEW strategy,
                      registerSession(u, x, d, p, pin, strategy)
               PROVE  FALSE
    BY DEF Register
  <2>1. s \notin DeviceVictim(u, d)
    BY VictimIs
  <2> DEFINE list == registry[u] \ DeviceVictim(u, d)
  <2>2. PICK rest \in {list, list \cup {x}} : registry' = [registry EXCEPT ![u] = rest]
    BY RegisterIs DEF Drop
  <2>3. s \in registry[u] => s \in rest
    BY <2>1, <2>2
  <2> HIDE DEF list
  <2>4. s \in registry'[w]
    BY <1>1, <1>3, <2>2, <2>3
  <2> QED BY <1>1, <1>2, <2>4
<1> QED BY <1>4, <1>5, <1>6
         DEF RegistryNext, registryVars, updateSessionActivity, BecomeDue, pinSession, Ended

(* A pinned session is ended by an explicit termination only.              *)
THEOREM PinnedSessionStays == RegistrySpec => PinnedStays
<1> DEFINE Stays == \A s \in Listed \ Listed' : info[s].pinned => Ended
<1>1. RegistryTypeOK /\ [RegistryNext]_registryVars => Stays
  BY PinnedStep
<1>2. RegistrySpec => [][Stays]_registryVars
  <2> HIDE DEF Stays
  <2> QED BY <1>1, RegistryTypeCorrect, PTL DEF RegistrySpec
<1> QED BY <1>2 DEF PinnedStays

-----------------------------------------------------------------------------
(***************************************************************************)
(* Both.                                                                   *)
(***************************************************************************)

(* Whichever of the two is explored, the other stays as it is: the sum     *)
(* implements the specification of both.                                   *)
THEOREM SessionComponents == Spec => AuthSpec /\ RegistrySpec
<1>1. Init => AuthInit /\ RegistryInit
  BY DEF Init
<1>2. [Next]_<<component, authVars, registryVars>> =>
        [AuthNext]_authVars /\ [RegistryNext]_registryVars
  BY DEF Next
<1> QED BY <1>1, <1>2, PTL DEF Spec, AuthSpec, RegistrySpec

(* Every variable of the sessions and of their registry keeps its type.    *)
THEOREM SessionsTypeCorrect == Spec => []TypeOK
<1>1. AuthTypeOK /\ RegistryTypeOK => TypeOK
  BY DEF TypeOK
<1> QED BY <1>1, SessionComponents, AuthTypeCorrect, RegistryTypeCorrect, PTL
=============================================================================
