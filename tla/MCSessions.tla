----------------------------- MODULE MCSessions -----------------------------
(* The sessions of an API key and the registry of concurrent sessions,     *)
(* which share no state.  A behaviour explores one of them, and the other  *)
(* stays as it began.                                                      *)
EXTENDS AuthSessions, SessionRegistry, TLC

VARIABLE component

Init ==
    /\ component \in {"sessions", "registry"}
    /\ AuthInit /\ RegistryInit

Next ==
    /\ UNCHANGED component
    /\ \/ component = "sessions" /\ AuthNext /\ UNCHANGED registryVars
       \/ component = "registry" /\ RegistryNext /\ UNCHANGED authVars

Spec == Init /\ [][Next]_<<component, authVars, registryVars>>

(* The variables keep their types: a session and a token are in one of the *)
(* states the code knows, a session of the registry is in one list, and    *)
(* every list in one order.                                                *)
TypeOK == AuthTypeOK /\ RegistryTypeOK

(* Both components are given the same model values, the first some more.   *)
Symmetry == Permutations(Sessions) \cup Permutations(Users)
=============================================================================
