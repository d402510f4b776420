--------------------------- MODULE SessionsProofs ---------------------------
(***************************************************************************)
(* What holds of Sessions for any number of instances, logins, users and   *)
(* password changes: the bound on attempts past the throttle, the fate of  *)
(* sessions of an old password, and the bootstrap of one administrator.    *)
(* AttemptsBounded is inductive with the types; the other two need what    *)
(* Registered and Announcing say of logins and bootstraps under way.       *)
(***************************************************************************)
EXTENDS Sessions, FiniteSetTheorems, TLAPS

\* A login that has found a user belongs to one, whose password is never taken away;
\* so a live session was born with a password.
Registered ==
    /\ \A c \in Clients : pc[c] = "create" => found[c] > 0
    /\ \A c \in Clients : pc[c] \in {"verify", "create"} /\ found[c] > 0 => password[who[c]] > 0
    /\ \A t \in Tokens : state[t] = "live" => born[t] > 0

Announcer(i) == boot[i] = "announce" \/ i \in reported

\* Whoever announces a password, or is about to, has created the administrator.
Announcing ==
    /\ \A i \in Instances : Announcer(i) => password[Admin] > 0
    /\ \A i, j \in Instances : Announcer(i) /\ Announcer(j) => i = j

\* The inductive invariant.
IInv == TypeOK /\ AttemptsBounded /\ Registered /\ NoOldSession /\ Announcing

\* An update of one entry of one of several tables keeps their type.
LEMMA NestedUpdate ==
  ASSUME NEW S, NEW K, NEW V, NEW f \in [S -> [K -> V]], NEW s \in S, NEW k \in K, NEW x \in V
  PROVE  [f EXCEPT ![s][k] = x] \in [S -> [K -> V]]
OBVIOUS

\* Every step keeps the types.
LEMMA TypeStep ==
  ASSUME TypeOK, [Next]_vars
  PROVE  TypeOK'
<1> USE SessionsAssumption DEF SessionsAssumption, TypeOK, Passwords, Hosts
<1>1. ASSUME NEW i \in Instances, Start(i) PROVE TypeOK'
  <2>1. starts[i] + 1 \in 0 .. MaxStarts
    BY <1>1 DEF Start
  <2>2. /\ starts' \in [Instances -> 0 .. MaxStarts]
        /\ boot' \in [Instances -> {"down", "count", "create", "announce", "purge", "serving"}]
    BY <1>1, <2>1 DEF Start
  <2> QED BY <1>1, <2>1, <2>2 DEF Start, sessionVars, throttleVars, loginVars
<1>2. ASSUME NEW i \in Instances, CountUsers(i) PROVE TypeOK'
  BY <1>2 DEF CountUsers, sessionVars, throttleVars, loginVars
<1>3. ASSUME NEW i \in Instances, CreateAdmin(i) PROVE TypeOK'
  <2>1. 0 \in Passwords /\ 1 \in Passwords
    BY <1>3 DEF CreateAdmin
  <2>2. password' \in [Users -> Passwords]
    BY <1>3, <2>1 DEF CreateAdmin
  <2>3. boot' \in [Instances -> {"down", "count", "create", "announce", "purge", "serving"}]
    BY <1>3, <2>1, <2>2 DEF CreateAdmin
  <2> QED BY <1>3, <2>1, <2>2, <2>3 DEF CreateAdmin, sessionVars, throttleVars, loginVars
<1>4. ASSUME NEW i \in Instances, Announce(i) PROVE TypeOK'
  BY <1>4 DEF Announce, sessionVars, throttleVars, loginVars
<1>5. ASSUME NEW i \in Instances, BootstrapFails(i) PROVE TypeOK'
  BY <1>5 DEF BootstrapFails, sessionVars, throttleVars, loginVars
<1>6. ASSUME NEW i \in Instances, StartupPurge(i) PROVE TypeOK'
  BY <1>6 DEF StartupPurge, throttleVars, loginVars, PurgeSessions
<1>7. ASSUME NEW i \in Instances, Stop(i) PROVE TypeOK'
  BY <1>7 DEF Stop, sessionVars
<1>8. ASSUME NEW i \in Instances, NEW k \in Users \X Hosts, LockoutEnds(i, k) PROVE TypeOK'
  BY <1>8 DEF LockoutEnds, sessionVars, loginVars, bootVars
<1>9. ASSUME NEW c \in Clients, Ask(c) PROVE TypeOK'
  <2>1. at[c] \in Instances /\ \A u \in Users : <<u, HostOf[c]>> \in Users \X Hosts
    BY <1>9 DEF Ask
  <2>2. failures' \in [Instances -> [Users \X Hosts -> Nat]]
    <3>1. PICK u \in Users :
              \/ UNCHANGED failures
              \/ failures' = [failures EXCEPT ![at[c]][<<u, HostOf[c]>>] = 0]
      BY <1>9 DEF Ask
    <3>2. /\ failures \in [Instances -> [Users \X Hosts -> Nat]]
          /\ <<u, HostOf[c]>> \in Users \X Hosts
      BY <2>1
    <3>3. [failures EXCEPT ![at[c]][<<u, HostOf[c]>>] = 0]
              \in [Instances -> [Users \X Hosts -> Nat]]
      <4> DEFINE K == Users \X Hosts
                 q == <<u, HostOf[c]>>
      <4>1. failures \in [Instances -> [K -> Nat]] /\ q \in K /\ at[c] \in Instances /\ 0 \in Nat
        BY <2>1, <3>2
      <4> HIDE DEF K, q, TypeOK, Hosts
      <4>2. [failures EXCEPT ![at[c]][q] = 0] \in [Instances -> [K -> Nat]]
        BY ONLY <4>1, NestedUpdate
      <4> QED BY <4>2 DEF K, q
    <3> QED BY <3>1, <3>2, <3>3
  <2>3. who' \in [Clients -> Users]
    BY <1>9, <2>1, <2>2 DEF Ask
  <2>4. pc' \in [Clients -> {"idle", "lookup", "verify", "create"}]
    BY <1>9, <2>1, <2>2, <2>3 DEF Ask
  <2> QED BY <1>9, <2>1, <2>2, <2>3, <2>4 DEF Ask, sessionVars, bootVars
<1>10. ASSUME NEW c \in Clients, LookUp(c) PROVE TypeOK'
  BY <1>10 DEF LookUp, sessionVars, throttleVars, bootVars
<1>11. ASSUME NEW c \in Clients, Reject(c) PROVE TypeOK'
  <2>1. at[c] \in Instances /\ Key(c) \in Users \X Hosts
    BY <1>11 DEF Reject, Key
  <2>2. failures[at[c]][Key(c)] + 1 \in Nat
    <3>1. failures[at[c]] \in [Users \X Hosts -> Nat]
      BY <2>1
    <3> QED BY <2>1, <3>1
  <2>3. failures' \in [Instances -> [Users \X Hosts -> Nat]]
    <3> DEFINE K == Users \X Hosts
               q == Key(c)
               x == failures[at[c]][q] + 1
    <3>1. /\ failures \in [Instances -> [K -> Nat]] /\ q \in K /\ at[c] \in Instances /\ x \in Nat
          /\ failures' = [failures EXCEPT ![at[c]][q] = x]
      BY <1>11, <2>1, <2>2 DEF Reject
    <3> HIDE DEF K, q, x, TypeOK, Hosts
    <3>2. [failures EXCEPT ![at[c]][q] = x] \in [Instances -> [K -> Nat]]
      BY ONLY <3>1, NestedUpdate
    <3> QED BY <3>1, <3>2 DEF K
  <2>4. locked' \in [Instances -> [Users \X Hosts -> BOOLEAN]]
    BY <1>11, <2>1, NestedUpdate DEF Reject, Key
  <2>5. pc' \in [Clients -> {"idle", "lookup", "verify", "create"}]
    BY <1>11, <2>1, <2>2, <2>3, <2>4 DEF Reject, Key
  <2> QED BY <1>11, <2>1, <2>2, <2>3, <2>4, <2>5 DEF Reject, sessionVars, bootVars
<1>12. ASSUME NEW c \in Clients, Accept(c) PROVE TypeOK'
  BY <1>12 DEF Accept, sessionVars, bootVars, Key
<1>13. ASSUME NEW c \in Clients, CreateSession(c) PROVE TypeOK'
  <2>1. who[c] \in Users /\ password[who[c]] \in Passwords
    BY <1>13 DEF CreateSession
  <2>2. pc' \in [Clients -> {"idle", "lookup", "verify", "create"}]
    BY <1>13, <2>1 DEF CreateSession
  <2>3. state' \in [Tokens -> {"absent", "live", "revoked", "expired", "deleted"}]
    BY <1>13, <2>1, <2>2 DEF CreateSession
  <2>4. holder' \in [Tokens -> Users]
    BY <1>13, <2>1, <2>2, <2>3 DEF CreateSession
  <2>5. born' \in [Tokens -> Passwords]
    BY <1>13, <2>1, <2>2, <2>3, <2>4 DEF CreateSession
  <2> QED BY <1>13, <2>1, <2>2, <2>3, <2>4, <2>5 DEF CreateSession, throttleVars, bootVars
<1>14. ASSUME NEW c \in Clients, LoginFails(c) PROVE TypeOK'
  BY <1>14 DEF LoginFails, sessionVars, throttleVars, bootVars
<1>15. ASSUME NEW t \in Tokens, Admit(t) PROVE TypeOK'
  BY <1>15 DEF Admit, sessionVars, throttleVars, loginVars, bootVars
<1>16. ASSUME NEW t \in Tokens, Logout(t) PROVE TypeOK'
  BY <1>16 DEF Logout, throttleVars, loginVars, bootVars
<1>17. ASSUME NEW t \in Tokens, Expire(t) PROVE TypeOK'
  BY <1>17 DEF Expire, throttleVars, loginVars, bootVars
<1>18. ASSUME NEW o \in Operators, FindUser(o) PROVE TypeOK'
  BY <1>18 DEF FindUser, sessionVars, throttleVars, loginVars, bootVars
<1>19. ASSUME NEW o \in Operators, CreateUser(o) PROVE TypeOK'
  <2>1. 0 \in Passwords /\ 1 \in Passwords
    BY <1>19 DEF CreateUser
  <2>2. password' \in [Users -> Passwords]
    BY <1>19, <2>1 DEF CreateUser
  <2>3. cli' \in [Operators -> {"idle", "update", "create", "revoke", "done", "dead", "torn"}]
    BY <1>19, <2>1, <2>2 DEF CreateUser
  <2> QED BY <1>19, <2>1, <2>2, <2>3 DEF CreateUser, sessionVars, throttleVars, loginVars,
                 bootVars
<1>20. ASSUME NEW o \in Operators, UpdatePassword(o) PROVE TypeOK'
  <2>1. password[target[o]] + 1 \in Passwords
    BY <1>20 DEF UpdatePassword
  <2>2. password' \in [Users -> Passwords]
    BY <1>20, <2>1 DEF UpdatePassword
  <2>3. cli' \in [Operators -> {"idle", "update", "create", "revoke", "done", "dead", "torn"}]
    BY <1>20, <2>1, <2>2 DEF UpdatePassword
  <2> QED BY <1>20, <2>1, <2>2, <2>3 DEF UpdatePassword, sessionVars, throttleVars, loginVars,
                 bootVars
<1>21. ASSUME NEW o \in Operators, RevokeSessions(o) PROVE TypeOK'
  BY <1>21 DEF RevokeSessions, throttleVars, loginVars, bootVars
<1>22. ASSUME NEW o \in Operators, OperatorFails(o) PROVE TypeOK'
  BY <1>22 DEF OperatorFails, sessionVars, throttleVars, loginVars, bootVars
<1>23. CASE Purge
  BY <1>23 DEF Purge, throttleVars, loginVars, bootVars, PurgeSessions
<1>24. CASE UNCHANGED vars
  BY <1>24 DEF vars, sessionVars, throttleVars, loginVars, bootVars, Key
<1> QED BY <1>1, <1>2, <1>3, <1>4, <1>5, <1>6, <1>7, <1>8, <1>9, <1>10, <1>11, <1>12,
           <1>13, <1>14, <1>15, <1>16, <1>17, <1>18, <1>19, <1>20, <1>21, <1>22, <1>23,
           <1>24
       DEF Next

\* The threads that are trying are among Clients, of which there are finitely many.
LEMMA TryingBounded ==
  ASSUME NEW T \in SUBSET Clients
  PROVE  /\ IsFiniteSet(T) /\ Cardinality(T) \in Nat
         /\ Cardinality(Clients) \in Nat /\ Cardinality(T) <= Cardinality(Clients)
BY SessionsAssumption, FS_Subset, FS_CardinalityType DEF SessionsAssumption

\* A key nobody joins stays below the bound if its count does not grow.
LEMMA FewerTrying ==
  ASSUME NEW S \in SUBSET Clients, NEW T \in SUBSET S, NEW m \in Nat, NEW n \in 0 .. m,
         m + Cardinality(S) < MaxFailures + Cardinality(Clients)
  PROVE  n + Cardinality(T) < MaxFailures + Cardinality(Clients)
<1>1. /\ IsFiniteSet(S) /\ Cardinality(S) \in Nat /\ Cardinality(Clients) \in Nat
  BY TryingBounded
<1>2. Cardinality(T) \in Nat /\ Cardinality(T) <= Cardinality(S)
  BY <1>1, FS_Subset, FS_CardinalityType
<1> QED BY <1>1, <1>2, SessionsAssumption DEF SessionsAssumption

\* A key below the limit is below the bound, whoever tries it.
LEMMA BelowLimit ==
  ASSUME NEW T \in SUBSET Clients, NEW n \in Nat, n < MaxFailures
  PROVE  n + Cardinality(T) < MaxFailures + Cardinality(Clients)
BY TryingBounded, SessionsAssumption DEF SessionsAssumption

\* What all steps but Ask and Reject do to a key.
LEMMA FewerThanBefore ==
  ASSUME TypeOK, AttemptsBounded,
         \A j \in Instances, l \in Users \X Hosts :
             /\ failures'[j][l] \in 0 .. failures[j][l]
             /\ Trying(j, l)' \subseteq Trying(j, l)
  PROVE  AttemptsBounded'
<1> SUFFICES ASSUME NEW j \in Instances, NEW l \in Users \X Hosts
             PROVE  failures'[j][l] + Cardinality(Trying(j, l)')
                        < MaxFailures + Cardinality(Clients)
  BY DEF AttemptsBounded
<1>1. failures[j][l] \in Nat /\ Trying(j, l) \subseteq Clients
  BY DEF TypeOK, Trying
<1> HIDE DEF Trying
<1> QED BY <1>1, FewerTrying DEF AttemptsBounded

\* Only Ask lets a login in, where the count is below the limit; only Reject counts, and
\* the login it counts is over.
LEMMA AttemptsStep ==
  ASSUME TypeOK, AttemptsBounded, [Next]_vars
  PROVE  AttemptsBounded'
<1>1. ASSUME NEW i \in Instances, Start(i) PROVE AttemptsBounded'
  <2>1. \A j \in Instances, l \in Users \X Hosts :
            /\ failures'[j][l] \in 0 .. failures[j][l]
            /\ Trying(j, l)' \subseteq Trying(j, l)
    BY <1>1 DEF Start, TypeOK, throttleVars, loginVars, sessionVars, Trying, Key
  <2> QED BY <2>1, FewerThanBefore
<1>2. ASSUME NEW i \in Instances, CountUsers(i) PROVE AttemptsBounded'
  <2>1. \A j \in Instances, l \in Users \X Hosts :
            /\ failures'[j][l] \in 0 .. failures[j][l]
            /\ Trying(j, l)' \subseteq Trying(j, l)
    BY <1>2 DEF CountUsers, TypeOK, throttleVars, loginVars, sessionVars, Trying, Key
  <2> QED BY <2>1, FewerThanBefore
<1>3. ASSUME NEW i \in Instances, CreateAdmin(i) PROVE AttemptsBounded'
  <2>1. \A j \in Instances, l \in Users \X Hosts :
            /\ failures'[j][l] \in 0 .. failures[j][l]
            /\ Trying(j, l)' \subseteq Trying(j, l)
    BY <1>3 DEF CreateAdmin, TypeOK, throttleVars, loginVars, sessionVars, Trying, Key
  <2> QED BY <2>1, FewerThanBefore
<1>4. ASSUME NEW i \in Instances, Announce(i) PROVE AttemptsBounded'
  <2>1. \A j \in Instances, l \in Users \X Hosts :
            /\ failures'[j][l] \in 0 .. failures[j][l]
            /\ Trying(j, l)' \subseteq Trying(j, l)
    BY <1>4 DEF Announce, TypeOK, throttleVars, loginVars, sessionVars, Trying, Key
  <2> QED BY <2>1, FewerThanBefore
<1>5. ASSUME NEW i \in Instances, BootstrapFails(i) PROVE AttemptsBounded'
  <2>1. \A j \in Instances, l \in Users \X Hosts :
            /\ failures'[j][l] \in 0 .. failures[j][l]
            /\ Trying(j, l)' \subseteq Trying(j, l)
    BY <1>5 DEF BootstrapFails, TypeOK, throttleVars, loginVars, sessionVars, Trying, Key
  <2> QED BY <2>1, FewerThanBefore
<1>6. ASSUME NEW i \in Instances, StartupPurge(i) PROVE AttemptsBounded'
  <2>1. \A j \in Instances, l \in Users \X Hosts :
            /\ failures'[j][l] \in 0 .. failures[j][l]
            /\ Trying(j, l)' \subseteq Trying(j, l)
    BY <1>6 DEF StartupPurge, TypeOK, throttleVars, loginVars, Trying, Key
  <2> QED BY <2>1, FewerThanBefore
<1>7. ASSUME NEW i \in Instances, Stop(i) PROVE AttemptsBounded'
  <2>1. \A j \in Instances, l \in Users \X Hosts :
            /\ failures'[j][l] \in 0 .. failures[j][l]
            /\ Trying(j, l)' \subseteq Trying(j, l)
    BY <1>7 DEF Stop, TypeOK, sessionVars, Trying, Key
  <2> QED BY <2>1, FewerThanBefore
<1>8. ASSUME NEW i \in Instances, NEW k \in Users \X Hosts, LockoutEnds(i, k)
      PROVE  AttemptsBounded'
  <2>1. \A j \in Instances, l \in Users \X Hosts :
            /\ failures'[j][l] \in 0 .. failures[j][l]
            /\ Trying(j, l)' \subseteq Trying(j, l)
    BY <1>8 DEF LockoutEnds, TypeOK, loginVars, bootVars, sessionVars, Trying, Key
  <2> QED BY <2>1, FewerThanBefore
<1>9. ASSUME NEW c \in Clients, Ask(c) PROVE AttemptsBounded'
  <2> SUFFICES ASSUME NEW j \in Instances, NEW l \in Users \X Hosts
               PROVE  failures'[j][l] + Cardinality(Trying(j, l)')
                          < MaxFailures + Cardinality(Clients)
    BY DEF AttemptsBounded
  <2> PICK u \in Users :
        /\ who' = [who EXCEPT ![c] = u]
        /\ LET q == <<u, HostOf[c]>> IN
           IF failures[at[c]][q] < MaxFailures
           THEN UNCHANGED failures
           ELSE ~locked[at[c]][q] /\ failures' = [failures EXCEPT ![at[c]][q] = 0]
    BY <1>9 DEF Ask
  <2> DEFINE q == <<u, HostOf[c]>>
  <2>1. /\ q \in Users \X Hosts /\ at[c] \in Instances
        /\ \A d \in Clients : at'[d] = at[d]
        /\ \A d \in Clients \ {c} : pc'[d] = pc[d] /\ Key(d)' = Key(d)
        /\ pc[c] = "idle" /\ Key(c)' = q
    BY <1>9 DEF Ask, TypeOK, Hosts, Key
  <2>2. CASE j = at[c] /\ l = q
    <3>1. failures'[j][l] \in Nat /\ failures'[j][l] < MaxFailures
      BY <2>1, <2>2, SessionsAssumption DEF TypeOK, SessionsAssumption
    <3>2. Trying(j, l)' \in SUBSET Clients
      BY DEF Trying
    <3> QED BY <3>1, <3>2, BelowLimit
  <2>3. CASE ~(j = at[c] /\ l = q)
    <3>1. Trying(j, l)' \subseteq Trying(j, l)
      BY <2>1, <2>3 DEF Trying
    <3>2. failures'[j][l] = failures[j][l] /\ failures[j][l] \in Nat
      BY <2>1, <2>3 DEF TypeOK
    <3>3. Trying(j, l) \subseteq Clients
      BY DEF Trying
    <3> QED BY <3>1, <3>2, <3>3, FewerTrying DEF AttemptsBounded
  <2> QED BY <2>2, <2>3
<1>10. ASSUME NEW c \in Clients, LookUp(c) PROVE AttemptsBounded'
  <2>1. \A j \in Instances, l \in Users \X Hosts :
            /\ failures'[j][l] \in 0 .. failures[j][l]
            /\ Trying(j, l)' \subseteq Trying(j, l)
    BY <1>10 DEF LookUp, TypeOK, throttleVars, bootVars, sessionVars, Trying, Key
  <2> QED BY <2>1, FewerThanBefore
<1>11. ASSUME NEW c \in Clients, Reject(c) PROVE AttemptsBounded'
  <2> SUFFICES ASSUME NEW j \in Instances, NEW l \in Users \X Hosts
               PROVE  failures'[j][l] + Cardinality(Trying(j, l)')
                          < MaxFailures + Cardinality(Clients)
    BY DEF AttemptsBounded
  <2>1. /\ pc[c] = "verify" /\ pc' = [pc EXCEPT ![c] = "idle"] /\ UNCHANGED <<at, who>>
        /\ failures' = [failures EXCEPT ![at[c]][Key(c)] = @ + 1]
    BY <1>11 DEF Reject
  <2>2. Trying(j, l)' = Trying(j, l) \ {c}
    BY <2>1 DEF Trying, Key, TypeOK
  <2>3. failures[j][l] \in Nat /\ Trying(j, l) \subseteq Clients
    BY DEF TypeOK, Trying
  <2>4. CASE j = at[c] /\ l = Key(c)
    <3>1. c \in Trying(j, l) /\ failures'[j][l] = failures[j][l] + 1
      BY <2>1, <2>4 DEF Trying, TypeOK
    <3>2. /\ IsFiniteSet(Trying(j, l)) /\ Cardinality(Trying(j, l)) \in Nat
          /\ Cardinality(Clients) \in Nat
      BY <2>3, TryingBounded
    <3>3. Cardinality(Trying(j, l) \ {c}) = Cardinality(Trying(j, l)) - 1
      BY <3>1, <3>2, FS_RemoveElement
    <3> QED BY <2>2, <2>3, <3>1, <3>2, <3>3, SessionsAssumption
            DEF AttemptsBounded, SessionsAssumption
  <2>5. CASE ~(j = at[c] /\ l = Key(c))
    <3>1. failures'[j][l] = failures[j][l]
      BY <2>1, <2>5 DEF TypeOK, Key
    <3> QED BY <2>2, <2>3, <3>1, FewerTrying DEF AttemptsBounded
  <2> QED BY <2>4, <2>5
<1>12. ASSUME NEW c \in Clients, Accept(c) PROVE AttemptsBounded'
  <2>1. \A j \in Instances, l \in Users \X Hosts :
            /\ failures'[j][l] \in 0 .. failures[j][l]
            /\ Trying(j, l)' \subseteq Trying(j, l)
    BY <1>12 DEF Accept, TypeOK, bootVars, sessionVars, Trying, Key
  <2> QED BY <2>1, FewerThanBefore
<1>13. ASSUME NEW c \in Clients, CreateSession(c) PROVE AttemptsBounded'
  <2>1. \A j \in Instances, l \in Users \X Hosts :
            /\ failures'[j][l] \in 0 .. failures[j][l]
            /\ Trying(j, l)' \subseteq Trying(j, l)
    BY <1>13 DEF CreateSession, TypeOK, throttleVars, bootVars, Trying, Key
  <2> QED BY <2>1, FewerThanBefore
<1>14. ASSUME NEW c \in Clients, LoginFails(c) PROVE AttemptsBounded'
  <2>1. \A j \in Instances, l \in Users \X Hosts :
            /\ failures'[j][l] \in 0 .. failures[j][l]
            /\ Trying(j, l)' \subseteq Trying(j, l)
    BY <1>14 DEF LoginFails, TypeOK, throttleVars, bootVars, sessionVars, Trying, Key
  <2> QED BY <2>1, FewerThanBefore
<1>15. ASSUME NEW t \in Tokens, Admit(t) PROVE AttemptsBounded'
  <2>1. \A j \in Instances, l \in Users \X Hosts :
            /\ failures'[j][l] \in 0 .. failures[j][l]
            /\ Trying(j, l)' \subseteq Trying(j, l)
    BY <1>15 DEF Admit, TypeOK, throttleVars, loginVars, bootVars, sessionVars, Trying, Key
  <2> QED BY <2>1, FewerThanBefore
<1>16. ASSUME NEW t \in Tokens, Logout(t) PROVE AttemptsBounded'
  <2>1. \A j \in Instances, l \in Users \X Hosts :
            /\ failures'[j][l] \in 0 .. failures[j][l]
            /\ Trying(j, l)' \subseteq Trying(j, l)
    BY <1>16 DEF Logout, TypeOK, throttleVars, loginVars, bootVars, Trying, Key
  <2> QED BY <2>1, FewerThanBefore
<1>17. ASSUME NEW t \in Tokens, Expire(t) PROVE AttemptsBounded'
  <2>1. \A j \in Instances, l \in Users \X Hosts :
            /\ failures'[j][l] \in 0 .. failures[j][l]
            /\ Trying(j, l)' \subseteq Trying(j, l)
    BY <1>17 DEF Expire, TypeOK, throttleVars, loginVars, bootVars, Trying, Key
  <2> QED BY <2>1, FewerThanBefore
<1>18. ASSUME NEW o \in Operators, FindUser(o) PROVE AttemptsBounded'
  <2>1. \A j \in Instances, l \in Users \X Hosts :
            /\ failures'[j][l] \in 0 .. failures[j][l]
            /\ Trying(j, l)' \subseteq Trying(j, l)
    BY <1>18 DEF FindUser, TypeOK, throttleVars, loginVars, bootVars, sessionVars, Trying, Key
  <2> QED BY <2>1, FewerThanBefore
<1>19. ASSUME NEW o \in Operators, CreateUser(o) PROVE AttemptsBounded'
  <2>1. \A j \in Instances, l \in Users \X Hosts :
            /\ failures'[j][l] \in 0 .. failures[j][l]
            /\ Trying(j, l)' \subseteq Trying(j, l)
    BY <1>19 DEF CreateUser, TypeOK, throttleVars, loginVars, bootVars, sessionVars, Trying, Key
  <2> QED BY <2>1, FewerThanBefore
<1>20. ASSUME NEW o \in Operators, UpdatePassword(o) PROVE AttemptsBounded'
  <2>1. \A j \in Instances, l \in Users \X Hosts :
            /\ failures'[j][l] \in 0 .. failures[j][l]
            /\ Trying(j, l)' \subseteq Trying(j, l)
    BY <1>20 DEF UpdatePassword, TypeOK, throttleVars, loginVars, bootVars, sessionVars,
           Trying, Key
  <2> QED BY <2>1, FewerThanBefore
<1>21. ASSUME NEW o \in Operators, RevokeSessions(o) PROVE AttemptsBounded'
  <2>1. \A j \in Instances, l \in Users \X Hosts :
            /\ failures'[j][l] \in 0 .. failures[j][l]
            /\ Trying(j, l)' \subseteq Trying(j, l)
    BY <1>21 DEF RevokeSessions, TypeOK, throttleVars, loginVars, bootVars, Trying, Key
  <2> QED BY <2>1, FewerThanBefore
<1>22. ASSUME NEW o \in Operators, OperatorFails(o) PROVE AttemptsBounded'
  <2>1. \A j \in Instances, l \in Users \X Hosts :
            /\ failures'[j][l] \in 0 .. failures[j][l]
            /\ Trying(j, l)' \subseteq Trying(j, l)
    BY <1>22 DEF OperatorFails, TypeOK, throttleVars, loginVars, bootVars, sessionVars, Trying,
           Key
  <2> QED BY <2>1, FewerThanBefore
<1>23. CASE Purge
  <2>1. \A j \in Instances, l \in Users \X Hosts :
            /\ failures'[j][l] \in 0 .. failures[j][l]
            /\ Trying(j, l)' \subseteq Trying(j, l)
    BY <1>23 DEF Purge, TypeOK, throttleVars, loginVars, bootVars, Trying, Key
  <2> QED BY <2>1, FewerThanBefore
<1>24. CASE UNCHANGED vars
  <2>1. \A j \in Instances, l \in Users \X Hosts :
            /\ failures'[j][l] \in 0 .. failures[j][l]
            /\ Trying(j, l)' \subseteq Trying(j, l)
    BY <1>24 DEF vars, TypeOK, throttleVars, loginVars, bootVars, sessionVars, Trying, Key
  <2> QED BY <2>1, FewerThanBefore
<1> QED BY <1>1, <1>2, <1>3, <1>4, <1>5, <1>6, <1>7, <1>8, <1>9, <1>10, <1>11, <1>12,
           <1>13, <1>14, <1>15, <1>16, <1>17, <1>18, <1>19, <1>20, <1>21, <1>22, <1>23,
           <1>24
       DEF Next

\* A password that is there stays, so a login past its lookup keeps its user.
LEMMA RegisteredStep ==
  ASSUME TypeOK, Registered, [Next]_vars
  PROVE  Registered'
<1> USE SessionsAssumption DEF SessionsAssumption, TypeOK, Registered, Passwords
<1>1. ASSUME NEW i \in Instances, Start(i) PROVE Registered'
  BY <1>1 DEF Start, sessionVars, throttleVars, loginVars
<1>2. ASSUME NEW i \in Instances, CountUsers(i) PROVE Registered'
  BY <1>2 DEF CountUsers, sessionVars, throttleVars, loginVars
<1>3. ASSUME NEW i \in Instances, CreateAdmin(i) PROVE Registered'
  BY <1>3 DEF CreateAdmin, sessionVars, throttleVars, loginVars
<1>4. ASSUME NEW i \in Instances, Announce(i) PROVE Registered'
  BY <1>4 DEF Announce, sessionVars, throttleVars, loginVars
<1>5. ASSUME NEW i \in Instances, BootstrapFails(i) PROVE Registered'
  BY <1>5 DEF BootstrapFails, sessionVars, throttleVars, loginVars
<1>6. ASSUME NEW i \in Instances, StartupPurge(i) PROVE Registered'
  BY <1>6 DEF StartupPurge, throttleVars, loginVars, PurgeSessions, Spent
<1>7. ASSUME NEW i \in Instances, Stop(i) PROVE Registered'
  BY <1>7 DEF Stop, sessionVars
<1>8. ASSUME NEW i \in Instances, NEW k \in Users \X Hosts, LockoutEnds(i, k) PROVE Registered'
  BY <1>8 DEF LockoutEnds, sessionVars, loginVars, bootVars
<1>9. ASSUME NEW c \in Clients, Ask(c) PROVE Registered'
  BY <1>9 DEF Ask, sessionVars, bootVars
<1>10. ASSUME NEW c \in Clients, LookUp(c) PROVE Registered'
  BY <1>10 DEF LookUp, sessionVars, throttleVars, bootVars
<1>11. ASSUME NEW c \in Clients, Reject(c) PROVE Registered'
  BY <1>11 DEF Reject, sessionVars, bootVars
<1>12. ASSUME NEW c \in Clients, Accept(c) PROVE Registered'
  BY <1>12 DEF Accept, sessionVars, bootVars
<1>13. ASSUME NEW c \in Clients, CreateSession(c) PROVE Registered'
  BY <1>13 DEF CreateSession, throttleVars, bootVars
<1>14. ASSUME NEW c \in Clients, LoginFails(c) PROVE Registered'
  BY <1>14 DEF LoginFails, sessionVars, throttleVars, bootVars
<1>15. ASSUME NEW t \in Tokens, Admit(t) PROVE Registered'
  BY <1>15 DEF Admit, sessionVars, throttleVars, loginVars, bootVars
<1>16. ASSUME NEW t \in Tokens, Logout(t) PROVE Registered'
  BY <1>16 DEF Logout, throttleVars, loginVars, bootVars
<1>17. ASSUME NEW t \in Tokens, Expire(t) PROVE Registered'
  BY <1>17 DEF Expire, throttleVars, loginVars, bootVars
<1>18. ASSUME NEW o \in Operators, FindUser(o) PROVE Registered'
  BY <1>18 DEF FindUser, sessionVars, throttleVars, loginVars, bootVars
<1>19. ASSUME NEW o \in Operators, CreateUser(o) PROVE Registered'
  BY <1>19 DEF CreateUser, sessionVars, throttleVars, loginVars, bootVars
<1>20. ASSUME NEW o \in Operators, UpdatePassword(o) PROVE Registered'
  BY <1>20 DEF UpdatePassword, sessionVars, throttleVars, loginVars, bootVars
<1>21. ASSUME NEW o \in Operators, RevokeSessions(o) PROVE Registered'
  BY <1>21 DEF RevokeSessions, throttleVars, loginVars, bootVars
<1>22. ASSUME NEW o \in Operators, OperatorFails(o) PROVE Registered'
  BY <1>22 DEF OperatorFails, sessionVars, throttleVars, loginVars, bootVars
<1>23. CASE Purge
  BY <1>23 DEF Purge, throttleVars, loginVars, bootVars, PurgeSessions, Spent
<1>24. CASE UNCHANGED vars
  BY <1>24 DEF vars, sessionVars, throttleVars, loginVars, bootVars
<1> QED BY <1>1, <1>2, <1>3, <1>4, <1>5, <1>6, <1>7, <1>8, <1>9, <1>10, <1>11, <1>12,
           <1>13, <1>14, <1>15, <1>16, <1>17, <1>18, <1>19, <1>20, <1>21, <1>22, <1>23,
           <1>24
       DEF Next

\* UpdatePassword is the only step that makes a session old, and the operator is then
\* between its transactions; RevokeSessions, where it leaves them, revokes what is old.
LEMMA OldSessionsStep ==
  ASSUME TypeOK, Registered, NoOldSession, [Next]_vars
  PROVE  NoOldSession'
<1> USE SessionsAssumption DEF SessionsAssumption, TypeOK, Registered, NoOldSession, Passwords
<1>1. ASSUME NEW i \in Instances, Start(i) PROVE NoOldSession'
  BY <1>1 DEF Start, sessionVars, throttleVars, loginVars
<1>2. ASSUME NEW i \in Instances, CountUsers(i) PROVE NoOldSession'
  BY <1>2 DEF CountUsers, sessionVars, throttleVars, loginVars
<1>3. ASSUME NEW i \in Instances, CreateAdmin(i) PROVE NoOldSession'
  BY <1>3 DEF CreateAdmin, sessionVars, throttleVars, loginVars
<1>4. ASSUME NEW i \in Instances, Announce(i) PROVE NoOldSession'
  BY <1>4 DEF Announce, sessionVars, throttleVars, loginVars
<1>5. ASSUME NEW i \in Instances, BootstrapFails(i) PROVE NoOldSession'
  BY <1>5 DEF BootstrapFails, sessionVars, throttleVars, loginVars
<1>6. ASSUME NEW i \in Instances, StartupPurge(i) PROVE NoOldSession'
  BY <1>6 DEF StartupPurge, throttleVars, loginVars, PurgeSessions, Spent
<1>7. ASSUME NEW i \in Instances, Stop(i) PROVE NoOldSession'
  BY <1>7 DEF Stop, sessionVars
<1>8. ASSUME NEW i \in Instances, NEW k \in Users \X Hosts, LockoutEnds(i, k) PROVE NoOldSession'
  BY <1>8 DEF LockoutEnds, sessionVars, loginVars, bootVars
<1>9. ASSUME NEW c \in Clients, Ask(c) PROVE NoOldSession'
  BY <1>9 DEF Ask, sessionVars, bootVars
<1>10. ASSUME NEW c \in Clients, LookUp(c) PROVE NoOldSession'
  BY <1>10 DEF LookUp, sessionVars, throttleVars, bootVars
<1>11. ASSUME NEW c \in Clients, Reject(c) PROVE NoOldSession'
  BY <1>11 DEF Reject, sessionVars, bootVars
<1>12. ASSUME NEW c \in Clients, Accept(c) PROVE NoOldSession'
  BY <1>12 DEF Accept, sessionVars, bootVars
<1>13. ASSUME NEW c \in Clients, CreateSession(c) PROVE NoOldSession'
  BY <1>13 DEF CreateSession, throttleVars, bootVars
<1>14. ASSUME NEW c \in Clients, LoginFails(c) PROVE NoOldSession'
  BY <1>14 DEF LoginFails, sessionVars, throttleVars, bootVars
<1>15. ASSUME NEW t \in Tokens, Admit(t) PROVE NoOldSession'
  BY <1>15 DEF Admit, sessionVars, throttleVars, loginVars, bootVars
<1>16. ASSUME NEW t \in Tokens, Logout(t) PROVE NoOldSession'
  BY <1>16 DEF Logout, throttleVars, loginVars, bootVars
<1>17. ASSUME NEW t \in Tokens, Expire(t) PROVE NoOldSession'
  BY <1>17 DEF Expire, throttleVars, loginVars, bootVars
<1>18. ASSUME NEW o \in Operators, FindUser(o) PROVE NoOldSession'
  BY <1>18 DEF FindUser, sessionVars, throttleVars, loginVars, bootVars
<1>19. ASSUME NEW o \in Operators, CreateUser(o) PROVE NoOldSession'
  <2> SUFFICES ASSUME NEW t \in Tokens, state'[t] = "live", born'[t] < password'[holder'[t]]
               PROVE  \E p \in Operators :
                          target'[p] = holder'[t] /\ cli'[p] \in {"revoke", "torn"}
    OBVIOUS
  <2>1. /\ UNCHANGED <<state, born, holder, target>>
        /\ holder[t] \in Users /\ target[o] \in Users /\ born[t] \in Nat /\ born[t] > 0
    BY <1>19 DEF CreateUser, sessionVars
  <2>2. password'[holder[t]] = password[holder[t]]
    BY <1>19, <2>1 DEF CreateUser
  <2>3. PICK p \in Operators : target[p] = holder[t] /\ cli[p] \in {"revoke", "torn"}
    BY <2>1, <2>2
  <2>4. p # o /\ cli'[p] = cli[p]
    BY <1>19, <2>3 DEF CreateUser
  <2> QED BY <2>1, <2>3, <2>4
<1>20. ASSUME NEW o \in Operators, UpdatePassword(o) PROVE NoOldSession'
  BY <1>20 DEF UpdatePassword, sessionVars, throttleVars, loginVars, bootVars
<1>21. ASSUME NEW o \in Operators, RevokeSessions(o) PROVE NoOldSession'
  BY <1>21 DEF RevokeSessions, throttleVars, loginVars, bootVars
<1>22. ASSUME NEW o \in Operators, OperatorFails(o) PROVE NoOldSession'
  BY <1>22 DEF OperatorFails, sessionVars, throttleVars, loginVars, bootVars
<1>23. CASE Purge
  BY <1>23 DEF Purge, throttleVars, loginVars, bootVars, PurgeSessions, Spent
<1>24. CASE UNCHANGED vars
  BY <1>24 DEF vars, sessionVars, throttleVars, loginVars, bootVars
<1> QED BY <1>1, <1>2, <1>3, <1>4, <1>5, <1>6, <1>7, <1>8, <1>9, <1>10, <1>11, <1>12,
           <1>13, <1>14, <1>15, <1>16, <1>17, <1>18, <1>19, <1>20, <1>21, <1>22, <1>23,
           <1>24
       DEF Next

\* Who creates the administrator finds none, so nobody has announced one.
LEMMA AnnouncingStep ==
  ASSUME TypeOK, Announcing, [Next]_vars
  PROVE  Announcing'
<1> USE SessionsAssumption DEF SessionsAssumption, TypeOK, Announcing, Announcer, Passwords
<1>1. ASSUME NEW i \in Instances, Start(i) PROVE Announcing'
  BY <1>1 DEF Start, sessionVars, throttleVars, loginVars
<1>2. ASSUME NEW i \in Instances, CountUsers(i) PROVE Announcing'
  BY <1>2 DEF CountUsers, sessionVars, throttleVars, loginVars
<1>3. ASSUME NEW i \in Instances, CreateAdmin(i) PROVE Announcing'
  BY <1>3 DEF CreateAdmin, sessionVars, throttleVars, loginVars
<1>4. ASSUME NEW i \in Instances, Announce(i) PROVE Announcing'
  BY <1>4 DEF Announce, sessionVars, throttleVars, loginVars
<1>5. ASSUME NEW i \in Instances, BootstrapFails(i) PROVE Announcing'
  BY <1>5 DEF BootstrapFails, sessionVars, throttleVars, loginVars
<1>6. ASSUME NEW i \in Instances, StartupPurge(i) PROVE Announcing'
  BY <1>6 DEF StartupPurge, throttleVars, loginVars
<1>7. ASSUME NEW i \in Instances, Stop(i) PROVE Announcing'
  BY <1>7 DEF Stop, sessionVars
<1>8. ASSUME NEW i \in Instances, NEW k \in Users \X Hosts, LockoutEnds(i, k) PROVE Announcing'
  BY <1>8 DEF LockoutEnds, sessionVars, loginVars, bootVars
<1>9. ASSUME NEW c \in Clients, Ask(c) PROVE Announcing'
  BY <1>9 DEF Ask, sessionVars, bootVars
<1>10. ASSUME NEW c \in Clients, LookUp(c) PROVE Announcing'
  BY <1>10 DEF LookUp, sessionVars, throttleVars, bootVars
<1>11. ASSUME NEW c \in Clients, Reject(c) PROVE Announcing'
  BY <1>11 DEF Reject, sessionVars, bootVars
<1>12. ASSUME NEW c \in Clients, Accept(c) PROVE Announcing'
  BY <1>12 DEF Accept, sessionVars, bootVars
<1>13. ASSUME NEW c \in Clients, CreateSession(c) PROVE Announcing'
  BY <1>13 DEF CreateSession, throttleVars, bootVars
<1>14. ASSUME NEW c \in Clients, LoginFails(c) PROVE Announcing'
  BY <1>14 DEF LoginFails, sessionVars, throttleVars, bootVars
<1>15. ASSUME NEW t \in Tokens, Admit(t) PROVE Announcing'
  BY <1>15 DEF Admit, sessionVars, throttleVars, loginVars, bootVars
<1>16. ASSUME NEW t \in Tokens, Logout(t) PROVE Announcing'
  BY <1>16 DEF Logout, throttleVars, loginVars, bootVars
<1>17. ASSUME NEW t \in Tokens, Expire(t) PROVE Announcing'
  BY <1>17 DEF Expire, throttleVars, loginVars, bootVars
<1>18. ASSUME NEW o \in Operators, FindUser(o) PROVE Announcing'
  BY <1>18 DEF FindUser, sessionVars, throttleVars, loginVars, bootVars
<1>19. ASSUME NEW o \in Operators, CreateUser(o) PROVE Announcing'
  BY <1>19 DEF CreateUser, sessionVars, throttleVars, loginVars, bootVars
<1>20. ASSUME NEW o \in Operators, UpdatePassword(o) PROVE Announcing'
  BY <1>20 DEF UpdatePassword, sessionVars, throttleVars, loginVars, bootVars
<1>21. ASSUME NEW o \in Operators, RevokeSessions(o) PROVE Announcing'
  BY <1>21 DEF RevokeSessions, throttleVars, loginVars, bootVars
<1>22. ASSUME NEW o \in Operators, OperatorFails(o) PROVE Announcing'
  BY <1>22 DEF OperatorFails, sessionVars, throttleVars, loginVars, bootVars
<1>23. CASE Purge
  BY <1>23 DEF Purge, throttleVars, loginVars, bootVars
<1>24. CASE UNCHANGED vars
  BY <1>24 DEF vars, sessionVars, throttleVars, loginVars, bootVars
<1> QED BY <1>1, <1>2, <1>3, <1>4, <1>5, <1>6, <1>7, <1>8, <1>9, <1>10, <1>11, <1>12,
           <1>13, <1>14, <1>15, <1>16, <1>17, <1>18, <1>19, <1>20, <1>21, <1>22, <1>23,
           <1>24
       DEF Next

\* The strengthened invariant, of which the theorems below are parts (all handlers).
THEOREM Inductive == Spec => []IInv
<1>1. Init => IInv
  <2> SUFFICES ASSUME Init PROVE IInv
    OBVIOUS
  <2>1. TypeOK
    BY SessionsAssumption DEF SessionsAssumption, Init, TypeOK, Passwords
  <2>2. AttemptsBounded
    <3>1. \A i \in Instances, k \in Users \X Hosts :
              failures[i][k] = 0 /\ Trying(i, k) \in SUBSET Clients
      BY DEF Init, Trying
    <3> QED BY <3>1, BelowLimit, SessionsAssumption DEF AttemptsBounded, SessionsAssumption
  <2>3. Registered /\ NoOldSession /\ Announcing
    BY DEF Init, Registered, NoOldSession, Announcing, Announcer
  <2> QED BY <2>1, <2>2, <2>3 DEF IInv
<1>2. IInv /\ [Next]_vars => IInv'
  BY TypeStep, AttemptsStep, RegisteredStep, OldSessionsStep, AnnouncingStep DEF IInv
<1> QED BY <1>1, <1>2, PTL DEF Spec

\* Every reachable state is well typed, for any number of everything.
THEOREM TypeCorrect == Spec => []TypeOK
BY Inductive, PTL DEF IInv

\* Logins that overlap exceed the limit of the throttle by less than their number
\* (_LoginThrottle, login).
THEOREM AttemptsStayBounded == Spec => []AttemptsBounded
BY Inductive, PTL DEF IInv

\* Once a password change is over no session from before it is valid
\* (update_user_password, create_auth_session, login).
THEOREM OldSessionsEnd == Spec => []NoOldSession
BY Inductive, PTL DEF IInv

\* One instance announces an administrator, and that one exists (_bootstrap_admin_user).
THEOREM OneBootstrap == Spec => []BootstrapAgrees
<1>1. IInv => BootstrapAgrees
  BY DEF IInv, Announcing, Announcer, BootstrapAgrees, TypeOK
<1> QED BY <1>1, Inductive, PTL
=============================================================================
