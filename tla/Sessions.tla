------------------------------ MODULE Sessions ------------------------------
(***************************************************************************)
(* Users, login sessions and the login throttle of vision-model-lab: the   *)
(* tables users and auth_sessions (storage.py), the _LoginThrottle of each *)
(* service process, the login and logout handlers (api.py), the first      *)
(* administrator, and the command `vmlab user set-password` (cli.py).      *)
(*                                                                         *)
(* A password is the number of the change that set it.  A clock is an      *)
(* event: a lockout is over, a session has expired.  Left out: hashing,    *)
(* roles, the static token (it has no session), audit rows.                *)
(***************************************************************************)
EXTENDS Naturals, FiniteSets

CONSTANTS
    Instances,     \* service processes
    Clients,       \* threads that serve a login
    HostOf,        \* the client address each of them sees
    Operators,     \* runs of `vmlab user set-password`
    Users, Admin,  \* user names, and DEFAULT_ADMIN_USERNAME
    Tokens,        \* session tokens; bounds how many sessions are created
    MaxFailures,   \* SETTINGS.login_max_failures
    MaxChanges,    \* bound: passwords a user has in turn
    MaxStarts,     \* bound: starts of each instance
    StoreMayFail   \* whether statements of logins and of the bootstrap may fail

ASSUME SessionsAssumption ==
    /\ Admin \in Users
    /\ IsFiniteSet(Clients)
    /\ {MaxFailures, MaxChanges} \subseteq Nat \ {0} /\ MaxStarts \in Nat
    /\ StoreMayFail \in BOOLEAN

Hosts == {HostOf[c] : c \in Clients}
Passwords == 0 .. MaxChanges

VARIABLES
    password,  \* the user's password; 0: there is no such user
    state,     \* of a session row: "absent", "live", "revoked", "expired", "deleted"
    holder,    \* auth_sessions.user_id
    born,      \* the password of the user when the row was inserted
    admitted,  \* the sessions of requests that are past the middleware
    failures,  \* _LoginThrottle._failures of each instance, by user and host: the count
    locked,    \* and whether blocked_until is in the future
    pc,        \* where a login is: "idle", "lookup", "verify", "create"
    at,        \* the instance that serves it
    who,       \* the user name it gives
    found,     \* the password of the user row it has read, 0 for none
    cli,       \* where a set-password is: "idle", "update", "create", "revoke", "done", "dead",
               \* or "torn" when it has died between its two transactions
    target,    \* the user it changes
    boot,      \* of each instance: "down", "count", "create", "announce", "purge", "serving"
    starts,    \* how often it has started
    reported   \* the instances whose bootstrap has announced a password

sessionVars == <<state, holder, born>>
throttleVars == <<failures, locked>>
loginVars == <<pc, at, who, found>>
bootVars == <<boot, starts, reported>>
vars == <<password, sessionVars, admitted, throttleVars, loginVars, cli, target, bootVars>>

TypeOK ==
    /\ password \in [Users -> Passwords]
    /\ state \in [Tokens -> {"absent", "live", "revoked", "expired", "deleted"}]
    /\ holder \in [Tokens -> Users]
    /\ born \in [Tokens -> Passwords]
    /\ admitted \subseteq Tokens
    /\ failures \in [Instances -> [Users \X Hosts -> Nat]]
    /\ locked \in [Instances -> [Users \X Hosts -> BOOLEAN]]
    /\ pc \in [Clients -> {"idle", "lookup", "verify", "create"}]
    /\ at \in [Clients -> Instances] /\ who \in [Clients -> Users]
    /\ found \in [Clients -> Passwords]
    /\ cli \in [Operators -> {"idle", "update", "create", "revoke", "done", "dead", "torn"}]
    /\ target \in [Operators -> Users]
    /\ boot \in [Instances -> {"down", "count", "create", "announce", "purge", "serving"}]
    /\ starts \in [Instances -> 0 .. MaxStarts]
    /\ reported \subseteq Instances

Init ==
    /\ password = [u \in Users |-> 0]
    /\ state = [t \in Tokens |-> "absent"]
    /\ holder = [t \in Tokens |-> Admin]
    /\ born = [t \in Tokens |-> 0]
    /\ admitted = {}
    /\ failures = [i \in Instances |-> [k \in Users \X Hosts |-> 0]]
    /\ locked = [i \in Instances |-> [k \in Users \X Hosts |-> FALSE]]
    /\ pc = [c \in Clients |-> "idle"]
    /\ at \in [Clients -> Instances]
    /\ who = [c \in Clients |-> Admin]
    /\ found = [c \in Clients |-> 0]
    /\ cli = [o \in Operators |-> "idle"]
    /\ target \in [Operators -> Users]
    /\ boot = [i \in Instances |-> "down"]
    /\ starts = [i \in Instances |-> 0]
    /\ reported = {}

-----------------------------------------------------------------------------
(* Startup: the first administrator *)

Spent(s) == s \in {"revoked", "expired"}

\* purge_expired_auth_sessions.
PurgeSessions == state' = [t \in Tokens |-> IF Spent(state[t]) THEN "deleted" ELSE state[t]]

Start(i) ==
    /\ boot[i] = "down" /\ starts[i] < MaxStarts
    /\ boot' = [boot EXCEPT ![i] = "count"]
    /\ starts' = [starts EXCEPT ![i] = @ + 1]
    /\ UNCHANGED <<password, sessionVars, admitted, throttleVars, loginVars, cli, target, reported>>

CountUsers(i) ==
    /\ boot[i] = "count"
    /\ boot' = [boot EXCEPT ![i] = IF \E u \in Users : password[u] > 0 THEN "purge" ELSE "create"]
    /\ UNCHANGED <<password, sessionVars, admitted, throttleVars, loginVars, cli, target, starts, reported>>

\* Mutant: an upsert instead of an insert.
CreateAdminAnyway(i) ==
    /\ boot[i] = "create"
    /\ boot' = [boot EXCEPT ![i] = "announce"]
    /\ password' = [password EXCEPT ![Admin] = 1]
    /\ UNCHANGED <<sessionVars, admitted, throttleVars, loginVars, cli, target, starts, reported>>

\* users.username is UNIQUE: a second INSERT raises, and the bootstrap gives up.
CreateAdmin(i) ==
    /\ boot[i] = "create"
    /\ boot' = [boot EXCEPT ![i] = IF password[Admin] = 0 THEN "announce" ELSE "purge"]
    /\ password' = [password EXCEPT ![Admin] = IF @ = 0 THEN 1 ELSE @]
    /\ UNCHANGED <<sessionVars, admitted, throttleVars, loginVars, cli, target, starts, reported>>

\* The audit row, and the warning that has the generated password.
Announce(i) ==
    /\ boot[i] = "announce"
    /\ boot' = [boot EXCEPT ![i] = "purge"]
    /\ reported' = reported \cup {i}
    /\ UNCHANGED <<password, sessionVars, admitted, throttleVars, loginVars, cli, target, starts>>

\* Any call of the store raises: the bootstrap is not tried again.
BootstrapFails(i) ==
    /\ StoreMayFail /\ boot[i] \in {"count", "create", "announce"}
    /\ boot' = [boot EXCEPT ![i] = "purge"]
    /\ UNCHANGED <<password, sessionVars, admitted, throttleVars, loginVars, cli, target, starts, reported>>

\* The last thing before it serves; an error is ignored.
StartupPurge(i) ==
    /\ boot[i] = "purge"
    /\ boot' = [boot EXCEPT ![i] = "serving"]
    /\ \/ PurgeSessions
       \/ StoreMayFail /\ UNCHANGED state
    /\ UNCHANGED <<password, holder, born, admitted, throttleVars, loginVars, cli, target, starts, reported>>

\* The throttle is in memory, logins under way are gone.
Stop(i) ==
    /\ boot[i] # "down"
    /\ boot' = [boot EXCEPT ![i] = "down"]
    /\ failures' = [failures EXCEPT ![i] = [k \in Users \X Hosts |-> 0]]
    /\ locked' = [locked EXCEPT ![i] = [k \in Users \X Hosts |-> FALSE]]
    /\ pc' = [c \in Clients |-> IF at[c] = i THEN "idle" ELSE pc[c]]
    /\ UNCHANGED <<password, sessionVars, admitted, at, who, found, cli, target, starts, reported>>

-----------------------------------------------------------------------------
(* Logins *)

Key(c) == <<who[c], HostOf[c]>>

\* Mutant: one failure too many is let pass.
AskLate(c) ==
    /\ pc[c] = "idle" /\ boot[at[c]] = "serving"
    /\ pc' = [pc EXCEPT ![c] = "lookup"]
    /\ \E u \in Users :
          /\ who' = [who EXCEPT ![c] = u]
          /\ LET i == at[c]
                 k == <<u, HostOf[c]>> IN
             IF failures[i][k] <= MaxFailures
             THEN UNCHANGED failures
             ELSE ~locked[i][k] /\ failures' = [failures EXCEPT ![i][k] = 0]
    /\ UNCHANGED <<password, sessionVars, admitted, locked, at, found, cli, target, bootVars>>

\* LOGIN_THROTTLE.retry_after lets it pass, and forgets a lockout that is over.
Ask(c) ==
    /\ pc[c] = "idle" /\ boot[at[c]] = "serving"
    /\ pc' = [pc EXCEPT ![c] = "lookup"]
    /\ \E u \in Users :
          /\ who' = [who EXCEPT ![c] = u]
          /\ LET i == at[c]
                 k == <<u, HostOf[c]>> IN
             IF failures[i][k] < MaxFailures
             THEN UNCHANGED failures
             ELSE ~locked[i][k] /\ failures' = [failures EXCEPT ![i][k] = 0]
    /\ UNCHANGED <<password, sessionVars, admitted, locked, at, found, cli, target, bootVars>>

LookUp(c) ==
    /\ pc[c] = "lookup"
    /\ pc' = [pc EXCEPT ![c] = "verify"]
    /\ found' = [found EXCEPT ![c] = password[who[c]]]
    /\ UNCHANGED <<password, sessionVars, admitted, throttleVars, at, who, cli, target, bootVars>>

\* No such user, or another password than the one read.
\* LOGIN_THROTTLE.record_failure starts the lockout time again.
Reject(c) ==
    /\ pc[c] = "verify"
    /\ pc' = [pc EXCEPT ![c] = "idle"]
    /\ failures' = [failures EXCEPT ![at[c]][Key(c)] = @ + 1]
    /\ locked' = [locked EXCEPT ![at[c]][Key(c)] = TRUE]
    /\ UNCHANGED <<password, sessionVars, admitted, at, who, found, cli, target, bootVars>>

Accept(c) ==
    /\ pc[c] = "verify" /\ found[c] > 0
    /\ pc' = [pc EXCEPT ![c] = "create"]
    /\ failures' = [failures EXCEPT ![at[c]][Key(c)] = 0]
    /\ locked' = [locked EXCEPT ![at[c]][Key(c)] = FALSE]
    /\ UNCHANGED <<password, sessionVars, admitted, at, who, found, cli, target, bootVars>>

CreateSession(c) ==
    /\ pc[c] = "create"
    /\ pc' = [pc EXCEPT ![c] = "idle"]
    /\ \E t \in Tokens :
          /\ state[t] = "absent"
          /\ state' = [state EXCEPT ![t] = "live"]
          /\ holder' = [holder EXCEPT ![t] = who[c]]
          /\ born' = [born EXCEPT ![t] = password[who[c]]]
    /\ UNCHANGED <<password, admitted, throttleVars, at, who, found, cli, target, bootVars>>

\* The user row cannot be read, or the session not be written.
LoginFails(c) ==
    /\ StoreMayFail /\ pc[c] \in {"lookup", "create"}
    /\ pc' = [pc EXCEPT ![c] = "idle"]
    /\ UNCHANGED <<password, sessionVars, admitted, throttleVars, at, who, found, cli, target, bootVars>>

LockoutEnds(i, k) ==
    /\ locked[i][k]
    /\ locked' = [locked EXCEPT ![i][k] = FALSE]
    /\ UNCHANGED <<password, sessionVars, admitted, failures, loginVars, cli, target, bootVars>>

-----------------------------------------------------------------------------
(* Sessions *)

\* auth_middleware: get_auth_session returns live rows only.
Admit(t) ==
    /\ state[t] = "live" /\ t \notin admitted
    /\ admitted' = admitted \cup {t}
    /\ UNCHANGED <<password, sessionVars, throttleVars, loginVars, cli, target, bootVars>>

Logout(t) ==
    /\ t \in admitted
    /\ admitted' = admitted \ {t}
    /\ state' = [state EXCEPT ![t] = IF @ = "deleted" THEN @ ELSE "revoked"]
    /\ UNCHANGED <<password, holder, born, throttleVars, loginVars, cli, target, bootVars>>

Expire(t) ==
    /\ state[t] = "live"
    /\ state' = [state EXCEPT ![t] = "expired"]
    /\ UNCHANGED <<password, holder, born, admitted, throttleVars, loginVars, cli, target, bootVars>>

\* In every round of the maintenance of an instance.
Purge ==
    /\ \E i \in Instances : boot[i] = "serving"
    /\ \E t \in Tokens : Spent(state[t])
    /\ PurgeSessions
    /\ UNCHANGED <<password, holder, born, admitted, throttleVars, loginVars, cli, target, bootVars>>

-----------------------------------------------------------------------------
(* vmlab user set-password *)

FindUser(o) ==
    /\ cli[o] = "idle"
    /\ \E next \in IF password[target[o]] > 0 THEN {"update"} ELSE {"create", "done"} :
          cli' = [cli EXCEPT ![o] = next]
    /\ UNCHANGED <<password, sessionVars, admitted, throttleVars, loginVars, target, bootVars>>

\* With --create; the INSERT raises when the name has been taken since.
CreateUser(o) ==
    /\ cli[o] = "create"
    /\ cli' = [cli EXCEPT ![o] = "done"]
    /\ password' = [password EXCEPT ![target[o]] = IF @ = 0 THEN 1 ELSE @]
    /\ UNCHANGED <<sessionVars, admitted, throttleVars, loginVars, target, bootVars>>

\* Mutant: the sessions of the old password are kept.
UpdatePasswordOnly(o) ==
    /\ cli[o] = "update" /\ password[target[o]] < MaxChanges
    /\ cli' = [cli EXCEPT ![o] = "done"]
    /\ password' = [password EXCEPT ![target[o]] = @ + 1]
    /\ UNCHANGED <<sessionVars, admitted, throttleVars, loginVars, target, bootVars>>

\* update_user_password: the password in one transaction ...
UpdatePassword(o) ==
    /\ cli[o] = "update" /\ password[target[o]] < MaxChanges
    /\ cli' = [cli EXCEPT ![o] = "revoke"]
    /\ password' = [password EXCEPT ![target[o]] = @ + 1]
    /\ UNCHANGED <<sessionVars, admitted, throttleVars, loginVars, target, bootVars>>

\* ... and the sessions in another one.
RevokeSessions(o) ==
    /\ cli[o] = "revoke"
    /\ cli' = [cli EXCEPT ![o] = "done"]
    /\ state' = [t \in Tokens |->
                    IF holder[t] = target[o] /\ state[t] \in {"live", "expired"} THEN "revoked" ELSE state[t]]
    /\ UNCHANGED <<password, holder, born, admitted, throttleVars, loginVars, target, bootVars>>

\* It dies, or a statement of its fails.
OperatorFails(o) ==
    /\ cli[o] \in {"update", "create", "revoke"}
    /\ cli' = [cli EXCEPT ![o] = IF @ = "revoke" THEN "torn" ELSE "dead"]
    /\ UNCHANGED <<password, sessionVars, admitted, throttleVars, loginVars, target, bootVars>>

-----------------------------------------------------------------------------
Next ==
    \/ \E i \in Instances :
          \/ Start(i) \/ CountUsers(i) \/ CreateAdmin(i) \/ Announce(i) \/ BootstrapFails(i)
          \/ StartupPurge(i) \/ Stop(i)
          \/ \E k \in Users \X Hosts : LockoutEnds(i, k)
    \/ \E c \in Clients :
          Ask(c) \/ LookUp(c) \/ Reject(c) \/ Accept(c) \/ CreateSession(c) \/ LoginFails(c)
    \/ \E t \in Tokens : Admit(t) \/ Logout(t) \/ Expire(t)
    \/ \E o \in Operators :
          FindUser(o) \/ CreateUser(o) \/ UpdatePassword(o) \/ RevokeSessions(o) \/ OperatorFails(o)
    \/ Purge

Spec == Init /\ [][Next]_vars

-----------------------------------------------------------------------------
(* Properties *)

Trying(i, k) == {c \in Clients : at[c] = i /\ Key(c) = k /\ pc[c] \in {"lookup", "verify"}}

\* The check of the throttle and the recording of a failure are two critical
\* sections with the password hash between them: logins that overlap get past the
\* limit, but never more of them than there are threads beyond the one that reaches it.
AttemptsBounded ==
    \A i \in Instances, k \in Users \X Hosts :
        failures[i][k] + Cardinality(Trying(i, k)) < MaxFailures + Cardinality(Clients)

\* A session that was there when its user's password changed is not valid once the
\* change is over, although password and revocation are two transactions: it is only
\* while an operator is between them, or has died there.
NoOldSession ==
    \A t \in Tokens :
        state[t] = "live" /\ born[t] < password[holder[t]]
            => \E o \in Operators : target[o] = holder[t] /\ cli[o] \in {"revoke", "torn"}

\* Two instances that start on an empty database create one administrator, and only
\* the one whose password is stored announces it.
BootstrapAgrees ==
    /\ \A i, j \in reported : i = j
    /\ reported # {} => password[Admin] > 0
=============================================================================
