------------------------------- MODULE Sessions -------------------------------
(***************************************************************************)
(* Logins and sessions: login_post and its rate limit (backend/login.py),  *)
(* the signing secret of a user, created on the first login in a database  *)
(* that belongs to another program, and the tokens signed with it          *)
(* (backend/session.py).                                                   *)
(*                                                                         *)
(* login_post is a coroutine that never awaits, so a process serves one    *)
(* login at a time; the other program, the owner of the users table, works *)
(* between any two of its statements.  A password is a number, 0 for none; *)
(* a secret is a number, 0 for none, and every new one is different.       *)
(***************************************************************************)
EXTENDS Naturals, Sequences, FiniteSets, Filtering

CONSTANTS
  Users, Ips,
  Guest,           \* the user id 0 of guests
  MaxFailures,     \* _LOGIN_MAX_FAILURES
  WindowLength,    \* _LOGIN_WINDOW_SECONDS
  MaxAge,          \* SESSION_COOKIE_MAX_AGE
  Passwords,       \* passwords anybody tries or sets
  MaxTime, MaxSecrets, MaxTokens, MaxRestarts   \* bounds

ASSUME GuestAssumption == Guest \notin Users
ASSUME LimitAssumption == /\ MaxFailures \in Nat \ {0}
                          /\ WindowLength \in Nat \ {0}
                          /\ MaxAge \in Nat
ASSUME IpsAssumption == Ips # {}
ASSUME BoundsAssumption == {MaxTime, MaxSecrets, MaxTokens, MaxRestarts} \subseteq Nat
ASSUME PasswordAssumption == Passwords \subseteq Nat \ {0}

VARIABLES
  now,
  config,       \* users.config: password and secret; NoUser if the row is gone
  secrets,      \* secrets made so far
  incarnation,  \* of the process, and with it of _GUEST_SECRET
  failures,     \* _LOGIN_FAILURES
  pc,           \* of login_post: "idle", "secret", "update"
  login,        \* its user and ip
  tokens,       \* tokens issued, by the owner too
  rejected,     \* history: times at which this process rejected credentials, by ip
  written       \* history: the password the owner wrote last

vars == <<now, config, secrets, incarnation, failures, pc, login, tokens, rejected, written>>
process == <<incarnation, failures, pc, login, rejected>>

NoUser == [exists |-> FALSE, password |-> 0, secret |-> 0]
Secret == 0 .. MaxSecrets
Token == [user : Users \cup {Guest}, secret : Nat, issued : Nat]
Idle == [user |-> Guest, ip |-> CHOOSE ip \in Ips : TRUE]

\* Type invariant; the row lock is held by a login that needs a secret.
TypeOK ==
  /\ now \in 0 .. MaxTime
  /\ config \in [Users -> [exists : BOOLEAN, password : Passwords \cup {0}, secret : Secret]]
  /\ secrets \in Secret
  /\ incarnation \in 1 .. 1 + MaxRestarts
  /\ failures \in [Ips -> Seq(0 .. now)]
  /\ pc \in {"idle", "secret", "update"}
  /\ login.user \in Users \cup {Guest} /\ login.ip \in Ips
  /\ pc # "idle" => login.user \in Users
  /\ pc = "update" => config[login.user].exists /\ config[login.user].secret = 0
  /\ tokens \subseteq Token
  /\ rejected \in [Ips -> Seq(0 .. now)]
  /\ written \in [Users -> Passwords \cup {0}]

Init ==
  /\ now = 0
  /\ config = [u \in Users |-> NoUser]
  /\ secrets = 0
  /\ incarnation = 1
  /\ failures = [ip \in Ips |-> <<>>]
  /\ pc = "idle"
  /\ login = Idle
  /\ tokens = {}
  /\ rejected = [ip \in Ips |-> <<>>]
  /\ written = [u \in Users |-> 0]

Tick ==
  /\ now < MaxTime
  /\ now' = now + 1
  /\ UNCHANGED <<config, secrets, process, tokens, written>>

-----------------------------------------------------------------------------
(* Tokens *)

\* make_session_token, with the secret the login was given.
Issue(user, secret) ==
  /\ Cardinality(tokens) < MaxTokens
  /\ tokens' = tokens \cup {[user |-> user, secret |-> secret, issued |-> now]}

\* resolve_session_user_id and verify_session_token.
Accepted(token) ==
  /\ now - token.issued <= MaxAge
  /\ IF token.user = Guest
     THEN token.secret = incarnation
     ELSE LET c == config[token.user]
          IN c.exists /\ c.secret # 0 /\ c.secret = token.secret

-----------------------------------------------------------------------------
(* Rate limit *)

Recent(times) == Entries(times, {k \in DOMAIN times : now - times[k] < WindowLength})

\* _check_login_rate_limit
Limited(ip) == Len(Recent(failures[ip])) >= MaxFailures

\* Rejected credentials, and what _record_login_failure makes of them.
Record(ip) ==
  /\ failures' = [failures EXCEPT ![ip] = Append(Recent(@), now)]
  /\ rejected' = [rejected EXCEPT ![ip] = Append(@, now)]

-----------------------------------------------------------------------------
(* login_post *)

\* Mutant of AfterBlock: a blocked attempt counts as a failure.
AfterBlockAndRecord(times) == Append(Recent(times), now)

AfterBlock(times) == Recent(times)

\* 429: only the list is pruned.
Block(ip) ==
  /\ pc = "idle"
  /\ Limited(ip)
  /\ failures' = [failures EXCEPT ![ip] = AfterBlock(@)]
  /\ UNCHANGED <<now, config, secrets, incarnation, pc, login, tokens, rejected, written>>

\* load_user_config, and the password it holds.  Without a user or a password
\* a dummy hash is compared, and fails.
CheckPassword(ip, user, password) ==
  /\ pc = "idle"
  /\ ~Limited(ip)
  /\ IF config[user].exists /\ config[user].password = password
     THEN /\ pc' = "secret"
          /\ login' = [user |-> user, ip |-> ip]
          /\ failures' = [failures EXCEPT ![ip] = Recent(@)]
          /\ UNCHANGED rejected
     ELSE Record(ip) /\ UNCHANGED <<pc, login>>
  /\ UNCHANGED <<now, config, secrets, incarnation, tokens, written>>

Finish == pc' = "idle" /\ login' = Idle

\* ensure_user_session_secret: SELECT ... FOR UPDATE finds no row.
UserGone ==
  /\ pc = "secret"
  /\ ~config[login.user].exists
  /\ Record(login.ip)
  /\ Finish
  /\ UNCHANGED <<now, config, secrets, incarnation, tokens, written>>

\* There is a secret already.
SecretExists ==
  /\ pc = "secret"
  /\ config[login.user].exists
  /\ config[login.user].secret # 0
  /\ Issue(login.user, config[login.user].secret)
  /\ Finish
  /\ UNCHANGED <<now, config, secrets, incarnation, failures, rejected, written>>

\* There is none: the row stays locked until the UPDATE.
LockRow ==
  /\ pc = "secret"
  /\ config[login.user].exists
  /\ config[login.user].secret = 0
  /\ pc' = "update"
  /\ UNCHANGED <<now, config, secrets, incarnation, failures, login, tokens, rejected, written>>

\* Mutant of StoreSecret: the config this process loaded is written back.
StoreConfig(user, secret) ==
  \E password \in Passwords :
    config' = [config EXCEPT ![user].secret = secret, ![user].password = password]

StoreSecret(user, secret) == config' = [config EXCEPT ![user].secret = secret]

\* jsonb_set replaces the one key; the transaction ends, and the token is issued.
UpdateSecret ==
  /\ pc = "update"
  /\ secrets < MaxSecrets
  /\ secrets' = secrets + 1
  /\ StoreSecret(login.user, secrets + 1)
  /\ Issue(login.user, secrets + 1)
  /\ Finish
  /\ UNCHANGED <<now, incarnation, failures, rejected, written>>

\* The auth database fails: 500, no failure recorded, the lock released.
LoginFails ==
  /\ pc # "idle"
  /\ Finish
  /\ UNCHANGED <<now, config, secrets, incarnation, failures, tokens, rejected, written>>

\* login_guest
LoginGuest ==
  /\ pc = "idle"
  /\ Issue(Guest, incarnation)
  /\ UNCHANGED <<now, config, secrets, process, written>>

\* A crash or a restart: everything of the process is new.
Restart ==
  /\ incarnation <= MaxRestarts
  /\ incarnation' = incarnation + 1
  /\ failures' = [ip \in Ips |-> <<>>]
  /\ rejected' = [ip \in Ips |-> <<>>]
  /\ Finish
  /\ UNCHANGED <<now, config, secrets, tokens, written>>

-----------------------------------------------------------------------------
(* The owner of the users table *)

\* Mutant of Unlocked: nothing is locked.
NeverLocked(user) == TRUE

\* FOR UPDATE: a locked row is not written by others.
Unlocked(user) == ~(pc = "update" /\ login.user = user)

\* Creates a user, or sets a password.
OwnerSetsPassword(user, password) ==
  /\ Unlocked(user)
  /\ config' = [config EXCEPT ![user].exists = TRUE, ![user].password = password]
  /\ written' = [written EXCEPT ![user] = password]
  /\ UNCHANGED <<now, secrets, process, tokens>>

\* A first login at the owner's own site.
OwnerLogsIn(user) ==
  /\ Unlocked(user)
  /\ config[user].exists
  /\ config[user].secret = 0
  /\ secrets < MaxSecrets
  /\ secrets' = secrets + 1
  /\ config' = [config EXCEPT ![user].secret = secrets + 1]
  /\ Issue(user, secrets + 1)
  /\ UNCHANGED <<now, process, written>>

\* Drops the secret, and all sessions signed with it.
OwnerRevokes(user) ==
  /\ Unlocked(user)
  /\ config[user].secret # 0
  /\ config' = [config EXCEPT ![user].secret = 0]
  /\ tokens' = {t \in tokens : t.user # user}
  /\ UNCHANGED <<now, secrets, process, written>>

OwnerDeletes(user) ==
  /\ Unlocked(user)
  /\ config[user].exists
  /\ config' = [config EXCEPT ![user] = NoUser]
  /\ written' = [written EXCEPT ![user] = 0]
  /\ tokens' = {t \in tokens : t.user # user}
  /\ UNCHANGED <<now, secrets, process>>

OwnerStep ==
  \E user \in Users :
    \/ \E password \in Passwords : OwnerSetsPassword(user, password)
    \/ OwnerLogsIn(user) \/ OwnerRevokes(user) \/ OwnerDeletes(user)

LoginStep ==
  \/ \E ip \in Ips : Block(ip)
  \/ \E ip \in Ips, user \in Users, password \in Passwords : CheckPassword(ip, user, password)
  \/ UserGone \/ SecretExists \/ LockRow \/ UpdateSecret \/ LoginFails
  \/ LoginGuest

Next == Tick \/ LoginStep \/ Restart \/ OwnerStep

Spec == Init /\ [][Next]_vars

-----------------------------------------------------------------------------
(* Properties *)

\* "The row lock makes first-login secret creation serialize with the owning
\* auth system" (ensure_user_session_secret): a first login, here or at the
\* owner's site, never takes back a session somebody already has.  Until it
\* is too old, or revoked (then it is not among the tokens any more), a user's
\* session is accepted, across restarts too; a guest's until the next restart.
SessionsHold ==
  \A token \in tokens :
    Accepted(token) <=>
      /\ now - token.issued <= MaxAge
      /\ token.user = Guest => token.secret = incarnation

\* "Login must not write back a stale copy of the external auth system's
\* complete config object": the password is always the one the owner set last.
OwnersWritesAreKept == \A user \in Users : config[user].password = written[user]

Within(times) == Entries(times, {k \in DOMAIN times : now - times[k] < WindowLength})

\* "Failed password attempts are rate-limited to five per IP in a five-minute
\* window" (backend/login.py): although the list is pruned on the way, no window
\* ever holds more rejected attempts; and an address is blocked only while its
\* own rejected passwords fill a window: attempts made meanwhile do not prolong it.
RateLimitIsExact ==
  \A ip \in Ips :
    /\ Len(Within(rejected[ip])) <= MaxFailures
    /\ Limited(ip) => Len(Within(rejected[ip])) = MaxFailures

=============================================================================
