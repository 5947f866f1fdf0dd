----------------------------- MODULE Deployment -----------------------------
(***************************************************************************)
(* The demo from outside the API: the start script takes all containers    *)
(* down and makes them anew (scripts/project30_demo.ps1, docker-compose);  *)
(* the API migrates and serves (Migrations); bootstrap_openwebui.py writes *)
(* the demo accounts and the pipe, with the secret it shares with the API, *)
(* into webui.db, in one transaction; and the pipe asks the API            *)
(* (openwebui_functions, routes/openwebui.py).  The databases outlive the  *)
(* containers, and a container keeps the settings it was made with.        *)
(***************************************************************************)
EXTENDS Migrations

CONSTANTS
  Questions,   \* requests of the pipe
  Secrets,     \* values of OPENWEBUI_SHARED_SECRET
  Emails,      \* addresses of accounts
  FirstEnv,    \* .env as it is written first: [secret, email]
  Original,    \* the content of a migration file before it is edited
  None,        \* no secret, email or session
  MaxEdits     \* bound: edits of .env, of the release and of accounts

ASSUME FirstAssumption ==
  FirstEnv \in [secret : Secrets, email : Emails] /\ Original \in Contents

ASSUME NoneAssumption == None \notin Secrets \cup Emails \cup Sessions

VARIABLES
  env,        \* .env: the secret and the email of the demo account
  container,  \* the API's and the bootstrap's container: [image, secret, email]
  api,        \* the session of the API's container
  stack,      \* the containers exist
  boot,       \* the bootstrap's container
  valves,     \* webui.db: the secret in the pipe's valves
  account,    \* webui.db: the email of the account with the fixed id
  members,    \* webui.db: the emails of the other accounts
  question,   \* [state, secret, after]: sent with a secret, after the bootstrap
  edits,      \* bound
  renamed     \* history: an email was changed, in .env or in Open WebUI

webui == <<valves, account, members>>
settings == <<env, edits, renamed>>
demoVars == <<container, api, stack, boot>>
vars == <<migrationVars, settings, demoVars, webui, question>>

Idle == [state |-> "idle", secret |-> None, after |-> FALSE]

\* PostgreSQL is empty or has loaded the seed, which has the files of the release;
\* an edit before the first start makes it one of an earlier release.
Init ==
  /\ MigrationInit /\ \E v \in Versions : release[v] # Missing
  /\ \A v \in Versions : release[v] \in {Original, Missing}
  /\ IF ledger THEN recorded = release ELSE Files(recorded) = {}
  /\ env = FirstEnv
  /\ container = [image |-> release, secret |-> None, email |-> None]
  /\ api = None /\ stack = "down" /\ boot = "none"
  /\ valves = None /\ account = None /\ members = {}
  /\ question = [q \in Questions |-> Idle]
  /\ edits = 0 /\ renamed = FALSE

-----------------------------------------------------------------------------
(* The operator and the users of Open WebUI *)

Edit == edits < MaxEdits /\ edits' = edits + 1

ChangeRelease ==
  /\ Edit /\ EditRelease
  /\ UNCHANGED <<env, renamed, demoVars, webui, question>>

ChangeSecret ==
  /\ Edit
  /\ \E secret \in Secrets \ {env.secret} : env' = [env EXCEPT !.secret = secret]
  /\ UNCHANGED <<migrationVars, renamed, demoVars, webui, question>>

ChangeConfiguredEmail ==
  /\ Edit
  /\ \E email \in Emails \ {env.email} : env' = [env EXCEPT !.email = email]
  /\ renamed' = TRUE
  /\ UNCHANGED <<migrationVars, demoVars, webui, question>>

\* Open WebUI keeps emails apart.
FreeEmails == Emails \ (members \cup {account})

Register ==
  /\ stack = "up" /\ Edit
  /\ \E email \in FreeEmails : members' = members \cup {email}
  /\ UNCHANGED <<migrationVars, env, renamed, demoVars, valves, account, question>>

ChangeAccountEmail ==
  /\ stack = "up" /\ account # None /\ Edit
  /\ \E email \in FreeEmails : account' = email
  /\ renamed' = TRUE
  /\ UNCHANGED <<migrationVars, env, demoVars, valves, members, question>>

-----------------------------------------------------------------------------
(* start-demo, stop-demo *)

Ended(how) == [state |-> how, secret |-> None, after |-> FALSE]

Live == {"sent", "working", "abandoned"}

EndQuestions ==
  question' = [q \in Questions |->
                 IF question[q].state \in Live THEN Ended("unreachable") ELSE question[q]]

\* Reset-StaleComposeState at a start, or stop: the volumes stay.
Down ==
  /\ stack = "up" /\ Shutdown
  /\ stack' = "down" /\ boot' = "none" /\ EndQuestions
  /\ UNCHANGED <<settings, container, api, webui>>

\* docker compose up.
Up(s) ==
  /\ stack = "down" /\ StartSession(s, release)
  /\ container' = [image |-> release, secret |-> env.secret, email |-> env.email]
  /\ api' = s /\ stack' = "up" /\ boot' = "waiting"
  /\ UNCHANGED <<settings, webui, question>>

-----------------------------------------------------------------------------
(* The API's container *)

Migrate ==
  /\ stack = "up" /\ (MigrationStep(api) \/ MigrationFails(api))
  /\ UNCHANGED <<settings, demoVars, webui, question>>

\* A crash of the container, which nothing starts again by itself.
ApiDies ==
  /\ stack = "up" /\ Kill(api)
  /\ question' = [q \in Questions |->
                    IF question[q].state \in {"working", "abandoned"}
                    THEN Ended("unreachable") ELSE question[q]]
  /\ UNCHANGED <<settings, demoVars, webui>>

\* Somebody starts it again; its old session may linger in PostgreSQL.
RestartApi(s) ==
  /\ stack = "up" /\ pc[api] \in {"failed", "lingering", "stopped"}
  /\ StartSession(s, container.image) /\ api' = s
  /\ UNCHANGED <<settings, container, stack, boot, webui, question>>

SessionEnds(s) ==
  /\ Release(s)
  /\ UNCHANGED <<settings, demoVars, webui, question>>

-----------------------------------------------------------------------------
(* bootstrap_openwebui.py *)

MutantExists(email) == FALSE

\* ensure_user finds an account by its email, whatever its id.
Exists(email) == email \in members \cup {account}

MutantSetValves(secret) == valves' = IF valves = None THEN secret ELSE valves

\* upsert_pipe_function, upsert_tool
SetValves(secret) == valves' = secret

\* One transaction, which commits at its end.
Bootstrap ==
  /\ boot = "waiting"
  /\ Exists(container.email) \/ account = None
  /\ account' = IF Exists(container.email) THEN account ELSE container.email
  /\ SetValves(container.secret)
  /\ boot' = "done"
  /\ UNCHANGED <<migrationVars, settings, container, api, stack, members, question>>

\* INSERT INTO "user": there is a user with the fixed id, under another email.
BootstrapClashes ==
  /\ boot = "waiting"
  /\ ~Exists(container.email) /\ account # None
  /\ boot' = "clashed"
  /\ UNCHANGED <<migrationVars, settings, container, api, stack, webui, question>>

\* The database is not ready, has another schema or is locked.
BootstrapFails ==
  /\ boot = "waiting" /\ boot' = "failed"
  /\ UNCHANGED <<migrationVars, settings, container, api, stack, webui, question>>

-----------------------------------------------------------------------------
(* A question *)

End(q, how) == question' = [question EXCEPT ![q] = Ended(how)]

Becomes(q, state) ==
  question' = [question EXCEPT ![q] = [state |-> state, secret |-> None, after |-> @.after]]

\* The pipe is there to be chosen once a bootstrap has committed.
Ask(q) ==
  /\ question[q].state = "idle" /\ stack = "up" /\ valves # None
  /\ question' = [question EXCEPT ![q] = [state |-> "sent", secret |-> valves, after |-> boot = "done"]]
  /\ UNCHANGED <<migrationVars, settings, demoVars, webui>>

\* openwebui_ask: without a server there is no connection; _require_transport_token.
Arrive(q) ==
  /\ question[q].state = "sent"
  /\ \/ pc[api] # "serving" /\ End(q, "unreachable")
     \/ pc[api] = "serving" /\ question[q].secret # container.secret /\ Becomes(q, "refused")
     \/ pc[api] = "serving" /\ question[q].secret = container.secret /\ Becomes(q, "working")
  /\ UNCHANGED <<migrationVars, settings, demoVars, webui>>

\* request_timeout_seconds: the pipe gives up, the graph goes on.
GiveUp(q) ==
  /\ \/ question[q].state = "sent" /\ End(q, "unreachable")
     \/ question[q].state = "working" /\ Becomes(q, "abandoned")
  /\ UNCHANGED <<migrationVars, settings, demoVars, webui>>

\* The graph ends: with an answer, or with an error or without an answer.
Respond(q) ==
  /\ \/ question[q].state = "working" /\ \E end \in {"answered", "unreachable"} : End(q, end)
     \/ question[q].state = "abandoned" /\ End(q, "unreachable")
  /\ UNCHANGED <<migrationVars, settings, demoVars, webui>>

-----------------------------------------------------------------------------

Next ==
  \/ ChangeRelease \/ ChangeSecret \/ ChangeConfiguredEmail \/ Register \/ ChangeAccountEmail
  \/ Down \/ Migrate \/ ApiDies \/ Bootstrap \/ BootstrapClashes \/ BootstrapFails
  \/ \E s \in Sessions : Up(s) \/ RestartApi(s) \/ SessionEnds(s)
  \/ \E q \in Questions : Ask(q) \/ Arrive(q) \/ GiveUp(q) \/ Respond(q)

\* A start goes on while nothing blocks it, and PostgreSQL notices in time that
\* a client has gone.
Fairness ==
  /\ WF_vars(stack = "up" /\ MigrationStep(api) /\ UNCHANGED <<settings, demoVars, webui, question>>)
  /\ \A s \in Sessions : WF_vars(SessionEnds(s))

Spec == Init /\ [][Next]_vars /\ Fairness

-----------------------------------------------------------------------------
(* Properties *)

\* A question asked after the bootstrap of a start was done is never refused
\* for its secret, though secrets change between starts and the API, the
\* bootstrap's transaction and the pipe take theirs from .env at other times.
RefusedOnlyBeforeBootstrap ==
  \A q \in Questions : question[q].state = "refused" => ~question[q].after

\* The bootstrap stops at an account it cannot insert only if an email was
\* changed since the demo was set up: then every start fails there.
ClashesNeedRenaming == boot = "clashed" => renamed

\* Every start of the API ends its migrations, served or failed: it never waits
\* for ever for the locks of an earlier one.
StartsEnd == \A s \in Sessions : pc[s] \in Migrating ~> pc[s] \notin Migrating

=============================================================================
