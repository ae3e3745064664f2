------------------------------ MODULE WebSettings ------------------------------
(***************************************************************************)
(* What the dashboard lets its user change: the password                   *)
(* (app/web/routes/settings.py) and the remote hosts                       *)
(* (app/web/routes/remote.py), kept in memory and in the YAML file the     *)
(* process was started with (app/config.py), and the sessions signed with  *)
(* them (app/web/security.py).  These handlers are plain functions, so     *)
(* they run in a thread pool, and each of their steps is one here.         *)
(* Signing out only deletes the browser's cookie, which is no step of the  *)
(* server.                                                                 *)
(***************************************************************************)
EXTENDS Integers, FiniteSets

CONSTANTS
    Threads,     \* handlers that may run at once
    Passwords,
    HostNames,
    Unset,       \* None, an empty password
    SessionAge,  \* 86400 seconds, in ticks
    MaxLogins, MaxSaves, MaxBoots, SettingsHorizon

ASSUME SettingsAssumption ==
    /\ Unset \notin Passwords
    /\ {SessionAge, MaxLogins, MaxSaves, MaxBoots, SettingsHorizon} \subseteq Nat

VARIABLES
    file,       \* the configuration file: its settings, or Absent
    live,       \* app.state.settings
    threads,    \* handler -> where it is and what it has in hand
    tokens,     \* session cookies the server has issued
    wallClock,  \* time.time()
    disturbed,  \* since the last boot, a save overlapped another or did not complete
    saves, boots

settingsVars == << file, live, threads, tokens, wallClock, disturbed, saves, boots >>
counters == << saves, boots >>

Config == [auth : BOOLEAN, password : Passwords \cup {Unset}, secret : BOOLEAN, hosts : SUBSET HostNames]

\* What a missing key stands for, and what an empty file says.
Defaults == [auth |-> FALSE, password |-> Unset, secret |-> FALSE, hosts |-> {}]
Absent == [exists |-> FALSE, data |-> Defaults]
Written(config) == [exists |-> TRUE, data |-> config]
Empty == Written(Defaults)

\* load_settings
Loaded == file.data

Change(kind, config) == [kind |-> kind, config |-> config]
Waiting == [pc |-> "idle", change |-> Change("none", Defaults), data |-> Defaults]

SettingsInit ==
    /\ \/ file = Absent
       \/ \E p \in Passwords, s \in BOOLEAN :
             file = Written([Defaults EXCEPT !.auth = TRUE, !.password = p, !.secret = s])
    /\ live = Loaded
    /\ threads = [h \in Threads |-> Waiting]
    /\ tokens = {}
    /\ wallClock = 0
    /\ disturbed = FALSE
    /\ saves = 0 /\ boots = 0

-----------------------------------------------------------------------------
(* Sessions                                                                *)

\* A slip the code avoids: the password takes precedence over the secret.
SessionSecretOfPassword ==
    IF live.password # Unset THEN live.password ELSE IF live.secret THEN "secret" ELSE "dev-only-secret"

\* _session_secret
SessionSecret ==
    IF live.secret THEN "secret" ELSE IF live.password # Unset THEN live.password ELSE "dev-only-secret"

\* A cookie is the payload, a dot, and the bytes of the signature.  It is taken
\* apart at the last dot, which may be a byte of the signature.
Valid(token) ==
    /\ ~token.dot
    /\ token.key = SessionSecret
    /\ wallClock - token.issued < SessionAge

\* dashboard_security: whether a request with these cookies reaches a page.
Admitted(cookies) == live.auth => \E token \in cookies : Valid(token)

\* _sign_session, of a user whose credentials match.
Login(dot) ==
    /\ Cardinality(tokens) < MaxLogins
    /\ \A t \in tokens : t.key = SessionSecret /\ t.issued = wallClock => t.dot = dot
    /\ tokens' = tokens \cup {[key |-> SessionSecret, issued |-> wallClock, dot |-> dot]}
    /\ UNCHANGED << file, live, threads, wallClock, disturbed, counters >>

-----------------------------------------------------------------------------
(* Saving                                                                  *)

Busy(h) == threads[h].pc # "idle"
Overlapping(h) == \E other \in Threads \ {h} : Busy(other)
AtStep(h, pc) == threads[h].pc = pc
Goto(h, pc) == threads' = [threads EXCEPT ![h].pc = pc]
Finish(h) == threads' = [threads EXCEPT ![h] = Waiting]

Begin(h, change) ==
    /\ ~Busy(h) /\ saves < MaxSaves
    /\ saves' = saves + 1
    /\ disturbed' = (disturbed \/ Overlapping(h))
    /\ threads' = [threads EXCEPT ![h].pc = "reading", ![h].change = change]
    /\ UNCHANGED << file, live, tokens, wallClock, boots >>

\* change_password, up to the checks it passes.
ChangePassword(h, new) ==
    /\ live.auth
    /\ new # live.password
    /\ Begin(h, Change("password", [Defaults EXCEPT !.password = new]))

\* add_remote_host and delete_remote_host: the list to save comes from memory.
AddHost(h, name) ==
    /\ name \notin live.hosts
    /\ Begin(h, Change("hosts", [Defaults EXCEPT !.hosts = live.hosts \cup {name}]))

DeleteHost(h, name) ==
    /\ name \in live.hosts
    /\ Begin(h, Change("hosts", [Defaults EXCEPT !.hosts = live.hosts \ {name}]))

Applied(config, change) ==
    CASE change.kind = "password" -> [config EXCEPT !.password = change.config.password]
      [] change.kind = "hosts" -> [config EXCEPT !.hosts = change.config.hosts]

\* The rest of the file is saved as it is read, whoever else is writing it.
ReadFile(h) ==
    /\ AtStep(h, "reading")
    /\ \/ /\ file.exists \/ threads[h].change.kind = "hosts"
          /\ threads' = [threads EXCEPT ![h].pc = "opening", ![h].data = Applied(file.data, threads[h].change)]
       \/ Finish(h)  \* it cannot be read
    /\ UNCHANGED << file, live, tokens, wallClock, disturbed, counters >>

\* write_text opens the file, which empties it, ...
OpenFile(h) ==
    /\ AtStep(h, "opening")
    /\ \/ file' = Empty /\ Goto(h, "writing")
       \/ file' = file /\ Finish(h)
    /\ UNCHANGED << live, tokens, wallClock, disturbed, counters >>

\* ... and writes it; a disk that is full leaves it empty.
WriteFile(h) ==
    /\ AtStep(h, "writing")
    /\ \/ file' = Written(threads[h].data) /\ Goto(h, "written") /\ disturbed' = disturbed
       \/ file' = file /\ Finish(h) /\ disturbed' = TRUE
    /\ UNCHANGED << live, tokens, wallClock, counters >>

\* A slip the code avoids: a new password waits for the next start.
ApplyHostsOnly(h) ==
    /\ AtStep(h, "written")
    /\ live' = IF threads[h].change.kind = "hosts" THEN Applied(live, threads[h].change) ELSE live
    /\ disturbed' = disturbed
    /\ Finish(h)
    /\ UNCHANGED << file, tokens, wallClock, counters >>

\* chmod, and the settings in memory: without the one, not the other.
Apply(h) ==
    /\ AtStep(h, "written")
    /\ \/ live' = Applied(live, threads[h].change) /\ disturbed' = disturbed
       \/ live' = live /\ disturbed' = TRUE
    /\ Finish(h)
    /\ UNCHANGED << file, tokens, wallClock, counters >>

-----------------------------------------------------------------------------

\* The process ends, at any point, and starts again.
Reboot ==
    /\ boots < MaxBoots
    /\ boots' = boots + 1
    /\ live' = Loaded
    /\ threads' = [h \in Threads |-> Waiting]
    /\ disturbed' = FALSE
    /\ UNCHANGED << file, tokens, wallClock, saves >>

SettingsPass ==
    /\ wallClock < SettingsHorizon
    /\ wallClock' = wallClock + 1
    /\ UNCHANGED << file, live, threads, tokens, disturbed, counters >>

Save(h) == ReadFile(h) \/ OpenFile(h) \/ WriteFile(h) \/ Apply(h)

SettingsNext ==
    \/ \E dot \in BOOLEAN : Login(dot)
    \/ \E h \in Threads :
        \/ \E p \in Passwords : ChangePassword(h, p)
        \/ \E name \in HostNames : AddHost(h, name) \/ DeleteHost(h, name)
        \/ Save(h)
    \/ Reboot \/ SettingsPass

SettingsSpec == SettingsInit /\ [][SettingsNext]_settingsVars

-----------------------------------------------------------------------------

SettingsTypeOK ==
    /\ file \in [exists : BOOLEAN, data : Config]
    /\ live \in Config
    /\ \A h \in Threads : /\ threads[h].pc \in {"idle", "reading", "opening", "writing", "written"}
                          /\ threads[h].data \in Config
    /\ tokens \subseteq [key : Passwords \cup {"secret", "dev-only-secret"},
                         issued : 0..wallClock, dot : BOOLEAN]
    /\ disturbed \in BOOLEAN
    /\ wallClock \in 0..SettingsHorizon /\ saves \in 0..MaxSaves /\ boots \in 0..MaxBoots

\* A restart changes nothing: as long as the saves since the last one came one
\* after another and none broke off half way, the file the next process reads
\* says what this one goes by, password and hosts alike.
RestartKeepsWhatIsInForce ==
    ~disturbed /\ (\A h \in Threads : ~Busy(h)) => Loaded = live

AgedOut(token) == wallClock - token.issued >= SessionAge

\* A session ends by its age, or with a password that signs sessions for want
\* of a session_secret, or in a restart that finds the file other than the
\* process left it; nothing else signs a user out.
SessionsEndForAReason ==
    [][\A token \in tokens : Valid(token) /\ ~(Valid(token))' =>
        \/ AgedOut(token)'
        \/ ~live.secret /\ live'.password # live.password /\ boots' = boots
        \/ boots' # boots /\ (disturbed \/ \E h \in Threads : Busy(h))]_settingsVars

\* The session a login answers with lets its user in (the readme's "signed
\* session cookies"; test_auth_blocks_dashboard_until_login follows the
\* redirect and so does not tell the login page from the dashboard).
LoginOpensDashboard == [][\A token \in tokens' \ tokens : Admitted({token})']_settingsVars
=============================================================================
