------------------------------ MODULE Settings ------------------------------
(***************************************************************************)
(* The settings and their secrets: one configuration in memory, read whole *)
(* by every question, two files beside each other on disk (config.toml and *)
(* the secrets), and the screens that change them (src/backend/src/        *)
(* admin.rs, config.rs, app.rs).  The language model and one MCP server    *)
(* stand for everything with an address and a secret sent to it.  A secret *)
(* is named by the address it was entered for; two entered for the same    *)
(* address are not told apart.                                             *)
(***************************************************************************)
EXTENDS Naturals

CONSTANTS
    Screens,       \* admin screens, each with one editor open
    Addresses,     \* hosts a secret may be sent to
    None           \* no secret, no server, nothing

ASSUME SettingsAssumption == Addresses # {} /\ {None, "stdio", "torn"} \cap Addresses = {}

VARIABLES
    config,        \* App::config
    startedWithKey,\* the admin key was set when the process started
    settingsFile, secretsFile,
    behind,        \* a save replaced the secrets file and not config.toml
    saving,        \* the configuration being stored, under config_write
    editor,        \* what each screen has open, and whether it has changed since
    strayed        \* a connection check sent a secret to another address

settingsVars == <<config, startedWithKey, settingsFile, secretsFile, behind, saving, editor, strayed>>

Secrets == Addresses \cup {None, "torn"}

\* A server is absent (None), run by a command, or reached at an address.
Configs == [llm : Addresses, apiKey : Secrets,
            server : Addresses \cup {None, "stdio"}, token : Secrets, adminKey : BOOLEAN]

Home(secret, address) == secret \in {None, "torn", address}

SettingsPart(c) == [llm |-> c.llm, server |-> c.server]
SecretsPart(c) == [apiKey |-> c.apiKey, token |-> c.token, adminKey |-> c.adminKey]

SettingsTypeOK ==
    /\ config \in Configs
    /\ startedWithKey \in BOOLEAN
    /\ settingsFile \in {SettingsPart(c) : c \in Configs}
    /\ secretsFile \in {SecretsPart(c) : c \in Configs}
    /\ behind \in BOOLEAN
    /\ saving = None \/ (saving.next \in Configs /\ saving.written \in {"none", "secrets", "both"})
    /\ editor \in [Screens -> [of : {"settings", "server", None}, stale : BOOLEAN]]
    /\ strayed \in BOOLEAN

\* The first start: the address and the key of `.env`, entered together.
SettingsInit ==
    /\ \E a \in Addresses, keyed \in BOOLEAN, admin \in BOOLEAN :
          config = [llm |-> a, apiKey |-> IF keyed THEN a ELSE None,
                    server |-> None, token |-> None, adminKey |-> admin]
    /\ startedWithKey = config.adminKey
    /\ settingsFile = SettingsPart(config) /\ secretsFile = SecretsPart(config)
    /\ behind = FALSE
    /\ saving = None
    /\ editor = [s \in Screens |-> [of |-> None, stale |-> FALSE]]
    /\ strayed = FALSE

Open(s, what) ==
    /\ editor[s].of = None
    /\ what = "server" => config.server # None
    /\ editor' = [editor EXCEPT ![s] = [of |-> what, stale |-> FALSE]]
    /\ UNCHANGED <<config, startedWithKey, settingsFile, secretsFile, behind, saving, strayed>>

\* `moved`, and the origins of mcp_draft.
Moved(before, after) == before # after

\* A secret in a request: left out (kept), removed, or entered for the address the
\* same request gives.  Kept is refused beside an address that moved.
AfterAnswer(before, stored, after) ==
    {None, after} \cup IF stored # None /\ Moved(before, after) THEN {} ELSE {stored}

\* `draft`: the request's fields over the settings of this moment, not over those
\* its screen was showing.
Drafts(c) ==
    {d \in Configs : d.server = c.server /\ d.token = c.token /\ d.apiKey \in AfterAnswer(c.llm, c.apiKey, d.llm)}

\* `mcp_draft`: with no address the headers go, the secret ones too.
ServerDrafts(c) ==
    {[c EXCEPT !.server = "stdio", !.token = None]}
        \cup UNION {{[c EXCEPT !.server = u, !.token = t] : t \in AfterAnswer(c.server, c.token, u)} : u \in Addresses}

\* `mcp_lock`: a server runs a command, so the key the process started with is
\* needed, not only one.
McpUnlocked == config.adminKey /\ startedWithKey

Begin(next) ==
    /\ saving = None
    /\ saving' = [next |-> next, written |-> "none"]
    /\ UNCHANGED <<config, startedWithKey, settingsFile, secretsFile, behind, strayed>>

Answered(s) == editor' = [editor EXCEPT ![s] = [of |-> None, stale |-> FALSE]]

\* settings_put, mcp_update and mcp_remove under config_write: refused when what the
\* screen opened has changed since, or the draft is not one.
Put(s) ==
    /\ editor[s].of = "settings" /\ ~editor[s].stale
    /\ \E c \in Drafts(config) : Begin(c)
    /\ Answered(s)

PutServer(s) ==
    /\ editor[s].of = "server" /\ ~editor[s].stale /\ McpUnlocked
    /\ \E c \in ServerDrafts(config) \cup {[config EXCEPT !.server = None, !.token = None]} : Begin(c)
    /\ Answered(s)

\* mcp_create drafts over an empty server.
CreateServer ==
    /\ McpUnlocked /\ config.server = None
    /\ \E c \in ServerDrafts(config) : Begin(c)
    /\ UNCHANGED editor

\* save_project and a project's removal: the folders are looked at before the lock
\* is taken; what is stored is everything else as it is.
SaveProject == Begin(config) /\ UNCHANGED editor

Refused(s) ==
    /\ editor[s].of # None
    /\ Answered(s)
    /\ UNCHANGED <<config, startedWithKey, settingsFile, secretsFile, behind, saving, strayed>>

\* Config::save.  Both files are written in full beside the ones they replace; then
\* the secrets replace theirs, then the settings theirs.
CannotWrite ==
    /\ saving # None /\ saving.written = "none"
    /\ saving' = None
    /\ UNCHANGED <<config, startedWithKey, settingsFile, secretsFile, behind, editor, strayed>>

\* Mutant: config.toml replaced before the secrets: a save that stops there leaves the new
\* address with the key of before.
PersistFirstSettings ==
    /\ saving # None /\ saving.written = "none"
    /\ settingsFile' = SettingsPart(saving.next)
    /\ saving' = [saving EXCEPT !.written = "secrets"]
    /\ UNCHANGED <<config, startedWithKey, secretsFile, behind, editor, strayed>>

PersistFirst ==
    /\ saving # None /\ saving.written = "none"
    /\ secretsFile' = SecretsPart(saving.next)
    /\ behind' = (SettingsPart(saving.next) # settingsFile)
    /\ saving' = [saving EXCEPT !.written = "secrets"]
    /\ UNCHANGED <<config, startedWithKey, settingsFile, editor, strayed>>

PersistSettings ==
    /\ saving # None /\ saving.written = "secrets"
    /\ settingsFile' = SettingsPart(saving.next)
    /\ behind' = FALSE
    /\ saving' = [saving EXCEPT !.written = "both"]
    /\ UNCHANGED <<config, startedWithKey, secretsFile, editor, strayed>>

\* The second rename fails: the save is an error, the configuration in memory stays.
SettingsNotReplaced ==
    /\ saving # None /\ saving.written = "secrets"
    /\ saving' = None
    /\ UNCHANGED <<config, startedWithKey, settingsFile, secretsFile, behind, editor, strayed>>

\* `store_config`, `store_mcp`: every editor of something now changed is out of date.
\* The settings' revision covers the whole configuration.
Publish ==
    /\ saving # None /\ saving.written = "both"
    /\ config' = saving.next
    /\ saving' = None
    /\ editor' = [s \in Screens |->
          [editor[s] EXCEPT !.stale = @ \/ (editor[s].of = "settings" /\ saving.next # config)
               \/ (editor[s].of = "server" /\ (saving.next.server # config.server \/ saving.next.token # config.token))]]
    /\ UNCHANGED <<startedWithKey, settingsFile, secretsFile, behind, strayed>>

\* settings_check, mcp_check: a connection with a draft of the request over the
\* settings of this moment, whatever its screen has open and without the lock.
CheckConnection ==
    /\ \/ \E c \in Drafts(config) : strayed' = (strayed \/ ~Home(c.apiKey, c.llm))
       \/ /\ McpUnlocked
          /\ \E c \in ServerDrafts(config) :
                c.server # "stdio" /\ strayed' = (strayed \/ ~Home(c.token, c.server))
    /\ UNCHANGED <<config, startedWithKey, settingsFile, secretsFile, behind, saving, editor>>

\* Config::load.  A secret of a server config.toml no longer has reaches nobody.
\* Files a save left out of step pair addresses with secrets that were not entered
\* for them; those are marked.
Paired(secret, address) ==
    IF address \in {None, "stdio"} THEN None
    ELSE IF behind /\ secret \notin {None, address} THEN "torn" ELSE secret

\* The process ends, by a crash or in order, and starts again; the key of the
\* revisions is new, so no editor is current any more.
Restart ==
    /\ config' = [llm |-> settingsFile.llm, apiKey |-> Paired(secretsFile.apiKey, settingsFile.llm),
                  server |-> settingsFile.server, token |-> Paired(secretsFile.token, settingsFile.server),
                  adminKey |-> secretsFile.adminKey]
    /\ startedWithKey' = secretsFile.adminKey
    /\ saving' = None
    /\ editor' = [s \in Screens |-> [editor[s] EXCEPT !.stale = editor[s].of # None]]
    /\ UNCHANGED <<settingsFile, secretsFile, behind, strayed>>

SettingsNext ==
    \/ \E s \in Screens : (\E what \in {"settings", "server"} : Open(s, what)) \/ Put(s) \/ PutServer(s) \/ Refused(s)
    \/ CreateServer \/ SaveProject \/ CannotWrite \/ PersistFirst \/ PersistSettings
    \/ SettingsNotReplaced \/ Publish \/ CheckConnection \/ Restart

SettingsSpec == SettingsInit /\ [][SettingsNext]_settingsVars

\* A secret goes only to the address it was entered for: what questions use, what a
\* check sends, and what the files hold for the next start, whatever screens saved
\* over each other and wherever the process stopped.  The exception is what a start
\* reads from files a save left out of step: the secrets entered last, beside the
\* addresses of before (admin.rs draft, mcp_draft; config.rs save).
SecretsStayHome ==
    /\ Home(config.apiKey, config.llm) /\ Home(config.token, config.server)
    /\ ~strayed
    /\ ~behind => Home(secretsFile.apiKey, settingsFile.llm) /\ Home(secretsFile.token, settingsFile.server)

=============================================================================
