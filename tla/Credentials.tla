------------------------------ MODULE Credentials ------------------------------
(***************************************************************************)
(* Which credentials a Kirox process uses: load_config (utils/config.py)    *)
(* overlays KIROX_* variables on the configuration file, AuthManager._resolve *)
(* (core/auth.py) picks one token and one profile from what was configured, *)
(* the environment or a kiro-cli database, and the scheduler's resolver     *)
(* picks again, from the databases, when upstream refuses the token.        *)
(*                                                                          *)
(* A string is None (absent; for a variable also empty), Blank (white space *)
(* only; in the file also empty), or a text with or without white space     *)
(* around it.                                                               *)
(***************************************************************************)
EXTENDS Naturals, Sequences

CONSTANTS
    Texts,      \* without white space around them
    Given,      \* what the caller, the file and the environment may hold:
                \* functions from Tiers to records of a token and a profile
    ConfigDb,   \* config.db_path
    KiroxDb,    \* KIROX_DB_PATH
    AssistantDb,\* ASSISTANT_DB_PATH
    Fixed,      \* the known locations, in their order
    None, Blank

Tiers == {"explicit", "config", "KIROX", "ASSISTANT"}
Configured == {ConfigDb, KiroxDb, AssistantDb}
Databases == Configured \cup {Fixed[i] : i \in 1 .. Len(Fixed)}

Strings == {None, Blank} \cup (Texts \X BOOLEAN)

ASSUME StringsDiffer ==
    /\ None # Blank
    /\ {None, Blank} \cap (Texts \X BOOLEAN) = {}
    /\ {None, Blank} \cap (Databases \X BOOLEAN) = {}
ASSUME InputsAreStrings == Given \subseteq [Tiers -> [token : Strings, profile : Strings]]
ASSUME NamesDiffer == (Tiers \cup {"none", None}) \cap Databases = {}
ASSUME FixedIsSequence == Fixed \in Seq(Databases)

\* A database's token and profile are named after it.
Text(v) == v[1]
Plain(text) == <<text, FALSE>>
Strip(v) == IF v \in {None, Blank} THEN v ELSE Plain(Text(v))

VARIABLES
    given,      \* the inputs
    paths,      \* which of the configured database paths are set
    config,     \* the Config
    at,         \* "load", "resolve", "databases", "fixed", "done", "failed"
    next,       \* the fixed location to try next
    refreshing, \* it is the scheduler that resolves
    auth        \* the AuthManager: its token, profile and source

vars == <<given, paths, config, at, next, refreshing, auth>>
inputs == <<given, paths>>

Nobody == [token |-> None, profile |-> None, source |-> "none"]

Init ==
    /\ given \in Given /\ paths \in SUBSET Configured
    /\ config = [token |-> None, profile |-> None]
    /\ at = "load" /\ next = 1 /\ refreshing = FALSE /\ auth = Nobody

-----------------------------------------------------------------------------
(* load_config()                                                            *)

File == given["config"]
Env(prefix) == given[prefix]

\* `if value: overlays[field_name] = value`
Overlaid(fileValue, envValue) == IF envValue = None THEN fileValue ELSE envValue

\* A blank string is a ConfigError, from the file or from the environment.
Blanks == {File.token, File.profile, Env("KIROX").token, Env("KIROX").profile}

LoadConfig ==
    /\ at = "load"
    /\ IF Blank \in Blanks
       THEN at' = "failed" /\ UNCHANGED config
       ELSE /\ at' = "resolve"
            /\ config' = [token   |-> Strip(Overlaid(File.token, Env("KIROX").token)),
                          profile |-> Strip(Overlaid(File.profile, Env("KIROX").profile))]
    /\ UNCHANGED <<inputs, next, refreshing, auth>>

-----------------------------------------------------------------------------
(* AuthManager._resolve, tier by tier.                                      *)

AnyString(v) == v                   \* mutation: white space counts as a value
Nonempty(v) == IF v = Blank THEN None ELSE v     \* _nonempty_string

Return(token, profile, source) ==
    /\ auth' = [token |-> token, profile |-> profile, source |-> source]
    /\ at' = "done" /\ refreshing' = FALSE /\ next' = 1
    /\ UNCHANGED <<inputs, config>>

ExplicitToken == Nonempty(given["explicit"].token)

TakeExplicit ==
    /\ at = "resolve" /\ ExplicitToken # None
    /\ Return(ExplicitToken, Nonempty(given["explicit"].profile), "explicit")

\* A configured value that equals the variable came from load_config's overlay.
IsKirox(value, variable) == Nonempty(variable) # None /\ value = variable

TrustEveryProfile == config.profile         \* mutation
TrustedProfile ==
    IF IsKirox(config.profile, Env("KIROX").profile) THEN None ELSE config.profile

DirectToken == config.token # None /\ ~IsKirox(config.token, Env("KIROX").token)

TakeConfig ==
    /\ at = "resolve" /\ ExplicitToken = None /\ DirectToken
    /\ Return(config.token, TrustedProfile, "config")

PrefixesReversed == <<"ASSISTANT", "KIROX">>    \* mutation
Prefixes == <<"KIROX", "ASSISTANT">>

HasToken(prefix) == Nonempty(Env(prefix).token) # None

TakeEnvironment ==
    /\ at = "resolve" /\ ExplicitToken = None /\ ~DirectToken
    /\ \E i \in 1 .. Len(Prefixes) :
          /\ HasToken(Prefixes[i]) /\ \A j \in 1 .. (i - 1) : ~HasToken(Prefixes[j])
          /\ Return(Nonempty(Env(Prefixes[i]).token),
                    Nonempty(Env(Prefixes[i]).profile), Prefixes[i])

NoToken ==
    /\ at = "resolve" /\ ExplicitToken = None /\ ~DirectToken
    /\ \A i \in 1 .. Len(Prefixes) : ~HasToken(Prefixes[i])
    /\ at' = "databases"
    /\ UNCHANGED <<inputs, config, next, refreshing, auth>>

\* _configured_db_path; from_cli_db has no environment.
ConfiguredDb ==
    IF ConfigDb \in paths THEN ConfigDb
    ELSE IF refreshing THEN None
    ELSE IF KiroxDb \in paths THEN KiroxDb
    ELSE IF AssistantDb \in paths THEN AssistantDb
    ELSE None

\* _read_sqlite finds a token, with or without a profile.  The databases are
\* kiro-cli's, which may log in, log out or remove them at any time.
ReadSqlite(db) ==
    \E profile \in {None, Plain(db)} : Return(Plain(db), profile, db)

\* It raises; at startup nothing has been resolved, the scheduler reports the
\* error and the client keeps the credentials it has.
NoCredentials ==
    /\ at' = IF refreshing THEN "done" ELSE "failed"
    /\ refreshing' = FALSE /\ next' = 1
    /\ UNCHANGED <<inputs, config, auth>>

TryFixed ==         \* mutation: a configured database is only a preference
    at' = "fixed" /\ UNCHANGED <<inputs, config, next, refreshing, auth>>
ConfiguredFails == NoCredentials

ReadConfigured ==
    /\ at = "databases" /\ ConfiguredDb # None
    /\ ReadSqlite(ConfiguredDb) \/ ConfiguredFails

NoConfigured ==
    /\ at = "databases" /\ ConfiguredDb = None
    /\ at' = "fixed"
    /\ UNCHANGED <<inputs, config, next, refreshing, auth>>

NextLocation == next' = next + 1 /\ UNCHANGED <<inputs, config, at, refreshing, auth>>

\* Missing, malformed and tokenless candidates are skipped.
ReadFixed ==
    /\ at = "fixed" /\ next <= Len(Fixed)
    /\ ReadSqlite(Fixed[next]) \/ NextLocation

NoFixed == at = "fixed" /\ next > Len(Fixed) /\ NoCredentials

\* TokenScheduler._refresh_token: AuthManager.from_cli_db(config.db_path).
Refresh ==
    /\ at = "done" /\ at' = "databases" /\ refreshing' = TRUE
    /\ UNCHANGED <<inputs, config, next, auth>>

Failed == at = "failed" /\ UNCHANGED vars

Next ==
    \/ LoadConfig \/ TakeExplicit \/ TakeConfig \/ TakeEnvironment \/ NoToken
    \/ ReadConfigured \/ NoConfigured \/ ReadFixed \/ NoFixed \/ Refresh \/ Failed

Spec == Init /\ [][Next]_vars

-----------------------------------------------------------------------------
ValuesOK ==
    /\ DOMAIN given = Tiers /\ paths \subseteq Configured
    /\ at \in {"load", "resolve", "databases", "fixed", "done", "failed"}
    /\ next \in 1 .. (Len(Fixed) + 1)
    /\ at = "done" => auth.token \notin {None, Blank}
    /\ auth.source \in Tiers \cup Databases \cup {"none"}

\* Every variable keeps to its type, and whoever is done has a token.
TypeOK == ValuesOK /\ refreshing \in BOOLEAN

\* Where a bundle may come from, and whether one comes from there.
From(source) ==
    \/ /\ source \in Tiers
       /\ Strip(auth.token) = Strip(given[source].token)
       /\ auth.profile # None => Strip(auth.profile) = Strip(given[source].profile)
    \/ /\ source \in Databases
       /\ auth.token = Plain(source) /\ auth.profile \in {None, Plain(source)}

Padded(v) == v \notin {None, Blank} /\ v[2]
PaddedKirox == Padded(Env("KIROX").token) \/ Padded(Env("KIROX").profile)

\* The token and the profile belong to the one source that is reported for
\* them, although load_config mixes file and environment field by field; only
\* white space around a KIROX_* value can hide where it came from.
BundleFromItsSource == auth # Nobody /\ ~PaddedKirox => From(auth.source)

\* "A profile ARN is used only when it comes from the same tier as the
\* selected token."
ProfileOfTokenTier ==
    auth # Nobody => \E source \in Tiers \cup Databases : From(source)

\* The order of precedence, with KIROX_TOKEN ahead of the file it overlays.
Precedence == <<"explicit", "KIROX", "config", "ASSISTANT">>
Holds(i) == Strip(given[Precedence[i]].token) \notin {None, Blank}

\* What was resolved before any refresh is the token of the first tier that
\* has one; the databases come last.
FirstTierWins ==
    \A i \in 1 .. Len(Precedence) :
        Holds(i) /\ (\A j \in 1 .. (i - 1) : ~Holds(j)) =>
            /\ at \notin {"databases", "fixed"} \/ refreshing
            /\ at = "done" /\ auth.source \in Tiers =>
                  Strip(auth.token) = Strip(given[Precedence[i]].token)

\* The known locations are for those who configured none: credentials never
\* come from one of them while config.db_path names a database, and at startup
\* not while a variable does.
ConfiguredDatabaseOnly ==
    /\ at = "fixed" => ConfigDb \notin paths /\ (paths = {} \/ refreshing)
    /\ auth.source \in Databases \ Configured => ConfigDb \notin paths
=============================================================================
