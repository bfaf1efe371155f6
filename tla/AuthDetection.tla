---------------------------- MODULE AuthDetection -----------------------------
(***************************************************************************)
(* detect_auth: the credentials of a provider that a start finds on the    *)
(* host.  A host is what detection reads: its platform, the credential     *)
(* files in the home directory, the variables of agbranch's environment    *)
(* and those of the `env` object in Claude's settings.json.                *)
(***************************************************************************)

\* Host files that are imported, by provider: ProviderSpec.files, and Claude's
\* browser login, which macOS keeps in its Keychain.
ImportableFiles(k, platform) ==
    CASE k = "codex" -> {"auth.json"}
      [] k = "claude" /\ platform # "macos" -> {"credentials.json"}
      [] OTHER -> {}

\* One variable of each provider's list stands for those that are alike.
ImportableNames(k) ==
    CASE k = "claude" -> {"ANTHROPIC_AUTH_TOKEN", "CLAUDE_CODE_USE_BEDROCK"}
      [] k = "gemini" -> {"GEMINI_API_KEY"}
      [] OTHER -> {}

FileSource(f) == [file |-> TRUE, name |-> f, value |-> "none"]
EnvSource(n, v) == [file |-> FALSE, name |-> n, value |-> v]

\* Only what is a regular file is imported.
DetectFiles(k, host) ==
    {FileSource(f) : f \in ImportableFiles(k, host.platform) \cap host.files}

\* detect_env_auth
DetectEnv(env, names) == {EnvSource(n, env[n]) : n \in names \cap DOMAIN env}

\* detect_claude_settings_env: a file that is missing or cannot be read as JSON
\* has no variables, and a value that is no string is left out.
DetectSettings(host) == DetectEnv(host.settings, ImportableNames("claude"))

\* merge_missing_env_sources
MergeMissing(sources, additional) ==
    sources \cup {s \in additional : \A t \in sources : t.name # s.name}

\* detect_auth; the order of the sources is that of the prompt only.
DetectAuth(k, host) ==
    LET found == DetectEnv(host.env, ImportableNames(k)) IN
    DetectFiles(k, host) \cup
    (IF k = "claude" THEN MergeMissing(found, DetectSettings(host)) ELSE found)
=============================================================================
