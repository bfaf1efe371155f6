---------------------------- MODULE MCAgentSession ----------------------------
(* Small instances of AgentSession for TLC, with what AuthDetection finds on   *)
(* some hosts.                                                                 *)
EXTENDS AgentSession, AuthDetection, TLC

CONSTANTS p1, p2

TwoProcs == {p1, p2}
OneProc == {p1}
TwoProviders == {"codex", "claude"}
Credentials == {FileSource("auth.json"), FileSource("credentials.json")}
NoVariables == [n \in {} |-> "none"]
Token(v) == "ANTHROPIC_AUTH_TOKEN" :> v
NoHost == [platform |-> "linux", files |-> {}, env |-> NoVariables, settings |-> NoVariables]
\* A Linux host with Claude's login, a token in the environment and another in
\* settings.json.
FullHost == [NoHost EXCEPT !.files = {"credentials.json"},
                           !.env = Token("process"),
                           !.settings = Token("settings")]
\* The same host when the variable is no longer set: the token of settings.json.
OtherHost == [NoHost EXCEPT !.settings = Token("settings")]

User(providers, flags, commands, hosts) ==
    [providers |-> providers, flags |-> flags, commands |-> commands,
     found |-> [k \in Providers |-> {DetectAuth(k, h) : h \in hosts}]]
Flags == {"import", "none", "ask", "unset"}

\* One imports a login and tokens that change; one leaves shells and agents and
\* kills agents; one has two providers and attaches.
AnyUser == {User({"claude"}, Flags, {"auth"}, {NoHost, FullHost, OtherHost}),
            User({"claude"}, {"unset"}, {"start", "kill", "exit"}, {NoHost}),
            User(TwoProviders, {"unset"}, {"start", "kill", "attach"}, {NoHost})}

\* One who starts agents and attaches to their windows.
Attaching == {User(TwoProviders, {"unset"}, {"start", "attach"}, {NoHost})}
Symmetry == Permutations(TwoProcs)

\* Every host with some of the importable files and up to two tokens.
Tokens == {NoVariables, Token("one"), Token("two"), "CLAUDE_CODE_USE_BEDROCK" :> "one",
           "GEMINI_API_KEY" :> "one", "OTHER" :> "one"}
Hosts == [platform : {"linux", "macos"}, env : Tokens, settings : Tokens,
          files : SUBSET {"auth.json", "credentials.json", "other"}]

\* The agent's environment gets one value of a variable: agbranch's own before
\* that of settings.json (claude_host_env_overrides_settings_json_for_same_auth_key),
\* and neither other variables nor, on macOS, Claude's login.
ASSUME DetectionAssumption ==
    \A host \in Hosts :
        /\ \A k \in {"codex", "claude", "gemini"} :
            LET found == DetectAuth(k, host) IN
            /\ \A s, t \in found : s.name = t.name => s = t
            /\ \A s \in found : ~s.file /\ s.name \in DOMAIN host.env
                                => s.value = host.env[s.name]
            /\ \A s \in found : s.name \notin {"OTHER", "other"}
        /\ host.platform = "macos" =>
            \A s \in DetectAuth("claude", host) : ~s.file
=============================================================================
