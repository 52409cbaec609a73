---------------------------- MODULE Configuration ----------------------------
(***************************************************************************)
(* How a singleton process finds its settings: built-in defaults, the       *)
(* user's file, the project's file, SINGLETON_* variables and command line  *)
(* flags, layered in that order, and the flags a process hands to the       *)
(* server it spawns or registers.  No state: Load is a function of what the *)
(* process finds.                                                           *)
(*                                                                         *)
(* A path is a sequence of its parts, "~" first if it is relative to HOME.  *)
(* Settings that are merged alike and never checked (model, the workspace   *)
(* provider, the clean-up policy, the permission default) are one field,    *)
(* "permissions".  What makes a file unreadable without regard to another   *)
(* (its version, unknown keys, blank names, raw secrets) is wellFormed.     *)
(***************************************************************************)
EXTENDS Naturals, Sequences, SequencesExt

CONSTANTS Unset,    \* None: the layer says nothing of the field
          NoDoc     \* there is no such file

DefaultConnect == "singleton serve --stdio"

\* ProfilePatch::builtin and MergedConfig::synthetic_default.
Builtin ==
    [backend |-> "copilot", mode |-> "interactive", default_host |-> "local",
     permissions |-> "ask", state_dir |-> <<"~", ".singleton">>,
     database |-> <<"~", ".singleton", "singleton.db">>]
Nothing == [f \in DOMAIN Builtin |-> Unset]
NoHost == [kind |-> Unset, target |-> Unset, connect_command |-> Unset, ssh_args |-> Unset]
Synthetic ==
    [default_profile |-> "default",
     profiles |-> [p \in {"default"} |-> Builtin],
     hosts |-> [h \in {"local"} |-> [NoHost EXCEPT !.kind = "local"]],
     repos |-> [r \in {} |-> Unset]]

\* The first layer that says something; Unset if none does.
First(layers) ==
    IF \A i \in DOMAIN layers : layers[i] = Unset THEN Unset
    ELSE layers[CHOOSE i \in DOMAIN layers :
                  layers[i] # Unset /\ \A j \in 1 .. i - 1 : layers[j] = Unset]

\* Mutant: the layer that comes first wins.
MergeFirstWins(self, other) == [f \in DOMAIN self |-> First(<<self[f], other[f]>>)]

Merge(self, other) == [f \in DOMAIN self |-> First(<<other[f], self[f]>>)]

\* entry(name).or_default().merge_from(patch) for each patch of a document.
MergeAll(entries, patches, default) ==
    [n \in DOMAIN entries \cup DOMAIN patches |->
        IF n \notin DOMAIN patches THEN entries[n]
        ELSE Merge(IF n \in DOMAIN entries THEN entries[n] ELSE default, patches[n])]

\* A repo is its default_host here: its path is left out, and with it the error
\* of a path under HOME when there is no HOME.
MergeDocument(merged, doc) ==
    IF doc = NoDoc THEN merged
    ELSE [default_profile |-> First(<<doc.default_profile, merged.default_profile>>),
          profiles |-> MergeAll(merged.profiles, doc.profiles, Nothing),
          hosts |-> MergeAll(merged.hosts, doc.hosts, NoHost),
          repos |-> [r \in DOMAIN merged.repos \cup DOMAIN doc.repos |->
                       First(<<IF r \in DOMAIN doc.repos THEN doc.repos[r] ELSE Unset,
                               IF r \in DOMAIN merged.repos THEN merged.repos[r] ELSE Unset>>)]]

ValidMode(mode) == mode \in {Unset, "interactive", "plan", "autopilot"}
PlainConnect(host) == host.connect_command \in {Unset, DefaultConnect}

\* What a file may say, and what a project's file may say or inherit.
ValidDocument(doc) ==
    doc # NoDoc =>
        doc.wellFormed /\ \A p \in DOMAIN doc.profiles : ValidMode(doc.profiles[p].mode)
\* Mutant: what the project's hosts inherit is not looked at.
ValidProjectAlone(doc, merged) ==
    doc # NoDoc =>
        /\ ValidDocument(doc)
        /\ \A h \in DOMAIN doc.hosts :
            PlainConnect(doc.hosts[h]) /\ doc.hosts[h].ssh_args = Unset

ValidProject(doc, merged) ==
    doc # NoDoc =>
        /\ ValidDocument(doc)
        /\ \A h \in DOMAIN doc.hosts :
            /\ PlainConnect(doc.hosts[h]) /\ doc.hosts[h].ssh_args = Unset
            /\ PlainConnect(merged.hosts[h]) /\ merged.hosts[h].ssh_args \in {Unset, <<>>}

ValidHost(host) ==
    \/ host.kind = "ssh" /\ host.target # Unset
    \/ host.kind = "local" /\ host = [NoHost EXCEPT !.kind = "local"]

ResolveHost(host) ==
    IF host.kind = "local" THEN [kind |-> "local"]
    ELSE [kind |-> "ssh", target |-> host.target,
          connect_command |-> First(<<host.connect_command, DefaultConnect>>),
          ssh_args |-> First(<<host.ssh_args, <<>>>>)]

\* Unset if it would need HOME and there is none (home = <<>>).
Expand(dir, home) ==
    IF Head(dir) # "~" THEN dir ELSE IF home = <<>> THEN Unset ELSE home \o Tail(dir)
-----------------------------------------------------------------------------
(* What a process starts from: flags, variables, and the files it can see.  *)
(*   [config |-> the file of --config or SINGLETON_CONFIG, or NoDoc,        *)
(*    profile, noProject, cli |-> flags,                                    *)
(*    env |-> [home, xdg, profile, noProject, fields],                      *)
(*    user, project |-> documents]                                          *)

Paths == Seq(STRING) \ {<< >>}

\* What resolve_effective_config can be given: of the settings, flags name only
\* the backend and the database.  HOME is not written relative to itself.
Findable(o) ==
    /\ DOMAIN o = {"config", "profile", "noProject", "cli", "env", "user", "project"}
    /\ \A f \in DOMAIN Builtin \ {"backend", "database"} : o.cli[f] = Unset
    /\ {o.cli.database, o.env.fields.database} \subseteq Paths \cup {Unset}
    /\ \A doc \in {o.config, o.user, o.project} \ {NoDoc} : \A p \in DOMAIN doc.profiles :
         doc.profiles[p].database \in Paths \cup {Unset}
    /\ o.env.home \in Seq(STRING) /\ (o.env.home # <<>> => Head(o.env.home) # "~")

UserDocument(o) ==
    IF o.config # NoDoc THEN o.config
    ELSE IF o.env.home # <<>> \/ o.env.xdg THEN o.user ELSE NoDoc
ProjectDocument(o) == IF o.noProject \/ o.env.noProject THEN NoDoc ELSE o.project

Overridden(o, field) == First(<<o.cli[field], o.env.fields[field]>>)

\* Without a HOME the user's file is skipped only if a path is given.
UserConfigFound(o) ==
    (o.config = NoDoc /\ o.env.home = <<>> /\ ~o.env.xdg) =>
        {Overridden(o, "database"), Overridden(o, "state_dir")} # {Unset}

Merged(o) == MergeDocument(MergeDocument(Synthetic, UserDocument(o)), ProjectDocument(o))
Selected(o, merged) == First(<<o.profile, o.env.profile, merged.default_profile>>)
Profile(o, merged) == Merge(Builtin, merged.profiles[Selected(o, merged)])

Database(o, profile) == Expand(First(<<Overridden(o, "database"), profile.database>>), o.env.home)
StateDir(o, profile) ==
    IF Overridden(o, "state_dir") # Unset THEN Expand(Overridden(o, "state_dir"), o.env.home)
    ELSE IF profile.state_dir = Builtin.state_dir /\ o.env.home = <<>> THEN Front(Database(o, profile))
    ELSE Expand(profile.state_dir, o.env.home)

\* default_host is checked after each layer, not only at the end.
Loads(o) ==
    /\ ValidMode(o.env.fields.mode) /\ UserConfigFound(o) /\ ValidDocument(UserDocument(o))
    /\ LET merged == Merged(o)
           known == DOMAIN merged.hosts
           profile == Profile(o, merged)
       IN /\ ValidProject(ProjectDocument(o), merged)
          /\ {merged.default_profile, Selected(o, merged)} \subseteq DOMAIN merged.profiles
          /\ \A h \in known : ValidHost(merged.hosts[h])
          /\ \A r \in DOMAIN merged.repos : merged.repos[r] \in {Unset} \cup known
          /\ {profile.default_host, o.env.fields.default_host, o.cli.default_host}
                 \subseteq {Unset} \cup known
          /\ ValidMode(o.cli.mode)
          /\ Database(o, profile) # Unset /\ StateDir(o, profile) # Unset

\* into_effective, then apply_overrides for the variables and for the flags.
Load(o) ==
    LET merged == Merged(o)
        profile == Profile(o, merged)
    IN [settings |->
           [Merge(Merge(profile, o.env.fields), o.cli)
               EXCEPT !.database = Database(o, profile), !.state_dir = StateDir(o, profile)],
        profile |-> Selected(o, merged),
        hosts |-> [h \in DOMAIN merged.hosts |-> ResolveHost(merged.hosts[h])]]

\* The hosts SshRemoteBrokerRegistry::from_effective_config takes.
SshHosts(config) == {h \in DOMAIN config.hosts : config.hosts[h].kind = "ssh"}
-----------------------------------------------------------------------------
(* The command lines singleton writes for another singleton process: the    *)
(* daemon it spawns, and the server it registers with an MCP client.  The   *)
(* other process finds the same files and variables.                        *)

\* Mutant: the daemon is left to find the database itself.
DaemonOptionsButDatabase(o) ==
    [o EXCEPT !.cli = [Nothing EXCEPT !.backend = Load(o).settings.backend]]

DaemonOptions(o) ==
    LET settings == Load(o).settings IN
    [o EXCEPT !.cli = [Nothing EXCEPT !.backend = settings.backend, !.database = settings.database]]

\* database_arg_for_server leaves the default database out.
RegisteredOptions(o) ==
    LET settings == Load(o).settings IN
    [o EXCEPT !.cli =
        [Nothing EXCEPT
            !.backend = settings.backend,
            !.database = IF \/ o.cli.database # Unset
                            \/ settings.database # Expand(Builtin.database, o.env.home)
                         THEN settings.database ELSE Unset]]
-----------------------------------------------------------------------------
\* "Precedence is built-in defaults < user config < project config < env vars
\* < CLI args": whichever profile is selected, by whichever layer, a setting is
\* what the strongest layer says that says anything.
PatchOf(doc, profile) ==
    IF doc = NoDoc THEN Nothing
    ELSE IF profile \in DOMAIN doc.profiles THEN doc.profiles[profile] ELSE Nothing
Strongest(o, profile, field) ==
    First(<<o.cli[field], o.env.fields[field], PatchOf(ProjectDocument(o), profile)[field],
            PatchOf(UserDocument(o), profile)[field], Builtin[field]>>)
LayeredAs(o, config) ==
    \A f \in DOMAIN Builtin :
        LET strongest == Strongest(o, config.profile, f) IN
        config.settings[f] =
            IF f \notin {"database", "state_dir"} THEN strongest
            ELSE IF f = "state_dir" /\ strongest = Builtin[f] /\ o.env.home = <<>>
            THEN Front(config.settings.database)
            ELSE Expand(strongest, o.env.home)

\* "Project config cannot silently introduce arbitrary non-default SSH
\* connect_command values or ssh_args, including by inheriting trusted-user
\* fields": a host with such a command or arguments is the user's host as it
\* would be without the project.
PlainOrTheUsers(o, config) ==
    \A h \in SshHosts(config) :
        \/ config.hosts[h].connect_command = DefaultConnect /\ config.hosts[h].ssh_args = <<>>
        \/ config.hosts[h] = ResolveHost(MergeDocument(Synthetic, UserDocument(o)).hosts[h])

\* A server that is started with the flags written for it works on the same
\* store, with the same settings and hosts, as the process that wrote them.
ServedAlike(o, config) ==
    \A next \in {DaemonOptions(o), RegisteredOptions(o)} : Loads(next) /\ Load(next) = config
=============================================================================
