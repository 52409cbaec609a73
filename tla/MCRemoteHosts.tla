---------------------------- MODULE MCRemoteHosts ----------------------------
(* Two families of inputs: what the layers say of the settings, and what    *)
(* the user's and the project's file say of the host "box".                 *)
EXTENDS RemoteHosts, TLC

Doc(defaultProfile, profiles, dochosts) ==
    [wellFormed |-> TRUE, default_profile |-> defaultProfile, profiles |-> profiles,
     hosts |-> dochosts, repos |-> [r \in {"here"} |-> Unset]]
Work(patch) == [p \in {"work"} |-> patch]
Box(host) == [h \in {"box"} |-> host]
Plain == [NoHost EXCEPT !.kind = "ssh", !.target = "t1"]
Env(home, profile, fields) ==
    [home |-> home, xdg |-> FALSE, profile |-> profile, noProject |-> FALSE, fields |-> fields]
Input(user, project, env, profile, cli) ==
    [config |-> NoDoc, profile |-> profile, noProject |-> FALSE, cli |-> cli, env |-> env,
     user |-> user, project |-> project]
Home == <<"/", "home">>

Patches(backends, databases, places) ==
    {[Nothing EXCEPT !.backend = b, !.database = d, !.default_host = h] :
        b \in backends, d \in databases, h \in places}

SettingInputs ==
    {Input(Doc(u, Work(p), Box(Plain)), project, Env(home, ep, ef), profile, cli) :
        u \in {Unset, "work"}, p \in Patches({Unset, "fake"}, {Unset, <<"~", "w.db">>}, {Unset, "box"}),
        project \in {NoDoc} \cup
            {Doc(d, Work(q), Box(NoHost)) : d \in {Unset, "default"},
               q \in Patches({Unset, "copilot"}, {Unset}, {Unset, "lost"})},
        home \in {<<>>, Home}, ep \in {Unset, "work"},
        ef \in {Nothing, [Nothing EXCEPT !.state_dir = <<"/", "s">>],
                [Nothing EXCEPT !.database = <<"/", "e.db">>, !.backend = "fake"],
                [Nothing EXCEPT !.database = <<"/", "e.db">>, !.default_host = "local"]},
        profile \in {Unset, "default"},
        cli \in {Nothing, [Nothing EXCEPT !.database = <<"~", ".singleton", "singleton.db">>],
                 [Nothing EXCEPT !.backend = "copilot"]}}

HostInputs ==
    {Input(user, project, Env(Home, Unset, Nothing), Unset, Nothing) :
        user \in {Doc(Unset, Work(Nothing), [h \in {"box", "hub"} |-> IF h = "box" THEN b ELSE Plain]) :
                    b \in {[Plain EXCEPT !.connect_command = k, !.ssh_args = a] :
                             k \in {Unset, DefaultConnect, "mine"}, a \in {Unset, <<>>, <<"-v">>}}},
        project \in {NoDoc} \cup
            {Doc(Unset, Work(Nothing), Box([kind |-> k, target |-> t, connect_command |-> c, ssh_args |-> a])) :
               k \in {Unset, "local"}, t \in {Unset, "t2"},
               c \in {Unset, DefaultConnect, "theirs"}, a \in {Unset, <<>>, <<"-v">>}}}

MCInputs == SettingInputs \cup HostInputs
=============================================================================
