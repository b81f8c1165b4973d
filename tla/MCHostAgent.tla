----------------------------- MODULE MCHostAgent -----------------------------
(***************************************************************************)
(* A Mac with Homebrew, one with a LaunchAgent, a Linux server with the    *)
(* unit, one whose configuration is elsewhere under /etc, a user without   *)
(* any; and two agents that run, one with two disks, two interfaces and    *)
(* two sensors to tell apart.                                              *)
(***************************************************************************)
EXTENDS HostAgent

Ingest == [scheme |-> "https", host |-> "ingest", path |-> "", slash |-> FALSE]
Console == [Ingest EXCEPT !.host = "console.signoz.cloud", !.slash = TRUE]

Kept ==
    [Defaults EXCEPT !.preset = "signoz", !.endpoint = Ingest, !.key = "old",
                     !.environment = "prod", !.interval = 2, !.timeout = 1,
                     !.headers = "x-team" :> "ops", !.hostName = "db",
                     !.attributes = (HostName :> "other") @@ (Dotted(<<"rack">>) :> "a"),
                     !.filesystems = {"/"}, !.perInterface = TRUE,
                     !.temperatures = TRUE]
Keyless == [Kept EXCEPT !.key = None, !.hostName = None, !.perInterface = FALSE]
Whole(config, mode) == [config |-> config, mode |-> mode]
Garbage == Whole(None, "0644")

NoFacts ==
    [explicit |-> None, brew |-> FALSE, brewDir |-> FALSE, xdg |-> FALSE, home |-> TRUE,
     root |-> FALSE, macos |-> FALSE, systemctl |-> FALSE, unit |-> FALSE,
     launchAgent |-> FALSE]
Mac == [NoFacts EXCEPT !.macos = TRUE, !.brew = TRUE, !.brewDir = TRUE]
MacWithAgent == [Mac EXCEPT !.launchAgent = TRUE]
Server == [NoFacts EXCEPT !.root = TRUE, !.systemctl = TRUE, !.unit = TRUE]
UnderEtcElsewhere == [Server EXCEPT !.explicit = "etcElsewhere"]
Sandbox == [NoFacts EXCEPT !.explicit = "explicit", !.xdg = TRUE]

NoArgs ==
    [preset |-> None, endpoint |-> None, protocol |-> None, key |-> None, dataset |-> None,
     environment |-> None, interval |-> None, temperatures |-> None, sensors |-> None]
Full ==
    [NoArgs EXCEPT !.preset = "clickstack", !.endpoint = Ingest, !.key = "new",
                   !.environment = "prod", !.interval = 1]
Enter ==
    [preset |-> Blank, endpoint |-> Blank, protocol |-> Blank, key |-> Blank,
     dataset |-> Blank, environment |-> Blank, interval |-> Blank,
     temperatures |-> Blank, sensors |-> Blank]

Silent(args) == [args |-> args, typed |-> None, force |-> FALSE, start |-> TRUE, verify |-> TRUE]
Prompted(args, typed, verify) ==
    [args |-> args, typed |-> typed, force |-> FALSE, start |-> FALSE, verify |-> verify]

MCRequests ==
    {Silent(Full), Silent([NoArgs EXCEPT !.environment = "staging"]),
     Silent([Full EXCEPT !.preset = "signoz", !.endpoint = Console]),
     Silent([NoArgs EXCEPT !.key = Blank]),
     Prompted(NoArgs, Enter, TRUE),
     Prompted([NoArgs EXCEPT !.endpoint = Ingest],
              [Enter EXCEPT !.preset = "honeycomb", !.dataset = "hosts", !.key = "typed",
                            !.interval = 1, !.temperatures = TRUE,
                            !.sensors = {"die"}], FALSE),
     Prompted([NoArgs EXCEPT !.endpoint = Ingest],
              [Enter EXCEPT !.environment = "two words", !.sensors = {"nose"}], TRUE)}

Host(f, os, fs, env, ms) ==
    [facts |-> f, os |-> os, files |-> fs, env |-> env, plist |-> "API_KEY" :> "old",
     managers |-> ms, requests |-> MCRequests, starts |-> 0]
Agent(fs, os, ms, n) ==
    [facts |-> Server, os |-> os, files |-> fs, env |-> << >>, plist |-> << >>,
     managers |-> ms, requests |-> {}, starts |-> n]

MCScenarios ==
    {Host(Mac, "darwin", << >>, << >>, {}),
     Host(Mac, "darwin", "brew" :> Whole(Kept, "0600"), << >>, {}),
     Host(MacWithAgent, "darwin", "support" :> Whole(Keyless, "0600"), << >>,
          {"LaunchAgentLoaded"}),
     Host(Server, "linux", << >>, "LOG" :> "debug", {}),
     Host(Server, "linux", "etc" :> Whole(Kept, "0644"), << >>, {}),
     Host(Server, "linux", "etc" :> Garbage, "API_KEY" :> "old", {}),
     Host(Server, "linux", "etc" :> Whole(Keyless, "0644"),
          ("API_KEY" :> "old") @@ ("LOG" :> "debug"), {"Systemd"}),
     Host(UnderEtcElsewhere, "linux", "etcElsewhere" :> Whole(Kept, "0644"), << >>, {}),
     Host(Sandbox, "linux", "explicit" :> Garbage, << >>, {}),
     Host(NoFacts, "linux", "home" :> Whole(Kept, "0600"), << >>, {}),
     Agent("etc" :> Whole([Kept EXCEPT !.filesystems = {}], "0644"), "linux", {"Systemd"}, 1),
     Agent("brew" :> Whole(Keyless, "0600"), "windows", {"BrewServices"}, 2),
     [Agent(<< >>, "linux", {}, 1) EXCEPT !.requests = {Silent([Full EXCEPT !.interval = 2])}]}

Busy ==
    [cpu |-> 40, used |-> 6, total |-> 8, os |-> "linux", load |-> 2, uptime |-> 9,
     disks |-> << [mount |-> "/", total |-> 10, available |-> 4],
                  [mount |-> "/data", total |-> 10, available |-> 4],
                  [mount |-> "/proc", total |-> 0, available |-> 0] >>,
     interfaces |-> ("en0" :> [receive |-> 5, transmit |-> 3])
                    @@ ("en1" :> [receive |-> 5, transmit |-> 3]),
     sensors |-> << [label |-> "die", celsius |-> 60], [label |-> "die", celsius |-> 61],
                    [label |-> "fan", celsius |-> 60], [label |-> "lid", celsius |-> None] >>]
Bare ==
    [Busy EXCEPT !.total = 0, !.used = 0, !.interfaces = << >>, !.sensors = << >>]
MCMachines == {Busy, Bare, [Busy EXCEPT !.os = "windows"], [Busy EXCEPT !.os = "darwin"]}

MCSpaced == {"two words"}
MCText == STRING \cup {Blank}
MCHeaderMap == {<< >>, Kept.headers}
MCAttributeMap == {<< >>, Kept.attributes}
=============================================================================
