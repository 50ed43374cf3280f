---------------------------- MODULE CommandPolicy -----------------------------
(***************************************************************************)
(* ReadOnlyCommandValidator: which commands the agent may run.  Arguments  *)
(* are words; the test for shell characters is left out, for no collector  *)
(* passes any.                                                             *)
(***************************************************************************)
EXTENDS Integers, Sequences

ALLOWED_COMMANDS ==
    {"cat", "df", "ps", "ss", "ip", "hostname", "uname", "journalctl", "docker",
     "kubectl", "free", "uptime", "lscpu", "lsblk", "systemctl", "hostnamectl", "tail"}

(* Permitted sub-commands, word by word; <<>> stands for none at all.      *)
ALLOWED_SUBCOMMANDS ==
    [systemctl |-> {<<w>> : w \in {"status", "show", "list-units", "list-unit-files",
                        "is-active", "is-enabled", "get-default", "cat", "is-failed",
                        "list-dependencies", "list-machines"}},
     docker |-> {<<w>> : w \in {"ps", "images", "inspect", "logs", "stats", "top",
                        "version", "history", "diff", "port", "events"}}
                    \union {<<"system", "df">>},
     kubectl |-> {<<w>> : w \in {"get", "describe", "logs", "top", "version", "explain",
                        "api-resources", "api-versions", "cluster-info"}}
                    \union {<<"config", "view">>, <<"auth", "can-i">>},
     ip |-> {<<w>> : w \in {"addr", "link", "route", "neigh"}}
                    \union {<<w, "show">> : w \in {"addr", "link", "route", "neigh"}},
     hostnamectl |-> {<<"status">>, <<>>}]

IpVerbs == {"add", "del", "set", "change", "replace", "flush"}
FORBIDDEN_JOURNALCTL_OPTIONS ==
    {"--rotate", "--vacuum-size", "--vacuum-time", "--vacuum-files"}

(* The options among the words that collectors pass.                       *)
Options == {"-a", "-n", "-o", "-B1", "--output", "--no-trunc", "--no-stream",
            "--no-pager", "--type", "--all", "--no-legend", "--all-namespaces"}
              \union FORBIDDEN_JOURNALCTL_OPTIONS

-------------------------------------------------------------------------------
(* The first run of up to three words that are not options.                *)
Extract_subcommand(arguments) ==
    LET starts == {i \in DOMAIN arguments : arguments[i] \notin Options} IN
    IF starts = {} THEN <<>>
    ELSE LET first == CHOOSE i \in starts : \A j \in starts : i <= j
             lengths == {n \in 1 .. 3 : \A i \in first .. first + n - 1 : i \in starts}
         IN SubSeq(arguments, first,
                   first - 1 + CHOOSE n \in lengths : \A m \in lengths : m <= n)

(* Mutant: the sub-command must be permitted as a whole.                   *)
PermittedAsAWhole(command, subcommand) ==
    subcommand \in ALLOWED_SUBCOMMANDS[command]

(* The sub-command, or words it begins with, is permitted.                 *)
Permitted(command, subcommand) ==
    IF subcommand = <<>> THEN <<>> \in ALLOWED_SUBCOMMANDS[command]
    ELSE \E n \in 1 .. Len(subcommand) :
            SubSeq(subcommand, 1, n) \in ALLOWED_SUBCOMMANDS[command]

Validate(command, arguments) ==
    /\ command \in ALLOWED_COMMANDS
    /\ command \in DOMAIN ALLOWED_SUBCOMMANDS =>
          Permitted(command, Extract_subcommand(arguments))
    /\ command = "ip" => \A i \in DOMAIN arguments : arguments[i] \notin IpVerbs
    /\ command = "journalctl" =>
          \A i \in DOMAIN arguments : arguments[i] \notin FORBIDDEN_JOURNALCTL_OPTIONS
===============================================================================
