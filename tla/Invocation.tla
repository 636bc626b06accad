------------------------------ MODULE Invocation -----------------------------
(***************************************************************************)
(* How a command line and the config files come to what a report uses:     *)
(* ConfigContext (rust/crates/turbotokens-config/src/config.rs), which     *)
(* guesses the command to find the sections that apply to it, and          *)
(* Cli::parse_from_with_config (turbotokens-cli-parser/src/parser.rs),     *)
(* which applies them and then the arguments one by one.                   *)
(*                                                                         *)
(* An argument is a word or an option, with a value after = or None.  Of   *)
(* the options there is one of each kind.  What a command uses is known by *)
(* where it comes from: <<a value of the command line>>, the section of a  *)
(* file, or nowhere.                                                       *)
(***************************************************************************)
EXTENDS Integers, SequencesExt

CONSTANTS
    CommandLines,   \* sequences of arguments
    Disks,          \* the file --config names and those found without it
    Unusable,       \* a file that is not there or not an object
    None

VARIABLES
    argv,           \* the arguments
    disk,           \* the config files
    detected,       \* ConfigContext::command
    config,         \* ConfigContext::value: the options that each section sets
    index,          \* the next argument
    phase,          \* "load", "root", "args", "run" or "refused"
    running,        \* the command that is parsed
    settings,       \* what it uses, by option
    unified         \* whether options of the report of all agents came before the command

ivvars == <<argv, disk, detected, config, index, phase, running, settings, unified>>

----------------------------------------------------------------------------
\* is_command, is_agent_command and the reports of each agent.
UnifiedReports == {"daily", "weekly", "monthly", "session"}
AgentCommands == {"claude", "codex", "opencode", "amp"}
OtherCommands == {"blocks", "statusline", "limits"}
Commands == UnifiedReports \cup AgentCommands \cup OtherCommands

SupportedReports(agent) ==
    CASE agent = "claude" -> UnifiedReports \cup OtherCommands
      [] agent = "codex" -> {"daily", "monthly", "session", "limits"}
      [] agent = "opencode" -> UnifiedReports
      [] OTHER -> {"daily", "monthly", "session"}

\* Commands as they were written before.
Legacy == [c \in {"codex:daily", "claude:weekly"} |->
              IF c = "codex:daily" THEN <<"codex", "daily">> ELSE <<"claude", "weekly">>]

\* is_shared_flag, and what else an option is for.
SharedOptions == {"order", "offline", "no_offline", "since", "last"}
UnifiedOptions == {"sections", "by_agent"}

\* The fields of SharedOptions of a config.
ConfigOptions == SharedOptions \ {"last"}

OptionOf ==
    [flag \in {"--order", "--offline", "--no-offline", "--since", "--last", "--config", "--sections",
               "--by-agent", "--instances", "--start-of-week", "--speed"} |->
        CASE flag = "--order" -> "order" [] flag = "--offline" -> "offline"
          [] flag = "--no-offline" -> "no_offline" [] flag = "--since" -> "since"
          [] flag = "--last" -> "last" [] flag = "--config" -> "config"
          [] flag = "--sections" -> "sections" [] flag = "--by-agent" -> "by_agent"
          [] flag = "--instances" -> "instances" [] flag = "--start-of-week" -> "start_of_week"
          [] OTHER -> "speed"]

IsOption(arg) == arg.text \in DOMAIN OptionOf

\* option_takes_value of the parser.
ParserValued == {"--order", "--since", "--last", "--config", "--sections", "--start-of-week", "--speed"}

\* option_takes_value of the config.
ConfigValued == {"--order", "--since", "--config", "--start-of-week", "--speed"}

\* command_tokens: the words that are no option's value.
Tokens(args, valued) ==
    FoldLeft(LAMBDA found, arg :
                IF found.skip THEN [found EXCEPT !.skip = FALSE]
                ELSE IF IsOption(arg)
                THEN [found EXCEPT !.skip = arg.text \in valued /\ arg.value = None]
                ELSE [found EXCEPT !.tokens = Append(@, arg.text)],
             [skip |-> FALSE, tokens |-> <<>>], args).tokens

----------------------------------------------------------------------------
(***************************************************************************)
(* The config.                                                             *)
(***************************************************************************)
Command(agent, report) == [agent |-> agent, report |-> report]

\* detect_config_command.
DetectCommand(args) ==
    LET tokens == Tokens(args, ConfigValued)
        named == Len(tokens) > 1 /\ tokens[2] \in (UnifiedReports \cup OtherCommands) \ {"limits"}
    IN  IF tokens = <<>> THEN Command(None, "daily")
        ELSE IF tokens[1] \in DOMAIN Legacy
        THEN Command(Legacy[tokens[1]][1], Legacy[tokens[1]][2])
        ELSE IF tokens[1] \in AgentCommands
        THEN Command(tokens[1], IF named THEN tokens[2] ELSE "daily")
        ELSE Command(None, tokens[1])

\* scan_config_path and load_config_value: the file --config names has to be usable, of others
\* the first one that is usable is taken, if any.
Asked(args) ==
    \E i \in DOMAIN args : args[i].text = "--config" /\ (args[i].value # None \/ i < Len(args))

LoadConfigValue ==
    IF Asked(argv) THEN disk.named
    ELSE LET usable == SelectSeq(disk.discovered, LAMBDA file : file # Unusable)
         IN  IF usable = <<>> THEN <<>> ELSE Head(usable)

\* Mutant: what a file says of an agent comes before what it says of commands.
AgentBeforeCommands(command) ==
    LET a == command.agent r == command.report
    IN  IF a = None THEN << <<"defaults">>, <<"commands", r>> >>
        ELSE << <<"defaults">>, <<a, "defaults">>, <<a, "commands", r>>, <<"commands", a, r>>,
                <<"commands", r>>, <<"commands", a, ":", r>> >>

\* option_maps: the sections for a command, later ones override earlier ones.
OptionMaps(command) ==
    LET a == command.agent r == command.report
    IN  IF a = None THEN << <<"defaults">>, <<"commands", r>> >>
        ELSE << <<"defaults">>, <<"commands", a, r>>, <<"commands", r>>, <<"commands", a, ":", r>>,
                <<a, "defaults">>, <<a, "commands", r>> >>

\* apply_shared_options and what is alike of the commands' own: a section's options, if it has them.
Overridden(values, options, sections, s) ==
    [o \in DOMAIN values |->
        IF s \in DOMAIN sections /\ o \in options \cap sections[s] THEN s ELSE values[o]]

\* apply_config_to_shared and the others.
Applied(values, options, sections, command) ==
    FoldLeft(LAMBDA current, s : Overridden(current, options, sections, s), values, OptionMaps(command))

\* SharedArgs::with_defaults, and StatuslineArgs::default, which is offline.
Nowhere == <<>>
Defaults == [o \in SharedOptions \cup UnifiedOptions \cup {"instances", "start_of_week", "speed"} |-> Nowhere]
StatuslineDefaults == [Defaults EXCEPT !["offline"] = <<"default">>]

\* The options only one command has, in the config and after the command's name.
OwnOptions(command) ==
    CASE command = Command("claude", "daily") -> {"instances"}
      [] command = Command("claude", "weekly") -> {"start_of_week"}
      [] command.agent = "codex" /\ command.report # "limits" -> {"speed"}
      [] command.report = "statusline" -> {"offline", "no_offline"}
      [] OTHER -> {}

\* What may follow the command's name.
Accepted(command) ==
    IF command.report = "statusline" THEN OwnOptions(command)
    ELSE SharedOptions \cup OwnOptions(command)
            \cup (IF command.agent = None /\ command.report \in UnifiedReports THEN UnifiedOptions ELSE {})

----------------------------------------------------------------------------
(***************************************************************************)
(* The parser.                                                             *)
(***************************************************************************)
Refuse ==
    /\ phase' = "refused"
    /\ UNCHANGED <<index, running, settings, unified>>

\* unsupported_agent_report_error.
UnsupportedReport(args) ==
    LET tokens == Tokens(args, ParserValued)
    IN  /\ Len(tokens) > 1 /\ tokens[1] \in AgentCommands
        /\ tokens[2] \notin SupportedReports(tokens[1])

\* ConfigContext::from_args and the beginning of parse_from_with_config.
Load ==
    /\ phase = "load"
    /\ detected' = DetectCommand(argv)
    /\ config' = IF LoadConfigValue = Unusable THEN <<>> ELSE LoadConfigValue
    /\ argv' = IF argv # <<>> /\ argv[1].text \in DOMAIN Legacy
               THEN [n \in 1..2 |-> [text |-> Legacy[argv[1].text][n], value |-> None]] \o Tail(argv)
               ELSE argv
    /\ IF UnsupportedReport(argv') \/ LoadConfigValue = Unusable THEN Refuse
       ELSE /\ phase' = "root"
            /\ settings' = Applied(Defaults, ConfigOptions, config', detected')
            /\ UNCHANGED <<index, running, unified>>
    /\ UNCHANGED disk

Arg == argv[index]

\* ArgParser::value_for: the value after =, or the next argument if it is no option.
TakesNext == Arg.text \in ParserValued /\ Arg.value = None
HasValue == TakesNext => index < Len(argv) /\ ~IsOption(argv[index + 1])
ValueFor ==
    IF Arg.text \notin ParserValued THEN <<"yes">>
    ELSE <<IF TakesNext THEN argv[index + 1].text ELSE Arg.value>>

\* An option is taken: parse_shared_arg, parse_unified_report_arg and the commands' own.
Take(options) ==
    LET o == OptionOf[Arg.text] IN
    IF ~IsOption(Arg) \/ o \notin options \cup {"config"} \/ ~HasValue
           \/ (o = "by_agent" /\ Arg.value # None)
    THEN Refuse
    ELSE /\ settings' = IF o = "config" THEN settings ELSE [settings EXCEPT ![o] = ValueFor]
         /\ index' = index + (IF TakesNext THEN 2 ELSE 1)
         /\ unified' = (unified \/ (phase = "root" /\ o \in UnifiedOptions))
         /\ UNCHANGED <<phase, running>>

\* The command's arguments, as the config has them.  A status line starts from its own, but what
\* --last asked for is not forgotten (last_option_error).
Begin(command, taken) ==
    /\ running' = command
    /\ index' = index + taken
    /\ phase' = "args"
    /\ settings' = Applied(IF command.report = "statusline"
                           THEN [StatuslineDefaults EXCEPT !["last"] = settings["last"]] ELSE settings,
                           OwnOptions(command), config, detected)
    /\ UNCHANGED unified

\* parse_command and parse_claude_command: a command of an agent may name a report.
ParseCommand ==
    LET next == IF index < Len(argv) THEN argv[index + 1].text ELSE None
        word == index < Len(argv) /\ ~IsOption(argv[index + 1])
    IN  IF unified /\ Arg.text \notin UnifiedReports THEN Refuse
        ELSE IF Arg.text \notin AgentCommands THEN Begin(Command(None, Arg.text), 1)
        ELSE IF ~word THEN Begin(Command(Arg.text, "daily"), 1)
        ELSE IF next \in SupportedReports(Arg.text) THEN Begin(Command(Arg.text, next), 2)
        ELSE Refuse

\* The loop before the command; without one it is the daily report of all agents.
RootArg ==
    /\ phase = "root"
    /\ IF index > Len(argv) THEN Begin(Command(None, "daily"), 0)
       ELSE IF Arg.text \in Commands THEN ParseCommand
       ELSE Take(SharedOptions \cup UnifiedOptions)
    /\ UNCHANGED <<argv, disk, detected, config>>

\* The loops of the commands.
CommandArg ==
    /\ phase = "args" /\ index <= Len(argv)
    /\ Take(Accepted(running))
    /\ UNCHANGED <<argv, disk, detected, config>>

IsSet(option) == settings[option] # Nowhere

\* last_option_error.
LastIsRefused ==
    /\ IsSet("last")
    /\ \/ running.report \notin UnifiedReports \ {"session"}
       \/ IsSet("since")
       \/ IsSet("sections")

\* The end of parse_from_with_config, and last_window::resolve.
Finish ==
    /\ phase = "args" /\ index > Len(argv)
    /\ IF LastIsRefused THEN Refuse
       ELSE /\ phase' = "run"
            /\ settings' = IF IsSet("last") THEN [settings EXCEPT !["since"] = <<"window">>] ELSE settings
            /\ UNCHANGED <<index, running, unified>>
    /\ UNCHANGED <<argv, disk, detected, config>>

----------------------------------------------------------------------------
IVInit ==
    /\ argv \in CommandLines
    /\ disk \in Disks
    /\ detected = Command(None, "daily")
    /\ config = <<>>
    /\ index = 1
    /\ phase = "load"
    /\ running = Command(None, "daily")
    /\ settings = Defaults
    /\ unified = FALSE

IVNext == Load \/ RootArg \/ CommandArg \/ Finish

----------------------------------------------------------------------------
\* Where the command's own arguments and those before it give an option; a status line takes only
\* the former.
StatuslineAt == Min({i \in DOMAIN argv : argv[i].text = "statusline"})

GivenAt(option) ==
    {i \in DOMAIN argv :
        /\ IsOption(argv[i]) /\ OptionOf[argv[i].text] = option
        /\ running.report = "statusline" => i > StatuslineAt}

GivenValue(i) ==
    IF argv[i].text \notin ParserValued THEN "yes"
    ELSE IF argv[i].value = None THEN argv[i + 1].text ELSE argv[i].value

\* A section of one agent is narrower than one for all, and one of a report than one for all.
Narrower(s, t) ==
    LET own(u) == u[1] \notin {"defaults", "commands"}
        report(u) == "commands" \in {u[i] : i \in DOMAIN u}
    IN  (own(s) /\ ~own(t)) \/ (own(s) = own(t) /\ report(s) /\ ~report(t))

\* The sections that say something of an option to the command the config was read for.
SectionsWith(option) ==
    {s \in DOMAIN config : option \in config[s] /\ \E i \in DOMAIN OptionMaps(detected) : OptionMaps(detected)[i] = s}

\* A command line that is not refused is used before any config file, its last word before its
\* first; of the sections the narrowest counts, and a section is only overridden by a narrower
\* one or by a name for the same (apply_config_to_shared, parse_shared_arg).
CommandLineWins ==
    phase = "run" =>
        \A o \in (ConfigOptions \cup OwnOptions(running)) \ (IF running.report = "statusline" THEN {"order", "since"} ELSE {}) :
            IF o = "since" /\ IsSet("last") THEN settings[o] = <<"window">>
            ELSE IF GivenAt(o) # {} THEN settings[o] = <<GivenValue(Max(GivenAt(o)))>>
            ELSE IF SectionsWith(o) # {}
            THEN settings[o] \in SectionsWith(o) /\ \A s \in SectionsWith(o) : ~Narrower(s, settings[o])
            ELSE settings[o] \in {Nowhere, <<"default">>}

\* A report is made with the sections of its own name: "Command-specific configuration for
\* all-agent reports" (config_schema.rs:21).  There is no section for limits.
SectionsOfTheCommand == phase = "run" /\ running.report # "limits" => detected = running

=============================================================================
