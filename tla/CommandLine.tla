---------------------------- MODULE CommandLine ----------------------------
(***************************************************************************)
(* A program built with MainBuilder and run by runMainAndExit (main.cpp).  *)
(* It first registers options, sub-commands and arguments with the         *)
(* builder; then the parser reads the command line, one parameter or one   *)
(* letter of a group of short options per step, calls back, distributes    *)
(* the arguments, and the process exits.                                   *)
(*                                                                         *)
(* The command line is read as it is made up: a step that looks at the     *)
(* next parameter chooses it.  Of an argument only its position counts.    *)
(* A callback accepts what it is given, rejects it (Validity), throws,     *)
(* reports an error to the context and goes on, or ends the process.       *)
(***************************************************************************)
EXTENDS HelpText, Integers, FiniteSets

CONSTANTS
    Verbose, Version, HelpName,  \* the long names --verbose, --version, --help
    Candidates,                  \* the options the program may register
    Specs,                       \* [min, max] of the expect...Arg() calls
    Texts,                       \* descriptions, for wrapText
    ArgKeepsCallback,            \* FALSE: Impl::Arg's constructor as it is written
    MaxCalls,                    \* bound: options and arguments registered
    MaxArguments                 \* bound: arguments on the command line

\* A handler can be given as many arguments as it requires.
ASSUME SpecsAssumption ==
    \A spec \in Specs : spec.min \in Nat /\ spec.max \in Nat /\ spec.min <= spec.max

VARIABLES
    stage,           \* what the program is doing
    options,         \* the registered options, in order
    commands,        \* sub-commands are registered
    specs,           \* Impl::args
    final,           \* callAfterParsing() was called
    arguments,       \* how many arguments were collected
    required,        \* requiredArgCount
    at,              \* the argSpec the loop is at, and its counter i
    given,           \* history: which spec's callback got each argument
    clean,           \* cleanShutdown: KJ_CLEAN_SHUTDOWN is set
    hadErrors,       \* hadErrors of the context
    onStderr,        \* history: something was written on stderr
    trouble,         \* history: something was refused, reported or thrown
    code,            \* the exit code; -1 while the process runs
    help             \* what printHelp made

builder == << options, commands, specs, final >>
parser == << arguments, required, at, given >>
context == << hadErrors, onStderr, trouble, code >>
commandVars ==
    << stage, options, commands, specs, final, arguments, required, at,
       given, clean, hadErrors, onStderr, trouble, code, help >>

Registered == UNION {ToSet(options[i].names) : i \in DOMAIN options}

OptionOf(name) ==
    options[CHOOSE i \in DOMAIN options :
               \E j \in DOMAIN options[i].names : options[i].names[j] = name]

-----------------------------------------------------------------------------
(* The builder.  KJ_REQUIRE throws out of the program's getMain(), which   *)
(* nobody catches.                                                         *)

Register(legal, change) ==
    /\ stage = "building"
    /\ IF legal
       THEN change /\ UNCHANGED stage
       ELSE stage' = "refused" /\ UNCHANGED builder
    /\ UNCHANGED << parser, clean, context, help >>

\* Impl::addOption: no name twice, in this option or in another.
Fresh(option) ==
    /\ option.names # << >>
    /\ IsInjective(option.names)
    /\ \A j \in DOMAIN option.names : option.names[j] \notin Registered

AddOption(option) ==
    /\ Len(options) + Len(specs) < MaxCalls + 2
    /\ Register(Fresh(option),
                options' = Append(options, option) /\ UNCHANGED << commands, specs, final >>)

\* The name is fresh or that of an earlier sub-command.
AddSubCommand ==
    \E fresh \in {TRUE, ~commands} :
        Register(specs = << >> /\ ~final /\ fresh,
                 commands' = TRUE /\ UNCHANGED << options, specs, final >>)

Expect(spec) ==
    /\ Len(options) + Len(specs) < MaxCalls + 2
    /\ Register(~commands,
                specs' = Append(specs, spec) /\ UNCHANGED << options, commands, final >>)

CallAfterParsing ==
    Register(~final /\ ~commands, final' = TRUE /\ UNCHANGED << options, commands, specs >>)

\* build(), and the call of the main function by runMainAndExit.
Build ==
    /\ stage = "building"
    /\ stage' = "options"
    /\ UNCHANGED << builder, parser, clean, context, help >>

-----------------------------------------------------------------------------
(* The end of the process: TopLevelProcessContext and runMainAndExit.      *)

\* Of a message it counts whether it ends with the end of a line.
Messages == {"", "line", "no line end"}

\* writeLineToFd: its calls of WriteFile.  A message that lacks the line end is
\* written once more; the first n calls succeed, and one that fails throws.
WriteCalls(message) ==
    CASE message = "" -> 0
      [] message = "line" -> 1
      [] message = "no line end" -> 2

\* The parser's locals are gone.
Unwound == /\ arguments' = 0 /\ required' = 0 /\ given' = << >>
           /\ at' = [spec |-> 0, i |-> 0]

\* An exception leaves the main function.
Unwinds == stage' = "thrown" /\ Unwound

\* exit() from within the main function.  Under KJ_CLEAN_SHUTDOWN it throws, into
\* runCatchingExceptions, which takes that for a failure.
ExitCode == IF hadErrors THEN 1 ELSE 0

ExitBehind(written) ==
    /\ IF written /\ ~clean
       THEN stage' = "exited" /\ code' = ExitCode' /\ Unwound
       ELSE Unwinds /\ UNCHANGED code
    /\ UNCHANGED << builder, clean >>

\* exitInfo()
ExitInfo(message) ==
    \E n \in 0 .. WriteCalls(message) :
        /\ trouble' = (trouble \/ n < WriteCalls(message))
        /\ UNCHANGED << hadErrors, onStderr >>
        /\ ExitBehind(n = WriteCalls(message))

\* Mutant of UsageError: error() does not set hadErrors.
UsageErrorUnmarked ==
    /\ trouble' = TRUE
    /\ \E n \in 0 .. WriteCalls("no line end") :
          /\ onStderr' = (onStderr \/ n > 0)
          /\ UNCHANGED hadErrors
          /\ ExitBehind(n = WriteCalls("no line end"))
    /\ UNCHANGED help

\* usageError(), which calls exitError(): error() and exit().
UsageError ==
    /\ hadErrors' = TRUE /\ trouble' = TRUE
    /\ \E n \in 0 .. WriteCalls("no line end") :
          /\ onStderr' = (onStderr \/ n > 0)
          /\ ExitBehind(n = WriteCalls("no line end"))
    /\ UNCHANGED help

Uncaught ==
    /\ Unwinds /\ trouble' = TRUE
    /\ UNCHANGED << builder, clean, hadErrors, onStderr, code, help >>

\* The program calls error() and goes on.
Reports(changed) ==
    /\ hadErrors' = TRUE /\ trouble' = TRUE
    /\ \E n \in 0 .. WriteCalls("no line end") :
          /\ onStderr' = (onStderr \/ n > 0)
          /\ IF n = WriteCalls("no line end") THEN changed ELSE Unwinds
    /\ UNCHANGED << builder, clean, code, help >>

\* A callback is called: "changed" is what the parser does when it returns.
Call(changed) ==
    \/ changed /\ UNCHANGED << builder, clean, context, help >>
    \/ Reports(changed)
    \/ UsageError
    \/ Uncaught
    \/ ExitInfo("line") /\ UNCHANGED help

\* runMainAndExit: "*** Uncaught exception ***".  Nobody catches what this throws.
ReportUncaught ==
    /\ stage = "thrown"
    /\ hadErrors' = TRUE
    /\ \E n \in 0 .. WriteCalls("no line end") :
          /\ onStderr' = (onStderr \/ n > 0)
          /\ stage' = IF n = WriteCalls("no line end") THEN "reported" ELSE "terminated"
    /\ UNCHANGED << builder, parser, clean, trouble, code, help >>

\* runMainAndExit: context.exit(), and the exit code that its own catch returns.
Return ==
    /\ stage \in {"returned", "reported"}
    /\ stage' = "exited" /\ code' = ExitCode
    /\ Unwound
    /\ UNCHANGED << builder, clean, hadErrors, onStderr, trouble, help >>

NoHelp == [options |-> << >>, usage |-> << >>, text |-> << >>, lines |-> << >>]

\* printHelp makes its text ...
PrintHelp ==
    /\ stage' = "help"
    /\ \E text \in Texts :
          help' = [options |-> SortedOptions(options),
                   usage |-> [i \in DOMAIN specs |-> UsageOf(specs[i])],
                   text |-> text,
                   lines |-> WrapText(text)]
    /\ Unwound
    /\ UNCHANGED << builder, clean, context >>

\* ... and gives it to exitInfo().
ShowHelp ==
    /\ stage = "help"
    /\ ExitInfo("line")
    /\ help' = NoHelp

-----------------------------------------------------------------------------
(* MainImpl::operator(), the loop over the parameters.                     *)

Parsing == stage = "options"

\* A flag: "--name", or a letter in a group.  printVersion and
\* increaseVerbosity are the builder's own callbacks.
Flag(name) ==
    /\ Parsing
    /\ name \in Registered /\ ~OptionOf(name).arg
    /\ CASE name = Version -> /\ UNCHANGED help
                              /\ \E m \in Messages : ExitInfo(m)
         [] name = Verbose -> UNCHANGED commandVars
         [] OTHER -> Call(UNCHANGED << stage, parser >>)

\* An option with its argument: behind "=", as the rest of the group, or as the
\* next parameter, which is then not looked at again.
OptionWithArg(name) ==
    /\ Parsing
    /\ name \in Registered /\ OptionOf(name).arg
    /\ Call(UNCHANGED << stage, parser >>)

\* An unknown name, "=value" for a flag, or an argument that is missing: the next
\* parameter does not count if it starts with "-".
BadOption == Parsing /\ UsageError

HelpOption ==
    /\ Parsing
    /\ HelpName \notin Registered
    /\ PrintHelp

\* A parameter that is no option, or any one behind "--".
Collect ==
    /\ Parsing /\ ~commands
    /\ arguments < MaxArguments
    /\ arguments' = arguments + 1
    /\ UNCHANGED << stage, builder, required, at, given, clean, context, help >>

\* A sub-command gets the rest of the command line, or "--help" if its name
\* followed "help".  Its main function is the program's: it may return, throw,
\* or end the process.
SubCommand ==
    /\ Parsing /\ commands
    /\ Call(stage' = "returned" /\ UNCHANGED parser)

\* "help" alone; help about help, once to any number of times.
HelpCommand ==
    /\ Parsing /\ commands
    /\ \/ PrintHelp
       \/ \E count \in 0 .. 10 :
             IF count \in 3 .. 9 THEN UsageError
             ELSE ExitInfo("no line end") /\ UNCHANGED help

UnknownCommand == Parsing /\ commands /\ UsageError

-----------------------------------------------------------------------------
(* MainImpl::operator(), the distribution of the arguments.                *)

\* The sum of the numbers c[1], c[2], ...
Total(c) == FoldLeft(+, 0, c)

SumMin == Total([s \in DOMAIN specs |-> specs[s].min])

\* The parameters are used up.
EndOfOptions ==
    /\ Parsing
    /\ IF commands
       THEN UsageError                    \* "missing command"; also behind "--"
       ELSE /\ stage' = "arguments"
            /\ required' = SumMin
            /\ at' = [spec |-> 1, i |-> 0]
            /\ UNCHANGED << builder, arguments, given, clean, context, help >>

Distributing(s) == stage = "arguments" /\ at.spec = s /\ s <= Len(specs)

Left == arguments - Len(given)

\* The callback of spec s for the next argument.  A callback lost by Impl::Arg's
\* constructor is a null pointer.
Give(s, needed) ==
    IF ArgKeepsCallback
    THEN Call(/\ given' = Append(given, s)
              /\ at' = [at EXCEPT !.i = @ + 1]
              /\ required' = required - needed
              /\ UNCHANGED << stage, arguments >>)
    ELSE /\ stage' = "crashed"
         /\ UNCHANGED << builder, parser, clean, context, help >>

GiveRequired(s) ==
    /\ Distributing(s) /\ at.i < specs[s].min
    /\ IF Left = 0 THEN UsageError ELSE Give(s, 1)

\* Mutant of TakesExtra: what later specs require is not kept for them.
TakesExtraGreedy(s) ==
    at.i >= specs[s].min /\ at.i < specs[s].max /\ Left > 0

TakesExtra(s) ==
    at.i >= specs[s].min /\ at.i < specs[s].max /\ Left > required

GiveExtra(s) == Distributing(s) /\ TakesExtra(s) /\ Give(s, 0)

NextSpec(s) ==
    /\ Distributing(s) /\ at.i >= specs[s].min /\ ~TakesExtra(s)
    /\ at' = [spec |-> s + 1, i |-> 0]
    /\ UNCHANGED << stage, builder, arguments, required, given, clean, context, help >>

\* "too many arguments", or the final callback.
EndOfArguments ==
    /\ stage = "arguments" /\ at.spec > Len(specs)
    /\ IF Left > 0 THEN UsageError
       ELSE IF final THEN Call(stage' = "returned" /\ UNCHANGED parser)
       ELSE stage' = "returned" /\ UNCHANGED << builder, parser, clean, context, help >>

-----------------------------------------------------------------------------
CommandInit ==
    /\ stage = "building"
    /\ options = << [names |-> << Verbose >>, arg |-> FALSE],
                    [names |-> << Version >>, arg |-> FALSE] >>
    /\ commands = FALSE /\ specs = << >> /\ final = FALSE
    /\ arguments = 0 /\ required = 0 /\ given = << >>
    /\ at = [spec |-> 0, i |-> 0]
    /\ clean \in BOOLEAN
    /\ hadErrors = FALSE /\ onStderr = FALSE /\ trouble = FALSE
    /\ code = -1
    /\ help = NoHelp

Builder ==
    \/ \E option \in Candidates : AddOption(option)
    \/ AddSubCommand
    \/ \E spec \in Specs : Expect(spec)
    \/ CallAfterParsing
    \/ Build

Parser ==
    \/ \E name \in Registered : Flag(name) \/ OptionWithArg(name)
    \/ BadOption \/ HelpOption \/ Collect \/ SubCommand \/ HelpCommand \/ UnknownCommand
    \/ EndOfOptions

Distribution ==
    \/ \E s \in DOMAIN specs : GiveRequired(s) \/ GiveExtra(s) \/ NextSpec(s)
    \/ EndOfArguments

Ending == ShowHelp \/ ReportUncaught \/ Return

CommandNext == Builder \/ Parser \/ Distribution \/ Ending

CommandSpec == CommandInit /\ [][CommandNext]_commandVars

-----------------------------------------------------------------------------
Counts == [s \in DOMAIN specs |-> Cardinality({k \in DOMAIN given : given[k] = s})]

\* The ways to share n arguments among the specs.
Shares(n) ==
    {c \in [DOMAIN specs -> 0 .. n] :
        /\ \A s \in DOMAIN specs : specs[s].min <= c[s] /\ c[s] <= specs[s].max
        /\ Total(c) = n}

TooMany == at.spec > Len(specs) /\ Left > 0
TooFew == at.spec <= Len(specs) /\ at.i < specs[at.spec].min /\ Left = 0

\* main.h:368-372: the non-optional arguments may come first, last or in the
\* middle; if there are more, the handlers registered first get them.  A parse
\* that succeeds has handed out every argument, in order, within the limits of
\* each handler, and no handler could have had more without taking it from an
\* earlier one; and arguments that can be shared out at all are not refused for
\* being too few or too many.
Distributed ==
    /\ (stage = "returned" /\ ~commands) =>
          /\ \A k \in 2 .. Len(given) : given[k - 1] <= given[k]
          /\ Counts \in Shares(arguments)
          /\ \A c \in Shares(arguments), s \in DOMAIN specs :
                c[s] > Counts[s] => \E r \in 1 .. s - 1 : c[r] < Counts[r]
    /\ (stage = "arguments" /\ (TooMany \/ TooFew)) => Shares(arguments) = {}

\* main.h:111-114: what went wrong on the way, perhaps long before the end (a
\* command line refused, an error reported, an exception, output that could not be
\* written) is told by the exit code, and no exit code 1 comes without a word on
\* stderr.  And the other way round unless KJ_CLEAN_SHUTDOWN is set.
ExitCodeTells ==
    stage = "exited" =>
        /\ trouble => code = 1
        /\ code = 1 => onStderr /\ (trouble \/ clean)

\* main.h:42-43, 118-120 and 139-143: a program from which nothing went wrong, the one
\* that shows its help among them, is successful, also under KJ_CLEAN_SHUTDOWN.
HelpSucceeds == stage = "exited" /\ ~trouble => code = 0

\* main.cpp:546: OptionDisplayOrder never takes two options for the same, so that
\* std::set lists each; the description is wrapped without loss.
HelpIsComplete ==
    help.lines # << >> =>
        /\ ToSet(help.options) = ToSet(options)
        /\ Len(help.options) = Len(options)
        /\ WrapsWell(help.text, help.lines)

\* main.h:359-362: the callbacks set by expectArg() and the like handle the
\* arguments.
ArgumentsHandled == stage # "crashed"
=============================================================================
